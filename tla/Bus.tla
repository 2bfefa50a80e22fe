-------------------------------- MODULE Bus ---------------------------------
(***************************************************************************)
(* The memory map of the generated program.  The compiler emits it twice:   *)
(* store and load decide at compile time where a literal address goes,      *)
(* dynStore and dynLoad emit code that decides at run time, with shortcuts  *)
(* taken from the range a computed address lies in.  The state is a program *)
(* that makes any sequence of accesses, through every addressing mode; what *)
(* the bytes are does not matter, where they go does.                       *)
(***************************************************************************)
EXTENDS Integers

CONSTANTS Base,   \* the words in the program's instructions and pointers
          Index   \* contents of X, Y and SP

Bytes == {n \in Nat : n < 256}
Words == {n \in Nat : n < 65536}

ASSUME BusAssumption == Base \subseteq Words /\ Index \subseteq Bytes

VARIABLES kind,     \* "load", "store" or, see below, "loadIndirectX"
          reached,  \* the device the last access reached, as a pair: the
                    \* array or function, and where in it
          meant     \* the address the program meant

busVars == <<kind, reached, meant>>

Ram(i) == <<"wram", i>>
Prg(i) == <<"prg", i>>
Rejected == <<"rejected", 0>>   \* a compile error, or a panic at run time

RamEnd  == 8192    \* $2000
PpuEnd  == 16384   \* $4000
PrgBase == 32768   \* $8000

IsPpu(addr) == RamEnd <= addr /\ addr < PpuEnd
PpuWritten == {0, 1, 3, 4, 5, 6, 7}
PpuRead    == {2, 4, 7}

(* $4000 .. $4013 but $4009 and $400d, $4015 and $4017. *)
IsApuWritten(addr) ==
    \/ PpuEnd <= addr /\ addr <= 16403 /\ addr \notin {16393, 16397}
    \/ addr \in {16405, 16407}
Dma        == 16404   \* $4014
ApuStatus  == 16405   \* $4015
Pad1       == 16406   \* $4016
Pad2       == 16407   \* $4017

(* The homebrew ABI: $2008 and $2009. *)
PutChar == 8200
Exit    == 8201

BusInit ==
    /\ kind = "load"
    /\ reached = Rejected
    /\ meant = RamEnd

-----------------------------------------------------------------------------
(* The decision dynStore and dynLoad emit for run time: RAM, the picture    *)
(* unit's registers, the registers above them, program ROM.                 *)
DynStorePpu(register) ==
    IF register \in PpuWritten THEN <<"ppuWrite", register>> ELSE Rejected

DynStoreIo(addr) ==
    CASE IsApuWritten(addr) -> <<"apuWrite", addr>>
      [] addr = Dma -> <<"dma", 0>>
      [] addr = Pad1 -> <<"padWrite", 0>>
      [] OTHER -> Rejected

DynStoreChecked(addr) ==
    CASE addr < RamEnd -> Ram(addr % 2048)
      [] IsPpu(addr) -> DynStorePpu(addr % 8)
      [] OTHER -> DynStoreIo(addr)

DynLoadPpu(register) ==
    IF register \in PpuRead THEN <<"ppuRead", register>> ELSE Rejected

DynLoadHigh(addr) ==
    CASE addr >= PrgBase -> Prg(addr - PrgBase)
      [] addr = ApuStatus -> <<"apuRead", 0>>
      [] addr \in {Pad1, Pad2} -> <<"padRead", addr - Pad1>>
      [] OTHER -> Rejected

DynLoadChecked(addr) ==
    CASE addr < RamEnd -> Ram(addr % 2048)
      [] IsPpu(addr) -> DynLoadPpu(addr % 8)
      [] OTHER -> DynLoadHigh(addr)

(* Wrong variants, for mutation testing. *)
DynStoreWideShortcut(addr, maxAddr) ==
    IF maxAddr < RamEnd THEN Ram(addr) ELSE DynStoreChecked(addr)

DynLoadBankShortcut(addr, minAddr, maxAddr) ==
    IF minAddr >= PrgBase THEN Prg(addr - PrgBase) ELSE DynLoadChecked(addr)

(* dynStore: below $800 the address itself is the place in the array. *)
DynStore(addr, maxAddr) ==
    IF maxAddr < 2048 THEN Ram(addr) ELSE DynStoreChecked(addr)

(* dynLoad: shortcuts for RAM, for mirrored RAM and for program ROM. *)
DynLoad(addr, minAddr, maxAddr) ==
    CASE maxAddr < 2048 -> Ram(addr)
      [] 2048 <= maxAddr /\ maxAddr < RamEnd -> Ram(addr % 2048)
      [] minAddr >= PrgBase /\ maxAddr < 65536 -> Prg(addr - PrgBase)
      [] OTHER -> DynLoadChecked(addr)

-----------------------------------------------------------------------------
(* store, for a literal address. *)
StorePpu(register) == IF register = 2 THEN Rejected ELSE <<"ppuWrite", register>>

StoreIo(addr) ==
    CASE addr = Dma -> <<"dma", 0>>
      [] addr = Pad1 -> <<"padWrite", 0>>
      [] addr \in {16393, 16397} \/ addr > Pad2 -> Rejected
      [] OTHER -> <<"apuWrite", addr>>

StoreMapped(addr) ==
    CASE addr < RamEnd -> Ram(addr % 2048)
      [] IsPpu(addr) -> StorePpu(addr % 8)
      [] OTHER -> StoreIo(addr)

(* The homebrew ports come first, whatever they would mirror. *)
Store(addr) ==
    CASE addr = PutChar -> <<"putchar", 0>>
      [] addr = Exit -> <<"exit", 0>>
      [] OTHER -> StoreMapped(addr)

(* load. *)
LoadPpu(register) == IF register \in PpuRead THEN <<"ppuRead", register>> ELSE Rejected

LoadHigh(addr) ==
    CASE addr = ApuStatus -> <<"apuRead", 0>>
      [] addr = Pad1 -> <<"padRead", 0>>
      [] addr = Pad2 -> <<"padRead", 1>>
      [] addr >= PrgBase -> Prg(addr - PrgBase)
      [] OTHER -> Rejected

Load(addr) ==
    CASE addr < RamEnd -> Ram(addr % 2048)
      [] IsPpu(addr) -> LoadPpu(addr % 8)
      [] OTHER -> LoadHigh(addr)

-----------------------------------------------------------------------------
(* The addressing modes: the address computed in the width of its mode, and *)
(* the range the compiler knows it lies in.                                 *)
Word(n) == n % 65536
Zpg(n)  == n % 256

Access(what, device, addr) == kind' = what /\ reached' = device /\ meant' = addr

StoreAbs(base) == Access("store", Store(base), base)
LoadAbs(base)  == Access("load", Load(base), base)

StoreAbsIndexed(base, index) ==
    LET addr == Word(base + index)
    IN  Access("store", DynStore(addr, base + 255), addr)

LoadAbsIndexed(base, index) ==
    LET addr == Word(base + index)
    IN  Access("load", DynLoad(addr, base, base + 255), addr)

StoreZpgIndexed(base, index) ==
    LET addr == Zpg(base + index) IN Access("store", DynStore(addr, 255), addr)

LoadZpgIndexed(base, index) ==
    LET addr == Zpg(base + index) IN Access("load", DynLoad(addr, 0, 255), addr)

(* Through a pointer in the zero page. *)
StoreIndirectY(pointer, index) ==
    LET addr == Word(pointer + index)
    IN  Access("store", DynStore(addr, 65535), addr)

LoadIndirectY(pointer, index) ==
    LET addr == Word(pointer + index)
    IN  Access("load", DynLoad(addr, 0, 65535), addr)

Push(sp) == Access("store", DynStore(256 + sp, 511), 256 + sp)
Pull(sp) == Access("load", DynLoad(256 + sp, 256, 511), 256 + sp)

(* lda (zp,x): the code loads the zero-page byte itself and not what the    *)
(* pointer there points to; its one-byte index into the array is signed.    *)
LoadIndirectX(base, index, pointer) ==
    LET addr   == Zpg(base + index)
        signed == IF addr < 128 THEN addr ELSE addr - 256
    IN  Access("loadIndirectX", DynLoad(signed, 0, 255), pointer)

BusNext ==
    \/ \E base \in Base :
          \/ LoadAbs(base) \/ StoreAbs(base)
          \/ \E index \in Index :
                \/ LoadAbsIndexed(base, index) \/ StoreAbsIndexed(base, index)
                \/ LoadZpgIndexed(base, index) \/ StoreZpgIndexed(base, index)
                \/ LoadIndirectY(base, index) \/ StoreIndirectY(base, index)
                \/ \E pointer \in Base : LoadIndirectX(base, index, pointer)
    \/ \E sp \in Index : Push(sp) \/ Pull(sp)

BusSpec == BusInit /\ [][BusNext]_busVars

-----------------------------------------------------------------------------
(* The type invariant: no access but lda (zp,x) leaves the 2 KB of RAM or   *)
(* the 32 KB of program ROM, whatever the index adds to the literal.        *)
BusTypeOK ==
    /\ kind \in {"load", "store", "loadIndirectX"} /\ meant \in Words
    /\ kind # "loadIndirectX" =>
          /\ reached[1] = "wram" => reached[2] \in Nat /\ reached[2] < 2048
          /\ reached[1] = "prg" => reached[2] \in Nat /\ reached[2] < 32768

(* The two copies of the memory map agree: a computed address reaches, in   *)
(* every mode and for every index, also when base plus index passes $ffff,  *)
(* the device that the same address reaches as a literal.  The homebrew     *)
(* ports exist for literal stores only.                                     *)
MapsAgree ==
    /\ kind = "load" => reached = Load(meant)
    /\ kind = "store" /\ meant \notin {PutChar, Exit} => reached = Store(meant)
=============================================================================
