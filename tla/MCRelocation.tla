------------------------------ MODULE MCRelocation ------------------------------
(***************************************************************************)
(* Files for the model checker: one or two entries of every type with      *)
(* addends at the limits of its field; symbols of every binding; tables    *)
(* over three segments, one of them without file contents.  Segments may   *)
(* be given the addresses other segments were linked at.                   *)
(***************************************************************************)
EXTENDS Relocation

Seg(vaddr, filled) == [vaddr |-> vaddr, memsz |-> 64, filled |-> filled]
Sym(name, bind, vis, def, value) ==
  [name |-> name, bind |-> bind, vis |-> vis, def |-> def, value |-> value]
Rela(offset, type, sym, addend) ==
  [offset |-> offset, type |-> type, sym |-> sym, addend |-> addend]

BaseSymbol == Sym("__TI_STATIC_BASE", "local", "default", TRUE, 4096)
Exported(name, value) == Sym(name, "global", "default", TRUE, value)

File(segs, symbols, locals, sections, rela, plt, needs) ==
  [segs |-> segs, entry |-> 8200, phdr |-> [i \in DOMAIN segs |-> segs[i].vaddr],
   symtab |-> symbols, locals |-> locals, tags |-> sections, rela |-> rela, plt |-> plt,
   needs |-> needs, dsbt_index |-> 2]

Limits(type) ==
  CASE type \in BranchType ->
         {-BranchReach[type] - 4, -BranchReach[type], BranchReach[type] - 4, BranchReach[type]}
    [] type = "SBR_U15_B" -> {-1, 0, 32767, 32768}
    [] type = "SBR_U15_H" -> {-2, 0, 65534, 65536}
    [] type = "SBR_U15_W" -> {-4, 0, 131068, 131072}
    [] type = "DSBT_INDEX" -> {-12, -8, 131060, 131064}
    [] type = "SBR_S16" -> {-32769, -32768, 32767, 32768}
    [] type = "ABS_S16" -> {-4096, 28671, 28672}
    [] type = "PREL31" -> {-4, 4, 100000}
    [] OTHER -> {-8192, 12}

(* One entry; its symbol is in its own segment or in the other.            *)
OneEntry(type, sym, addend) ==
  File(<< Seg(4096, TRUE), Seg(8192, TRUE) >>,
       << BaseSymbol, Sym("here", "local", "default", TRUE, 4096),
          Sym("there", "global", "hidden", TRUE, 8192) >>, 2,
       << 8192 >>, << Rela(4100, type, sym, addend) >>, 0, << >>)

LimitFiles ==
  UNION {{OneEntry(type, sym, addend) : sym \in {2, 3}, addend \in Limits(type)} :
           type \in RelocType}

HalvesFiles ==
  {File(<< Seg(4096, TRUE), Seg(8192, TRUE) >>,
        << BaseSymbol, Sym("far", "local", "default", TRUE, 8196) >>, 2, << >>,
        << Rela(4096, low, 2, addend), Rela(4100, HighOf(low), 2, addend) >>, 0, << >>) :
      low \in LowType \cup {"ABS_L16"}, addend \in {-8192, 0, 65532, 400000}}

(* Every kind of symbol, against needed modules that both have "both".     *)
Needs == << << Exported("first", 100000), Exported("both", 100004),
               Sym("second", "global", "default", FALSE, 0) >>,
            << Exported("both", 200000), Exported("second", 200004) >> >>

Symbols ==
  << BaseSymbol, Sym("edge", "local", "default", TRUE, 4160),
     Sym("lost", "local", "default", FALSE, 0),
     Sym("both", "global", "default", TRUE, 8192), Sym("second", "global", "default", FALSE, 0),
     Sym("own", "global", "default", TRUE, 8196), Sym("inner", "global", "hidden", TRUE, 8200) >>

SymbolFiles ==
  {File(<< Seg(4096, TRUE), Seg(8192, TRUE) >>, Symbols, 3, << 4100, tag >>,
        << Rela(4096, "ABS32", a, 8), Rela(4100, "ABS32", b, 0) >>, plt, Needs) :
      a \in 2 .. 7, b \in {4, 5, 7}, tag \in {8192, 8256}, plt \in 0 .. 1}

TableFiles ==
  {File(<< Seg(4096, TRUE), Seg(8192, FALSE), Seg(4160, TRUE) >>,
        << BaseSymbol, Sym("x", "local", "default", TRUE, 4168) >>, 2, << 4160 >>,
        [k \in 1 .. 4 |-> Rela(at[k] + 4 * k, "ABS32", 2, k)], plt, << >>) :
      at \in [1 .. 4 -> {4096, 4160}] \cup {<< 8192, 4160, 4160, 4096 >>}, plt \in 0 .. 2}

(* Without a static base, and linked at 0, where undefined symbols are too. *)
OddFiles ==
  {File(<< Seg(0, TRUE), Seg(8192, TRUE) >>,
        << Sym("here", "local", "default", TRUE, 4), Sym("none", "global", "hidden", FALSE, 0) >>,
        1, << 0 >>, << Rela(8, type, sym, 0) >>, 0, << >>) :
      type \in {"SBR_S16", "ABS32"}, sym \in {1, 2}}

AllFiles == LimitFiles \cup HalvesFiles \cup SymbolFiles \cup TableFiles \cup OddFiles
=============================================================================
