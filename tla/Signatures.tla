----------------------------- MODULE Signatures -----------------------------
(***************************************************************************)
(* What the validator says of the instructions with a fixed signature:     *)
(* simple_sig, simd_sig and atomic_val_type of                             *)
(* crates/wasmrt-core/src/validate.rs, and the alignments and gaps of the  *)
(* opcode tables, opcode.rs.  Operands are written bottom first.  An       *)
(* internal tag has the code its two bytes spell, \HFC00 and up.           *)
(*                                                                         *)
(* An access to memory has "address" for its first operand: the validator  *)
(* puts the index type of the memory in its place.                         *)
(***************************************************************************)
EXTENDS Integers, Sequences, SequencesExt

Sig(pop, push) == [pop |-> pop, push |-> push]
Unary(t) == Sig(<<t>>, <<t>>)
Binary(t) == Sig(<<t, t>>, <<t>>)
Relation(t) == Sig(<<t, t>>, <<"i32">>)
Convert(from, to) == Sig(<<from>>, <<to>>)
Load(t) == Sig(<<"address">>, <<t>>)
Store(t) == Sig(<<"address", t>>, <<>>)
NoSig == Sig(<<"none">>, <<"none">>)

ComparisonSig(code) ==
  CASE code = \H45          -> Convert("i32", "i32")
    [] code \in \H46..\H4F  -> Relation("i32")
    [] code = \H50          -> Convert("i64", "i32")
    [] code \in \H51..\H5A  -> Relation("i64")
    [] code \in \H5B..\H60  -> Relation("f32")
    [] code \in \H61..\H66  -> Relation("f64")

ArithmeticSig(code) ==
  CASE code \in \H67..\H69  -> Unary("i32")
    [] code \in \H6A..\H78  -> Binary("i32")
    [] code \in \H79..\H7B  -> Unary("i64")
    [] code \in \H7C..\H8A  -> Binary("i64")
    [] code \in \H8B..\H91  -> Unary("f32")
    [] code \in \H92..\H98  -> Binary("f32")
    [] code \in \H99..\H9F  -> Unary("f64")
    [] code \in \HA0..\HA6  -> Binary("f64")

ConversionSig(code) ==
  CASE code = \HA7              -> Convert("i64", "i32")
    [] code \in {\HA8, \HA9}    -> Convert("f32", "i32")
    [] code \in {\HAA, \HAB}    -> Convert("f64", "i32")
    [] code \in {\HAC, \HAD}    -> Convert("i32", "i64")
    [] code \in {\HAE, \HAF}    -> Convert("f32", "i64")
    [] code \in {\HB0, \HB1}    -> Convert("f64", "i64")
    [] code \in {\HB2, \HB3}    -> Convert("i32", "f32")
    [] code \in {\HB4, \HB5}    -> Convert("i64", "f32")
    [] code = \HB6              -> Convert("f64", "f32")
    [] code \in {\HB7, \HB8}    -> Convert("i32", "f64")
    [] code \in {\HB9, \HBA}    -> Convert("i64", "f64")
    [] code = \HBB              -> Convert("f32", "f64")
    [] code = \HBC              -> Convert("f32", "i32")
    [] code = \HBD              -> Convert("f64", "i64")
    [] code = \HBE              -> Convert("i32", "f32")
    [] code = \HBF              -> Convert("i64", "f64")
    [] code \in {\HC0, \HC1}    -> Unary("i32")
    [] code \in \HC2..\HC4      -> Unary("i64")

\* The internal tags: saturating truncation, and wide arithmetic on pairs.
InternalSig(code) ==
  CASE code \in \HFC00..\HFC01  -> Convert("f32", "i32")
    [] code \in \HFC02..\HFC03  -> Convert("f64", "i32")
    [] code \in \HFC04..\HFC05  -> Convert("f32", "i64")
    [] code \in \HFC06..\HFC07  -> Convert("f64", "i64")
    [] code \in \HFC13..\HFC14  -> Sig(<<"i64", "i64", "i64", "i64">>, <<"i64", "i64">>)
    [] code \in \HFC15..\HFC16  -> Sig(<<"i64", "i64">>, <<"i64", "i64">>)

ConstSig(code) == Sig(<<>>, << <<"i32", "i64", "f32", "f64">>[code - \H40] >>)

MemorySig(code) ==
  CASE code \in {\H28, \H2C, \H2D, \H2E, \H2F}      -> Load("i32")
    [] code \in {\H29} \cup \H30..\H35              -> Load("i64")
    [] code = \H2A                                  -> Load("f32")
    [] code = \H2B                                  -> Load("f64")
    [] code \in {\H36, \H3A, \H3B}                  -> Store("i32")
    [] code \in {\H37, \H3C, \H3D, \H3E}            -> Store("i64")
    [] code = \H38                                  -> Store("f32")
    [] code = \H39                                  -> Store("f64")

\* The code names a sub-opcode that some proposal assigns.
SimdAssigned(sub) ==
  sub \in 0..\H113 \ {\H9A, \HA2, \HA5, \HA6, \HAF, \HB0, \HB2, \HB3, \HB4, \HBB, \HC2, \HC5,
                      \HC6, \HCF, \HD0, \HD2, \HD3, \HD4, \HE2, \HEE}

SimdIsMemoryOp(sub) == sub \in \H00..\H0B \cup {\H5C, \H5D} \cup \H54..\H5B

SimdMemorySig(sub) ==
  CASE sub \in \H00..\H0A \cup {\H5C, \H5D} -> Load("v128")
    [] sub \in {\H0B} \cup \H58..\H5B       -> Store("v128")
    [] sub \in \H54..\H57                   -> Sig(<<"address", "v128">>, <<"v128">>)

SimdLaneSig(sub) ==
  CASE sub \in \H0F..\H11                         -> Convert("i32", "v128")
    [] sub = \H12                                 -> Convert("i64", "v128")
    [] sub = \H13                                 -> Convert("f32", "v128")
    [] sub = \H14                                 -> Convert("f64", "v128")
    [] sub \in {\H15, \H16, \H18, \H19, \H1B}     -> Convert("v128", "i32")
    [] sub = \H1D                                 -> Convert("v128", "i64")
    [] sub = \H1F                                 -> Convert("v128", "f32")
    [] sub = \H21                                 -> Convert("v128", "f64")
    [] sub \in {\H17, \H1A, \H1C}                 -> Sig(<<"v128", "i32">>, <<"v128">>)
    [] sub = \H1E                                 -> Sig(<<"v128", "i64">>, <<"v128">>)
    [] sub = \H20                                 -> Sig(<<"v128", "f32">>, <<"v128">>)
    [] sub = \H22                                 -> Sig(<<"v128", "f64">>, <<"v128">>)

SimdTernary == {\H52, \H113} \cup \H105..\H10C
SimdTests == {\H53, \H63, \H83, \HA3, \HC3, \H64, \H84, \HA4, \HC4}
SimdShifts == \H6B..\H6D \cup \H8B..\H8D \cup \HAB..\HAD \cup \HCB..\HCD
SimdUnary ==
  {\H4D, \H5E, \H5F} \cup \H60..\H62 \cup \H67..\H6A \cup {\H74, \H75, \H7A} \cup \H7C..\H81
  \cup \H87..\H8A \cup {\H94, \HA0, \HA1} \cup \HA7..\HAA \cup {\HC0, \HC1} \cup \HC7..\HCA
  \cup {\HE0, \HE1, \HE3, \HEC, \HED, \HEF} \cup \HF8..\HFF \cup \H101..\H104

SimdSig(sub) ==
  CASE SimdIsMemoryOp(sub)  -> SimdMemorySig(sub)
    [] sub = \H0C           -> Sig(<<>>, <<"v128">>)
    [] sub \in \H0F..\H22   -> SimdLaneSig(sub)
    [] sub \in SimdTernary  -> Sig(<<"v128", "v128", "v128">>, <<"v128">>)
    [] sub \in SimdTests    -> Convert("v128", "i32")
    [] sub \in SimdShifts   -> Sig(<<"v128", "i32">>, <<"v128">>)
    [] sub \in SimdUnary    -> Unary("v128")
    [] OTHER                -> Binary("v128")

\* Read-modify-writes come in groups of seven from \H1E.
AtomicValType(sub) ==
  CASE sub \in {\H10, \H12, \H13, \H17, \H19, \H1A} -> "i32"
    [] sub \in \H11..\H1D                           -> "i64"
    [] OTHER -> IF (sub - 30) % 7 \in {0, 2, 3} THEN "i32" ELSE "i64"

AtomicAssigned(sub) == sub \in 0..3 \cup \H10..\H4E

AtomicSig(sub) ==
  LET t == AtomicValType(sub)
  IN  CASE sub = \H00           -> Sig(<<"address", "i32">>, <<"i32">>)
        [] sub = \H01           -> Sig(<<"address", "i32", "i64">>, <<"i32">>)
        [] sub = \H02           -> Sig(<<"address", "i64", "i64">>, <<"i32">>)
        [] sub = \H03           -> Sig(<<>>, <<>>)
        [] sub \in \H10..\H16   -> Load(t)
        [] sub \in \H17..\H1D   -> Store(t)
        [] sub \in \H1E..\H47   -> Sig(<<"address", t>>, <<t>>)
        [] sub \in \H48..\H4E   -> Sig(<<"address", t, t>>, <<t>>)

-----------------------------------------------------------------------------
(* Alignments, in powers of two: the largest a plain access may claim, and *)
(* the one an atomic access must.                                          *)

NaturalAlign(code) ==
  CASE code \in {\H2C, \H2D, \H30, \H31, \H3A, \H3C}              -> 0
    [] code \in {\H2E, \H2F, \H32, \H33, \H3B, \H3D}              -> 1
    [] code \in {\H28, \H2A, \H34, \H35, \H36, \H38, \H3E}        -> 2
    [] code \in {\H29, \H2B, \H37, \H39}                          -> 3

SimdNaturalAlign(sub) ==
  CASE sub \in {\H07, \H54, \H58}                     -> 0
    [] sub \in {\H08, \H55, \H59}                     -> 1
    [] sub \in {\H09, \H5C, \H56, \H5A}               -> 2
    [] sub \in \H01..\H06 \cup {\H0A, \H5D, \H57, \H5B} -> 3
    [] OTHER                                          -> 4

AtomicNaturalAlign(sub) ==
  CASE sub \in {\H00, \H01, \H10, \H17, \H16, \H1D}   -> 2
    [] sub \in {\H02, \H11, \H18}                     -> 3
    [] sub \in {\H03, \H12, \H19, \H14, \H1B}         -> 0
    [] sub \in {\H13, \H1A, \H15, \H1C}               -> 1
    [] OTHER -> <<2, 3, 0, 1, 0, 1, 2>>[((sub - 30) % 7) + 1]

\* The signature of a plain opcode; NoSig for one that has none.
SimpleSig(code) ==
  CASE code \in \H28..\H3E                          -> MemorySig(code)
    [] code \in \H41..\H44                          -> ConstSig(code)
    [] code \in \H45..\H66                          -> ComparisonSig(code)
    [] code \in \H67..\HA6                          -> ArithmeticSig(code)
    [] code \in \HA7..\HC4                          -> ConversionSig(code)
    [] code \in \HFC00..\HFC07 \cup \HFC13..\HFC16  -> InternalSig(code)
    [] OTHER                                        -> NoSig
=============================================================================
