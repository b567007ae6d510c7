------------------------------ MODULE Effects ------------------------------
(***************************************************************************)
(* What the interpreter does to its operand stack for the instructions     *)
(* with fixed operands: exec_numeric, exec_float, exec_memory, exec_simd   *)
(* and exec_atomic of crates/wasmrt-core/src/interp.rs.  The operands are  *)
(* written in the order the code pops them, the top of the stack first;    *)
(* "address" is a pop_mem, whose width is the width of the memory.         *)
(***************************************************************************)
EXTENDS Integers, Sequences, SequencesExt

Does(pops, pushes) == [pops |-> pops, pushes |-> pushes]
Unsupported == Does(<<"none">>, <<"none">>)

NumericEffect(code) ==
  CASE code \in {\H45} \cup \H67..\H69 \cup {\HC0, \HC1}    -> Does(<<"i32">>, <<"i32">>)
    [] code \in \H46..\H4F \cup \H6A..\H78                  -> Does(<<"i32", "i32">>, <<"i32">>)
    [] code \in {\H50, \HA7}                                -> Does(<<"i64">>, <<"i32">>)
    [] code \in \H79..\H7B \cup \HC2..\HC4                  -> Does(<<"i64">>, <<"i64">>)
    [] code \in \H51..\H5A                                  -> Does(<<"i64", "i64">>, <<"i32">>)
    [] code \in \H7C..\H8A                                  -> Does(<<"i64", "i64">>, <<"i64">>)
    [] code \in {\HAC, \HAD}                                -> Does(<<"i32">>, <<"i64">>)

FloatEffect(code) ==
  CASE code \in \H5B..\H60          -> Does(<<"f32", "f32">>, <<"i32">>)
    [] code \in \H61..\H66          -> Does(<<"f64", "f64">>, <<"i32">>)
    [] code \in \H8B..\H91          -> Does(<<"f32">>, <<"f32">>)
    [] code \in \H92..\H98          -> Does(<<"f32", "f32">>, <<"f32">>)
    [] code \in \H99..\H9F          -> Does(<<"f64">>, <<"f64">>)
    [] code \in \HA0..\HA6          -> Does(<<"f64", "f64">>, <<"f64">>)
    [] code \in \HA8..\HA9          -> Does(<<"f32">>, <<"i32">>)
    [] code \in \HAA..\HAB          -> Does(<<"f64">>, <<"i32">>)
    [] code \in \HAE..\HAF          -> Does(<<"f32">>, <<"i64">>)
    [] code \in \HB0..\HB1          -> Does(<<"f64">>, <<"i64">>)
    [] code \in \HB2..\HB3          -> Does(<<"i32">>, <<"f32">>)
    [] code \in \HB4..\HB5          -> Does(<<"i64">>, <<"f32">>)
    [] code = \HB6                  -> Does(<<"f64">>, <<"f32">>)
    [] code \in \HB7..\HB8          -> Does(<<"i32">>, <<"f64">>)
    [] code \in \HB9..\HBA          -> Does(<<"i64">>, <<"f64">>)
    [] code = \HBB                  -> Does(<<"f32">>, <<"f64">>)

\* The slot holds the bit pattern already: a reinterpretation leaves it, and
\* what it is read as changes.
ReinterpretEffect(code) ==
  CASE code = \HBC -> Does(<<"f32">>, <<"i32">>)
    [] code = \HBD -> Does(<<"f64">>, <<"i64">>)
    [] code = \HBE -> Does(<<"i32">>, <<"f32">>)
    [] code = \HBF -> Does(<<"i64">>, <<"f64">>)

SaturatingEffect(code) ==
  CASE code \in \HFC00..\HFC01 -> Does(<<"f32">>, <<"i32">>)
    [] code \in \HFC02..\HFC03 -> Does(<<"f64">>, <<"i32">>)
    [] code \in \HFC04..\HFC05 -> Does(<<"f32">>, <<"i64">>)
    [] code \in \HFC06..\HFC07 -> Does(<<"f64">>, <<"i64">>)

\* A 128-bit number is a pair, the high half on top.
WideEffect(code) ==
  CASE code \in \HFC13..\HFC14 -> Does(<<"i64", "i64", "i64", "i64">>, <<"i64", "i64">>)
    [] code \in \HFC15..\HFC16 -> Does(<<"i64", "i64">>, <<"i64", "i64">>)

ConstEffect(code) ==
  CASE code = \H41 -> Does(<<>>, <<"i32">>)
    [] code = \H42 -> Does(<<>>, <<"i64">>)
    [] code = \H43 -> Does(<<>>, <<"f32">>)
    [] code = \H44 -> Does(<<>>, <<"f64">>)

LoadEffect(code) ==
  CASE code \in {\H28} \cup \H2C..\H2F -> Does(<<"address">>, <<"i32">>)
    [] code \in {\H29} \cup \H30..\H35 -> Does(<<"address">>, <<"i64">>)
    [] code = \H2A                     -> Does(<<"address">>, <<"f32">>)
    [] code = \H2B                     -> Does(<<"address">>, <<"f64">>)

StoreEffect(code) ==
  CASE code \in {\H36, \H3A, \H3B} -> Does(<<"i32", "address">>, <<>>)
    [] code = \H38                 -> Does(<<"f32", "address">>, <<>>)
    [] code = \H39                 -> Does(<<"f64", "address">>, <<>>)
    [] OTHER                       -> Does(<<"i64", "address">>, <<>>)

SimpleEffect(code) ==
  CASE code \in \H28..\H35                                -> LoadEffect(code)
    [] code \in \H36..\H3E                                -> StoreEffect(code)
    [] code \in \H41..\H44                                -> ConstEffect(code)
    [] code \in \H5B..\H66 \cup \H8B..\HA6 \cup \HA8..\HAB \cup \HAE..\HBB -> FloatEffect(code)
    [] code \in \HBC..\HBF                                -> ReinterpretEffect(code)
    [] code \in \HFC00..\HFC07                            -> SaturatingEffect(code)
    [] code \in \HFC13..\HFC16                            -> WideEffect(code)
    [] code \in \H45..\HC4                                -> NumericEffect(code)
    [] OTHER                                              -> Unsupported

-----------------------------------------------------------------------------
(* Vectors.  The arithmetic goes through the lane macros: one operand, two *)
(* or three, or a vector under the count of a shift.                       *)

SimdMemoryEffect(sub) ==
  CASE sub \in \H00..\H0A \cup {\H5C, \H5D} -> Does(<<"address">>, <<"v128">>)
    [] sub \in {\H0B} \cup \H58..\H5B       -> Does(<<"v128", "address">>, <<>>)
    [] sub \in \H54..\H57                   -> Does(<<"v128", "address">>, <<"v128">>)

SimdMoveEffect(sub) ==
  CASE sub = \H0C                             -> Does(<<>>, <<"v128">>)
    [] sub \in \H0F..\H11                     -> Does(<<"i32">>, <<"v128">>)
    [] sub = \H12                             -> Does(<<"i64">>, <<"v128">>)
    [] sub = \H13                             -> Does(<<"f32">>, <<"v128">>)
    [] sub = \H14                             -> Does(<<"f64">>, <<"v128">>)
    [] sub \in {\H15, \H16, \H18, \H19, \H1B} -> Does(<<"v128">>, <<"i32">>)
    [] sub = \H1D                             -> Does(<<"v128">>, <<"i64">>)
    [] sub = \H1F                             -> Does(<<"v128">>, <<"f32">>)
    [] sub = \H21                             -> Does(<<"v128">>, <<"f64">>)
    [] sub \in {\H17, \H1A, \H1C}             -> Does(<<"i32", "v128">>, <<"v128">>)
    [] sub = \H1E                             -> Does(<<"i64", "v128">>, <<"v128">>)
    [] sub = \H20                             -> Does(<<"f32", "v128">>, <<"v128">>)
    [] sub = \H22                             -> Does(<<"f64", "v128">>, <<"v128">>)

\* Multiply and add, choosing lanes, and the dot product with a sum take three.
RelaxedLanes(sub) == IF sub \in {\H113} \cup \H105..\H10C THEN 3 ELSE 2

SimdLanes(sub) ==
  CASE sub \in \H105..\H113 -> RelaxedLanes(sub)
    [] sub = \H52 -> 3
    [] sub \in {\H4D, \H5E, \H5F, \H74, \H75, \H7A, \H94, \HA0, \HA1, \HC0, \HC1, \HE0, \HE1, \HE3,
                \HEC, \HED, \HEF} \cup \H60..\H62 \cup \H67..\H6A \cup \H7C..\H81 \cup \H87..\H8A
                \cup \HA7..\HAA \cup \HC7..\HCA \cup \HF8..\HFF \cup \H101..\H104 -> 1
    [] OTHER -> 2

SimdLaneEffect(sub) ==
  CASE sub \in {\H53, \H63, \H64, \H83, \H84, \HA3, \HA4, \HC3, \HC4} -> Does(<<"v128">>, <<"i32">>)
    [] sub \in \H6B..\H6D \cup \H8B..\H8D \cup \HAB..\HAD \cup \HCB..\HCD ->
         Does(<<"i32", "v128">>, <<"v128">>)
    [] OTHER -> Does([k \in 1..SimdLanes(sub) |-> "v128"], <<"v128">>)

SimdEffect(sub) ==
  CASE sub \in \H00..\H0B \cup \H54..\H5D -> SimdMemoryEffect(sub)
    [] sub \in {\H0C} \cup \H0F..\H22     -> SimdMoveEffect(sub)
    [] OTHER                              -> SimdLaneEffect(sub)

-----------------------------------------------------------------------------
(* Atomics.                                                                *)

AtomicIs64(sub) ==
  \/ sub \in {\H11, \H14, \H15, \H16, \H18, \H1B, \H1C, \H1D}
  \/ sub >= \H1E /\ (sub - 30) % 7 \in {1, 4, 5, 6}

AtomicEffect(sub) ==
  LET t == IF AtomicIs64(sub) THEN "i64" ELSE "i32"
  IN  CASE sub = \H00 -> Does(<<"i32", "address">>, <<"i32">>)
        [] sub \in \H01..\H02 -> Does(<<"i64", IF sub = \H01 THEN "i32" ELSE "i64", "address">>, <<"i32">>)
        [] sub = \H03 -> Does(<<>>, <<>>)
        [] sub \in \H10..\H16 -> Does(<<"address">>, <<t>>)
        [] sub \in \H17..\H1D -> Does(<<t, "address">>, <<>>)
        [] sub \in \H1E..\H4E ->
             IF (sub - 30) \div 7 = 6 THEN Does(<<t, t, "address">>, <<t>>)
             ELSE Does(<<t, "address">>, <<t>>)

\* The access width, as a power of two, that an atomic checks its address by.
AtomicAlignLog2(sub) ==
  CASE sub \in {\H00, \H01}     -> 2
    [] sub = \H02               -> 3
    [] sub = \H03               -> 0
    [] sub \in {\H10, \H17}     -> 2
    [] sub \in {\H11, \H18}     -> 3
    [] sub \in {\H12, \H19}     -> 0
    [] sub \in {\H13, \H1A}     -> 1
    [] sub \in {\H14, \H1B}     -> 0
    [] sub \in {\H15, \H1C}     -> 1
    [] sub \in {\H16, \H1D}     -> 2
    [] OTHER -> CASE (sub - 30) % 7 \in {0, 6} -> 2
                  [] (sub - 30) % 7 = 1        -> 3
                  [] (sub - 30) % 7 \in {2, 4} -> 0
                  [] OTHER                     -> 1
=============================================================================
