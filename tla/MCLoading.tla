----------------------------- MODULE MCLoading -----------------------------
(***************************************************************************)
(* Files for Loading: a module with every section, cut short, with a byte  *)
(* changed, or with sections dropped, doubled or swapped; one small module *)
(* for each proposal, under every choice of what is switched off; a module *)
(* under every policy; and files that are nothing but a number.            *)
(***************************************************************************)
EXTENDS Loading, MCSoundness

MCDigests == {"known", "other"}

-----------------------------------------------------------------------------
(* An assembler.                                                           *)

List0(entries) == <<Len(entries)>> \o FlattenSeq(entries)
Section(id, entries) == LET payload == List0(entries) IN <<id, Len(payload)>> \o payload
Body(locals, instrs) == LET bytes == List0(locals) \o instrs \o <<\H0B>> IN <<Len(bytes)>> \o bytes
File(sections) == Preamble \o FlattenSeq(sections)

-----------------------------------------------------------------------------
(* Configurations.                                                         *)

Lines(mode, pins) ==
  [state |-> "text", lines |-> (IF mode = <<>> THEN <<>> ELSE <<[kind |-> "mode", words |-> mode]>>)
                               \o [k \in DOMAIN pins |-> [kind |-> "pin", words |-> <<pins[k]>>]]]
NoDb == [state |-> "absent", lines |-> <<>>]
Unreadable == [state |-> "unreadable", lines |-> <<>>]
Hidden == [state |-> "hidden", lines |-> <<>>]
Plainly == [paths |-> <<NoDb>>, pins |-> {}, verify |-> {}, optOut |-> FALSE, tty |-> FALSE, features |-> <<>>]

RootDbs == {NoDb, Unreadable} \cup {Lines(mode, pins) : mode \in {<<>>, <<"off">>, <<"warn">>, <<"enforce">>, <<"strict">>},
                                                        pins \in {<<"known">>, <<"mangled">>}}
UserDbs == {NoDb, Hidden, Lines(<<"off">>, <<"other">>), Lines(<<"enforce">>, <<"known">>), Lines(<<>>, <<"other", "known">>)}
Policies ==
  {[Plainly EXCEPT !.paths = paths, !.pins = pins, !.verify = verify, !.optOut = optOut, !.tty = tty] :
     paths \in {<<db>> : db \in RootDbs} \cup {<<db, Lines(<<"enforce">>, <<"known">>)>> : db \in {NoDb, Unreadable, Hidden}},
     pins \in {{}} \cup {{db} : db \in UserDbs}, verify \in {{}, {"off"}, {"warn"}, {"enforce"}},
     optOut \in BOOLEAN, tty \in BOOLEAN}

Item(on, name) == [on |-> on, name |-> name]
Switches ==
  {<<>>, <<Item(TRUE, "mvp")>>, <<Item(TRUE, "simdd")>>, <<Item(TRUE, "gc"), Item(TRUE, "function-references"), Item(TRUE, "reference-types")>>}
  \cup {<<Item(FALSE, name)>> : name \in AllFeatures}
  \cup {<<Item(FALSE, a), Item(FALSE, b)>> : a \in {"gc"}, b \in {"custom-descriptors"}}
  \cup {<<Item(TRUE, "all"), Item(FALSE, "custom-descriptors"), Item(FALSE, "gc"), Item(FALSE, "function-references"),
          Item(FALSE, "exceptions")>>,
        <<Item(FALSE, "custom-descriptors"), Item(FALSE, "gc"), Item(FALSE, "function-references"),
          Item(FALSE, "exceptions"), Item(FALSE, "reference-types")>>,
        <<Item(FALSE, "relaxed-simd"), Item(FALSE, "simd")>>}

-----------------------------------------------------------------------------
(* A module with every section.  Types: a struct with a reference to itself,  *)
(* one below it with a reference to exactly the first, a function, one from   *)
(* a struct to a number, an array of bytes.                                   *)

Sections ==
  << Section(1, << <<\H4E, 2, \H50, 0, \H5F, 2, \H7F, 1, \H63, 0, 1>>
                   \o <<\H50, 1, 0, \H5F, 3, \H7F, 1, \H63, 0, 1, \H63, \H62, 0, 0>>,
                   <<\H60, 0, 0>>, <<\H60, 1, \H63, 0, 1, \H7F>>, <<\H5E, \H78, 1>> >>),
     Section(2, << <<1, \H61, 0, 0, 2>>, <<0, 1, \H62, 3, \H7F, 0>> >>),
     Section(3, << <<3>>, <<2>> >>),
     Section(4, << <<\H70, 1, 1, 2>> >>),
     Section(5, << <<0, 1>> >>),
     Section(13, << <<0, 2>> >>),
     Section(6, << <<\H63, 0, 0, \HD0, 0, \H0B>>, <<\H7F, 1, \H41, 1, \H23, 0, \H6A, \H0B>> >>),
     Section(7, << <<1, \H66, 0, 1>>, <<1, \H6D, 2, 0>> >>),
     <<8, 1, 2>>,
     Section(9, << <<0, \H41, 0, \H0B, 2, 1, 2>>, <<5, \H70, 1, \HD2, 0, \H0B>> >>),
     <<12, 1, 1>>,
     Section(10, << Body(<< <<1, \H63, 1>> >>, <<\H20, 0, \HFB, 2, 0, 0>>),
                    Body(<<>>, <<\H41, 0, \H41, 0, \H41, 1, \HFC, 8, 0, 0, \H02, \H40, \H0B>>) >>),
     Section(11, << <<0, \H23, 0, \H0B, 1, 7>> >>) >>

\* Its bytes cut short, or one of them another.
Whole == File(Sections)
Cut == {SubSeq(Whole, 1, n) : n \in 0..Len(Whole)}
Changed ==
  {[Whole EXCEPT ![k] = b] : k \in DOMAIN Whole, b \in {0, 2, \H62, \H80}}
  \cup {[Whole EXCEPT ![k] = (@ + 1) % 256] : k \in DOMAIN Whole}
\* Sections dropped, said twice, or in another order.
Rearranged ==
  LET Without(k) == SubSeq(Sections, 1, k - 1) \o SubSeq(Sections, k + 1, Len(Sections))
      Twice(k) == SubSeq(Sections, 1, k) \o SubSeq(Sections, k, Len(Sections))
      Swapped(k) == [Sections EXCEPT ![k] = Sections[k + 1], ![k + 1] = Sections[k]]
      custom == <<0, 3, 1, \H6E, 9>>
  IN  {File(Without(k)) : k \in DOMAIN Sections} \cup {File(Twice(k)) : k \in DOMAIN Sections}
      \cup {File(Swapped(k)) : k \in 1..(Len(Sections) - 1)}
      \cup {File(SubSeq(Sections, 1, k) \o <<custom>> \o SubSeq(Sections, k + 1, Len(Sections))) : k \in 0..Len(Sections)}

-----------------------------------------------------------------------------
(* One small module for each proposal: a function, its type 0.             *)

Small(types, sections, locals, instrs) ==
  File(<<Section(1, types), Section(3, << <<0>> >>)>> \o sections \o <<Section(10, <<Body(locals, instrs)>>)>>)
Nothing == <<\H60, 0, 0>>
OneMemory == Section(5, << <<0, 1>> >>)
Proposals ==
  { Small(<<Nothing>>, <<>>, <<>>, <<\H41, 1, \HC0, \H1A>>),
    Small(<<Nothing>>, <<>>, <<>>, <<\H43, 0, 0, 0, 0, \HFC, 0, \H1A>>),
    Small(<< <<\H60, 0, 2, \H7F, \H7E>> >>, <<>>, <<>>, <<\H41, 1, \H42, 1>>),
    Small(<< <<\H60, 1, \H6F, 0>> >>, <<>>, <<>>, <<\H20, 0, \HD1, \H1A>>),
    Small(<<Nothing>>, <<OneMemory>>, <<>>, <<\H41, 0, \H41, 0, \H41, 0, \HFC, \H0B, 0>>),
    Small(<<Nothing>>, <<Section(6, << <<\H7F, 0, \H41, 1, \H41, 1, \H6A, \H0B>> >>)>>, <<>>, <<\H23, 0, \H1A>>),
    Small(<< <<\H60, 1, \H7B, 0>> >>, <<>>, <<>>, <<\H20, 0, \H20, 0, \HFD, \H0E, \H1A>>),
    Small(<<Nothing>>, <<OneMemory>>, <<>>, <<\H41, 0, \HFD, 0, 4, 0, \H1A>>),
    Small(<< <<\H60, 1, \H7B, 0>> >>, <<>>, <<>>, <<\H20, 0, \H20, 0, \HFD, \H80, 2, \H1A>>),
    Small(<<Nothing>>, <<Section(5, << <<3, 1, 1>> >>)>>, <<>>, <<\H41, 0, \HFE, \H10, 2, 0, \H1A>>),
    Small(<<Nothing>>, <<Section(5, << <<0, 1>>, <<8, 0, 0>> >>)>>, <<>>, <<\H3F, 1, \H1A>>),
    Small(<<Nothing>>, <<Section(5, << <<4, 1>> >>)>>, <<>>, <<\H42, 1, \H40, 0, \H1A>>),
    Small(<< <<\H60, 1, \H64, 0, 0>> >>, <<>>, <<>>, <<\H20, 0, \H1A>>),
    Small(<<Nothing>>, <<Section(9, << <<3, 0, 1, 0>> >>)>>, <<>>, <<\HD2, 0, \H14, 0>>),
    Small(<<Nothing, <<\H5F, 1, \H7F, 0>> >>, <<>>, << <<1, \H63, 1>> >>, <<\HFB, 1, 1, \H21, 0>>),
    Small(<<Nothing, <<\H5E, \H6E, 1>> >>, <<>>, << <<1, \H63, 1>> >>,
          <<\HD0, \H6E, \H41, 1, \HFB, 6, 1, \H22, 0, \H41, 0, \HFB, \H0B, 1, \H1A>>),
    Small(<<Nothing, <<\H5F, 1, \H69, 0>> >>, <<>>, <<>>, <<\HFB, 1, 1, \HFB, 2, 1, 0, \H1A>>),
    Small(<<Nothing>>, <<>>, <<>>, <<\H41, 1, \HFB, \H1C, \HFB, \H17, \H6C, \HFB, \H1D, \H1A>>),
    Small(<<Nothing>>, <<Section(13, << <<0, 0>> >>)>>, <<>>, <<\H06, \H40, \H08, 0, \H07, 0, \H0B>>),
    Small(<<Nothing>>, <<Section(13, << <<0, 0>> >>)>>, <<>>,
          <<\H02, \H69, \H1F, \H40, 1, 3, 0, \H10, 0, \H0B, \H0F, \H0B, \H1A>>),
    Small(<<Nothing>>, <<>>, <<>>, <<\H12, 0>>),
    Small(<< <<\H60, 0, 2, \H7E, \H7E>> >>, <<>>, <<>>, <<\H42, 1, \H42, 1, \HFC, \H15>>),
    Small(<<Nothing, <<\H4E, 2, \H4D, 2, \H5F, 0, \H4C, 1, \H5F, 0>> >>, <<>>, <<>>, <<\HFB, 1, 2, \HFB, \H21, 1, \H1A>>),
    Small(<<Nothing, <<\H5F, 1, \H7B, 0>> >>, <<>>, <<>>, <<\HFB, 1, 1, \HFB, 2, 1, 0, \H1A>>),
    Small(<<Nothing, <<\H5F, 0>>, <<\H5F, 1, \H63, \H62, 1, 0>> >>, <<>>, <<>>, <<\HFB, 1, 2, \H1A>>),
    Small(<< <<\H60, 0, 1, \H70>> >>, <<Section(4, << <<\H70, 0, 1>> >>)>>, <<>>, <<\H02, \H70, \HD0, \H70, \H0B>>) }

\* Modules that each lack what one of their sections refers to.
Loose ==
  {File(<<section>>) : section \in {Section(11, << <<0, \H41, 0, \H0B, 1, 7>> >>), Section(9, << <<0, \H41, 0, \H0B, 0>> >>),
                                   Section(7, << <<1, \H66, 0, 0>> >>), <<8, 1, 0>>, <<12, 1, 1>>,
                                   Section(6, << <<\H7F, 0, \H23, 0, \H0B>> >>)}}
  \cup {Small(<< <<\H60, 1, \H7F, 0>> >>, << <<8, 1, 0>> >>, <<>>, <<>>),
        Small(<<Nothing>>, <<OneMemory>>, <<>>, <<\H41, 0, \H41, 0, \H41, 0, \HFC, 8, 0, 0>>)}

-----------------------------------------------------------------------------
(* Numbers: bytes that continue, and a last one.                           *)

Numerals ==
  {[k \in 1..n |-> high] \o <<last>> : n \in 0..10, high \in {\H80, \HFF, \HC0, \HBF},
     last \in {0, 1, 2, 7, 8, 15, 16, 31, 32, 63, 64, \H6F, \H70, \H77, \H78, \H7E, \H7F, \H80}}

Given(bytes, config) == [bytes |-> bytes, digest |-> "known", config |-> config]
AllFiles ==
  {Given(bytes, Plainly) : bytes \in Cut \cup Changed \cup Rearranged \cup Loose \cup Numerals}
  \cup {Given(bytes, [Plainly EXCEPT !.features = items]) : bytes \in Proposals \cup {Whole}, items \in Switches}
  \cup {[bytes |-> File(<<>>), digest |-> digest, config |-> config] : digest \in MCDigests, config \in Policies}
=============================================================================
