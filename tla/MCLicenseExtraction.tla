------------------------ MODULE MCLicenseExtraction ------------------------
(* Answers of four entries in two sections.  The first three are numbered   *)
(* down to the third level, with and without a colon, or have no number and *)
(* any type and frequency; one may have no description.  The fourth is one  *)
(* too many if all of them are kept.                                        *)
EXTENDS LicenseExtraction

Numbers == {<<>>, <<1>>, <<1, 1>>, <<1, 1, 1>>}

Shapes ==
    [number : Numbers, introduces : BOOLEAN, type : {None},
     periodicity : {None}, blank : {FALSE}]
    \cup [number : {<<>>}, introduces : {FALSE},
          type : {None, "PERIODIC", "INFORMATIVE"},
          periodicity : {None, "ANNUAL"}, blank : {FALSE}]
    \cup [number : {<<1>>}, introduces : {TRUE}, type : {None},
          periodicity : {None}, blank : {TRUE}]

Last == [number |-> <<>>, introduces |-> FALSE, type |-> None,
         periodicity |-> None, blank |-> FALSE]

Entry(shape, k) ==
    [number |-> shape.number, introduces |-> shape.introduces,
     type |-> shape.type, periodicity |-> shape.periodicity,
     text |-> IF shape.blank THEN <<>> ELSE <<k>>]

MCItems == {Entry(shape, k) : shape \in Shapes \cup {Last}, k \in 1..4}

SectionOf(list, from, to, descriptor) ==
    [descriptor |-> descriptor,
     items |-> [k \in 1..(to - from) |-> Entry(list[from + k], from + k)]]

MCAnswers ==
    {[data |-> data, sections |-> <<SectionOf(list, 0, cut, "a"),
                                    SectionOf(list, cut, 4, "b")>>] :
        data \in {None, "data"}, cut \in {1},
        list \in {Append(first, Last) : first \in [1..3 -> Shapes]}}
=============================================================================
