----------------------------- MODULE MCLogParser -----------------------------
(* The directories the parser is checked with: every way an entry can be refused,
   and files with every kind of line, of runs with and without --rps. *)
EXTENDS LogParser, FiniteSetsExt

Name(scenario, timestamp, params) ==
  [scenario |-> scenario, timestamp |-> timestamp, params |-> params]

Param(unit, number) == [unit |-> unit, number |-> number]

Good == Name("serving", TRUE, {Param("rps", TRUE), Param("language", FALSE)})

(* The orders in which the requests can write: one after the other, or all their
   first lines before their second ones. *)
InTurn(p, q) == p[1] < q[1] \/ (p[1] = q[1] /\ p[2] < q[2])
Mixed(p, q) ==
  IF p[1] = 0 \/ q[1] = 0 THEN InTurn(p, q)
                         ELSE p[2] < q[2] \/ (p[2] = q[2] /\ p[1] > q[1])

(* The log of a run, cut off after so many lines. *)
Entry(name, override, outcomes, Before(_, _), written) ==
  LET blank == [override |-> override, outcomes |-> outcomes]
      all == UNION {{q} \X DOMAIN LinesOf(blank, q) : q \in 0..Len(outcomes)}
      by == [n \in 1..Min({written, Cardinality(all)}) |->
               CHOOSE p \in all : Cardinality({q \in all : Before(q, p)}) = n - 1]
  IN  [log |-> TRUE, name |-> name, old |-> FALSE, readable |-> TRUE,
       override |-> override, outcomes |-> outcomes, by |-> by,
       lines |-> [n \in DOMAIN by |-> LinesOf(blank, by[n][1])[by[n][2]]]]

(* The requests of a run with a rate, from its ramp-up and its own loop, and those
   of one without. *)
Some == <<"answered", "cutOffInSendRequest", "cutOffInRun", "unanswered">>
Unlimited == <<"answered", "cutOff", "not200", "unanswered">>
Full == 20 \* more than any file has lines

UsableEntries ==
  {Entry(Good, FALSE, Some, Mixed, Full),
   Entry(Good, FALSE, Unlimited, Mixed, Full),
   Entry(Name("eventing", TRUE, {Param("rps", TRUE), Param("workers", TRUE)}), TRUE,
         <<"cutOff", "answered">>, InTurn, Full),
   Entry(Good, FALSE, <<>>, InTurn, Full),
   Entry(Name("serving", TRUE, {Param("triggers", FALSE)}), FALSE, <<"answered">>, InTurn, Full)}

UnusableEntries ==
  {Entry(Good, FALSE, Some, Mixed, 0),
   Entry(Good, FALSE, Some, Mixed, 1),
   [Entry(Good, FALSE, Some, InTurn, Full) EXCEPT !.log = FALSE],
   [Entry(Good, FALSE, Some, InTurn, Full) EXCEPT !.old = TRUE],
   [Entry(Good, FALSE, Some, InTurn, Full) EXCEPT !.readable = FALSE],
   Entry(Name("other", TRUE, {}), FALSE, Some, InTurn, Full),
   Entry(Name("serving", FALSE, {}), FALSE, Some, InTurn, Full),
   Entry(Name("eventing", TRUE, {Param("triggers", FALSE)}), FALSE, Some, InTurn, Full)}

AllEntries == UsableEntries \cup UnusableEntries

ASSUME AllAreLogs == \A entry \in AllEntries : RunLines(entry)
=============================================================================
