-------------------------- MODULE EventLoggerProofs --------------------------
(***************************************************************************)
(* The safety of EventLogger for every number of instances, requests,      *)
(* crashes and failed writes.                                              *)
(*                                                                         *)
(* What makes it work is how little is ever buffered: BufferInv says that  *)
(* an instance whose disk has not failed it buffers at most the header and *)
(* the row of the request that holds the mutex and is about to flush.      *)
(***************************************************************************)
EXTENDS EventLogger, SequenceTheorems, FiniteSetTheorems, TLAPS

(* Who holds the mutex: a request in its critical section, or one that left it
   with an answer 500. *)
MutexInv ==
  /\ MutualExclusion
  /\ \A q \in Requests : at[q] = "lock" => up[inst[q]]
  /\ \A i \in Instances : mu[i] # None => inst[mu[i]] = i /\ at[mu[i]] \in Critical \cup {"done"}
  /\ LeakExplained

BufferInv ==
  \A i \in Instances : up[i] /\ ~failed[i] =>
    /\ \A q \in Requests : at[q] = "flush" /\ inst[q] = i =>
         buf[i] = <<Header, q>> \/ (buf[i] = <<q>> /\ file # <<>>)
    /\ (\A q \in Requests : ~(at[q] = "flush" /\ inst[q] = i)) =>
         buf[i] = <<Header>> \/ (buf[i] = <<>> /\ file # <<>>)

(* A failed instance is past its last Flush. *)
FailedInv ==
  \A q \in Requests : at[q] = "flush" => ~failed[inst[q]]

(* A row in the file belongs to a request that has flushed. *)
FileInv ==
  /\ \A k \in DOMAIN file : file[k] \in Requests => at[file[k]] \in {"unlock", "done"}
  /\ RowOnce
  /\ HeaderFirst

IInv == TypeOK /\ MutexInv /\ BufferInv /\ FailedInv /\ FileInv

-----------------------------------------------------------------------------
(* The short sequences that buffers are. *)

(* A sequence of length 2, and one of length 1, is its elements. *)
LEMMA ShortSequence ==
  ASSUME NEW S, NEW s \in Seq(S)
  PROVE  /\ Len(s) = 2 => s = <<s[1], s[2]>>
         /\ Len(s) = 1 => s = <<s[1]>>
<1>1. ASSUME Len(s) = 2 PROVE s = <<s[1], s[2]>>
  <2> DEFINE t == <<s[1], s[2]>>
  <2> s[1] \in S /\ s[2] \in S
    BY <1>1, 1 \in 1..2, 2 \in 1..2, ElementOfSeq
  <2>1. t \in Seq(S) /\ Len(t) = 2 /\ t[1] = s[1] /\ t[2] = s[2]
    OBVIOUS
  <2> HIDE DEF t
  <2>2. Len(s) = Len(t) /\ \A k \in 1..Len(s) : s[k] = t[k]
    <3>1. \A k \in 1..2 : k = 1 \/ k = 2
      OBVIOUS
    <3>2. QED
      BY <1>1, <2>1, <3>1
  <2>3. s = t
    BY <2>1, <2>2, SeqEqual
  <2>4. QED
    BY <2>3 DEF t
<1>2. ASSUME Len(s) = 1 PROVE s = <<s[1]>>
  <2> DEFINE t == <<s[1]>>
  <2> s[1] \in S
    BY <1>2
  <2>1. t \in Seq(S) /\ Len(t) = 1 /\ t[1] = s[1]
    OBVIOUS
  <2> HIDE DEF t
  <2>2. s = t
    BY <1>2, <2>1, SeqEqual
  <2>3. QED
    BY <2>2 DEF t
<1>3. QED
  BY <1>1, <1>2

(* A row appended to the empty buffer or to the header. *)
LEMMA AppendToShort ==
  ASSUME NEW a, NEW b
  PROVE  Append(<<a>>, b) = <<a, b>> /\ Append(<<>>, b) = <<b>>
<1>1. <<a>> \in Seq({a, b}) /\ b \in {a, b}
  OBVIOUS
<1>2. /\ Append(<<a>>, b) \in Seq({a, b}) /\ Len(Append(<<a>>, b)) = 2
      /\ Append(<<a>>, b)[1] = a /\ Append(<<a>>, b)[2] = b
  BY <1>1
<1>3. Append(<<a>>, b) = <<a, b>>
  BY <1>2, ShortSequence
<1>4. Append(<<>>, b) = <<b>>
  OBVIOUS
<1>5. QED
  BY <1>3, <1>4

(* A buffer of one or two lines, cut off within one of them. *)
LEMMA CutShort ==
  ASSUME NEW a, NEW b, NEW c, NEW s, s = <<a, b>> \/ s = <<b>>, NEW k \in 0..Len(s) - 1
  PROVE  SubSeq(s, 1, k) \o <<c>> \in {<<c>>, <<a, c>>}
<1> DEFINE S == {a, b, c}
<1>1. <<a>> \in Seq(S) /\ <<c>> \in Seq(S) /\ <<a, b>> \in Seq(S) /\ <<b>> \in Seq(S)
  OBVIOUS
<1>2. Len(<<a, b>>) = 2 /\ Len(<<b>>) = 1
  OBVIOUS
<1>3. CASE k = 0
  <2>1. SubSeq(s, 1, k) = <<>>
    BY <1>3, SubSeqEmpty
  <2>2. <<>> \o <<c>> = <<c>>
    BY <1>1, ConcatEmptySeq
  <2>3. QED
    BY <2>1, <2>2
<1>4. CASE k = 1 /\ s = <<a, b>>
  <2>1. /\ SubSeq(<<a, b>>, 1, 1) \in Seq(S) /\ Len(SubSeq(<<a, b>>, 1, 1)) = 1
        /\ SubSeq(<<a, b>>, 1, 1)[1] = a
    BY <1>1, SubSeqProperties
  <2>2. SubSeq(s, 1, k) = <<a>>
    BY <1>4, <2>1, ShortSequence
  <2>3. /\ (<<a>> \o <<c>>) \in Seq(S) /\ Len(<<a>> \o <<c>>) = 2
        /\ (<<a>> \o <<c>>)[1] = a /\ (<<a>> \o <<c>>)[2] = c
    BY <1>1
  <2>4. <<a>> \o <<c>> = <<a, c>>
    BY <2>3, ShortSequence
  <2>5. QED
    BY <1>4, <2>2, <2>4
<1>5. k = 0 \/ (k = 1 /\ s = <<a, b>>)
  <2>1. CASE s = <<a, b>>
    <3>1. Len(s) = 2
      BY <1>2, <2>1
    <3>2. QED
      BY <2>1, <3>1
  <2>2. CASE s = <<b>>
    <3>1. Len(s) = 1
      BY <1>2, <2>2
    <3>2. QED
      BY <3>1
  <2>3. QED
    BY <2>1, <2>2
<1>6. QED
  BY <1>3, <1>4, <1>5

(* A buffer of one line, cut off within it. *)
LEMMA CutOne ==
  ASSUME NEW b, NEW c, NEW s, s = <<b>>, NEW k \in 0..Len(s) - 1
  PROVE  SubSeq(s, 1, k) \o <<c>> = <<c>>
<1>1. <<b>> \in Seq({b, c}) /\ <<c>> \in Seq({b, c}) /\ Len(<<b>>) = 1 /\ k = 0
  <2>1. Len(<<b>>) = 1
    OBVIOUS
  <2>2. QED
    BY <2>1
<1>2. SubSeq(s, 1, k) = <<>>
  BY <1>1, SubSeqEmpty
<1>3. QED
  BY <1>1, <1>2, ConcatEmptySeq

(* A sequence of at most two cut short between its elements is its first. *)
LEMMA CutBetween ==
  ASSUME NEW a, NEW b, NEW s, s = <<a, b>> \/ s = <<b>>, NEW k \in 1..Len(s) - 1
  PROVE  s = <<a, b>> /\ SubSeq(s, 1, k) = <<a>>
<1> DEFINE S == {a, b}
<1>1. <<a>> \in Seq(S) /\ <<a, b>> \in Seq(S)
  OBVIOUS
<1>2. Len(<<a, b>>) = 2 /\ Len(<<b>>) = 1
  OBVIOUS
<1>3. s = <<a, b>> /\ k = 1
  <2>1. CASE s = <<a, b>>
    <3>1. Len(s) = 2
      BY <1>2, <2>1
    <3>2. QED
      BY <2>1, <3>1
  <2>2. CASE s = <<b>>
    <3>1. Len(s) = 1
      BY <1>2, <2>2
    <3>2. QED
      BY <3>1
  <2>3. QED
    BY <2>1, <2>2
<1>4. /\ SubSeq(<<a, b>>, 1, 1) \in Seq(S) /\ Len(SubSeq(<<a, b>>, 1, 1)) = 1
      /\ SubSeq(<<a, b>>, 1, 1)[1] = a
  BY <1>1, SubSeqProperties
<1>5. QED
  BY <1>3, <1>4, ShortSequence

-----------------------------------------------------------------------------
(* What appending does to a file. *)

(* Lines that are not cut off. *)
Whole == Requests \cup {Header}

(* The lines that were there stay, but for a cut-off last one; every whole line
   of the new part is one of the lines appended, in their order. *)
LEMMA AppendLinesFacts ==
  ASSUME NEW f \in Seq(Line), NEW ls \in Seq(Line), ls # <<>>
  PROVE  /\ AppendLines(f, ls) \in Seq(Line)
         /\ AppendLines(f, ls) # <<>>
         /\ f = <<>> => AppendLines(f, ls) = ls
         /\ f # <<>> => AppendLines(f, ls)[1] \in {f[1], Torn, Garbled}
         /\ \E s \in {Len(f), Len(f) - 1} :
              \A k \in DOMAIN AppendLines(f, ls) :
                AppendLines(f, ls)[k] \in Whole =>
                  \/ k \in DOMAIN f /\ AppendLines(f, ls)[k] = f[k]
                  \/ k > Len(f) /\ k - s \in DOMAIN ls /\ AppendLines(f, ls)[k] = ls[k - s]
<1> USE DEF AppendLines
<1>1. CASE f = <<>> \/ f[Len(f)] # Torn
  <2>1. AppendLines(f, ls) = f \o ls
    BY <1>1
  <2>2. \A k \in DOMAIN (f \o ls) :
          \/ k \in DOMAIN f /\ (f \o ls)[k] = f[k]
          \/ k > Len(f) /\ k - Len(f) \in DOMAIN ls /\ (f \o ls)[k] = ls[k - Len(f)]
    OBVIOUS
  <2>3. QED
    BY <2>1, <2>2
<1>2. CASE f # <<>> /\ f[Len(f)] = Torn
  <2> DEFINE g == [f EXCEPT ![Len(f)] = IF Head(ls) = Torn THEN Torn ELSE Garbled]
  <2>1. AppendLines(f, ls) = g \o Tail(ls)
    BY <1>2
  <2>2. g \in Seq(Line) /\ Len(g) = Len(f) /\ g[Len(f)] \in {Torn, Garbled}
        /\ \A k \in 1..Len(f) - 1 : g[k] = f[k]
    BY <1>2 DEF Line
  <2>3. Tail(ls) \in Seq(Line) /\ Len(Tail(ls)) = Len(ls) - 1
        /\ \A k \in 1..Len(ls) - 1 : Tail(ls)[k] = ls[k + 1]
    OBVIOUS
  <2> HIDE DEF g
  <2>4. \A k \in DOMAIN (g \o Tail(ls)) :
          \/ k \in DOMAIN f /\ (g \o Tail(ls))[k] = g[k]
          \/ k > Len(f) /\ k - (Len(f) - 1) \in DOMAIN ls
             /\ (g \o Tail(ls))[k] = ls[k - (Len(f) - 1)]
    BY <1>2, <2>2, <2>3
  <2>5. (g \o Tail(ls)) \in Seq(Line) /\ (g \o Tail(ls)) # <<>>
        /\ (g \o Tail(ls))[1] \in {f[1], Torn, Garbled}
    BY <1>2, <2>2, <2>3
  <2>6. \A k \in DOMAIN f : g[k] \in Whole => g[k] = f[k]
    BY <2>2, NamesAssumption DEF Whole
  <2>7. QED
    BY <1>2, <2>1, <2>4, <2>5, <2>6
<1>3. QED
  BY <1>1, <1>2

(* A Flush by request q, whole or in part, adds nothing but its row to the rows
   of the file, so a row stays alone, and the file's first line a non-row. *)
LEMMA AppendKeepsRowsSingle ==
  ASSUME TypeOK, RowOnce, HeaderFirst, NEW q \in Requests,
         \A k \in DOMAIN file : file[k] # q,
         NEW ls, \/ ls \in {<<Header, q>>, <<Header, Torn>>, <<Header>>, <<Torn>>}
                 \/ ls = <<q>> /\ file # <<>>,
         file' = AppendLines(file, ls)
  PROVE  /\ file' \in Seq(Line) /\ file' # <<>>
         /\ RowOnce' /\ HeaderFirst'
         /\ \A k \in DOMAIN file' : file'[k] \in Requests =>
              file'[k] = q \/ (k \in DOMAIN file /\ file'[k] = file[k])
<1>1. ls \in Seq(Line) /\ ls # <<>> /\ Len(ls) \in {1, 2}
  <2> q \in Line /\ Header \in Line /\ Torn \in Line
    BY DEF Line
  <2>1. CASE ls = <<Header, q>>  BY <2>1
  <2>2. CASE ls = <<Header, Torn>>  BY <2>2
  <2>3. CASE ls = <<Torn>>  BY <2>3
  <2>4. CASE ls = <<q>>  BY <2>4
  <2>5. CASE ls = <<Header>>  BY <2>5, NamesAssumption
  <2>6. QED
    BY <2>1, <2>2, <2>3, <2>4, <2>5
<1>2. \A k \in DOMAIN ls : ls[k] \in Requests => ls[k] = q /\ k = Len(ls)
  <2>1. CASE ls = <<Header, q>>  BY <2>1, NamesAssumption
  <2>2. CASE ls = <<Header, Torn>>  BY <2>2, NamesAssumption
  <2>3. CASE ls = <<Torn>>  BY <2>3, NamesAssumption
  <2>4. CASE ls = <<q>>  BY <2>4
  <2>5. CASE ls = <<Header>>  BY <2>5, NamesAssumption
  <2>6. QED
    BY <2>1, <2>2, <2>3, <2>4, <2>5
<1>3. file \in Seq(Line)
  BY DEF TypeOK
<1>4. PICK s \in {Len(file), Len(file) - 1} :
        \A k \in DOMAIN file' : file'[k] \in Requests =>
          \/ k \in DOMAIN file /\ file'[k] = file[k]
          \/ k > Len(file) /\ k - s \in DOMAIN ls /\ file'[k] = ls[k - s]
  BY <1>1, <1>3, AppendLinesFacts DEF Whole
<1>5. file' \in Seq(Line) /\ file' # <<>>
  BY <1>1, <1>3, AppendLinesFacts
<1>6. \A k \in DOMAIN file' : file'[k] \in Requests =>
        \/ k \in DOMAIN file /\ file'[k] = file[k] /\ file'[k] # q
        \/ k = s + Len(ls) /\ file'[k] = q
  BY <1>1, <1>2, <1>3, <1>4, <1>5
<1>7. RowOnce'
  BY <1>6, <1>1, <1>3 DEF RowOnce
<1>8. HeaderFirst'
  <2>1. CASE file = <<>>
    <3>1. file' = ls
      BY <1>1, <1>3, <2>1, AppendLinesFacts
    <3>2. ls[1] \in {Header, Torn}
      BY <2>1
    <3>3. QED
      BY <3>1, <3>2, NamesAssumption DEF HeaderFirst
  <2>2. CASE file # <<>>
    <3>1. file'[1] \in {file[1], Torn, Garbled}
      BY <1>1, <1>3, <2>2, AppendLinesFacts
    <3>2. QED
      BY <2>2, <3>1, NamesAssumption DEF HeaderFirst
  <2>3. QED
    BY <2>1, <2>2
<1>9. QED
  BY <1>5, <1>6, <1>7, <1>8

-----------------------------------------------------------------------------
(* The initial states and the steps. *)

(* It holds initially. *)
LEMMA InitInv == Init => IInv
<1> SUFFICES ASSUME Init PROVE IInv
  OBVIOUS
<1>1. TypeOK
  <2>1. <<>> \in Seq(Line) /\ <<>> \in Seq(Requests \cup {Header})
    OBVIOUS
  <2>2. /\ up \in [Instances -> BOOLEAN] /\ failed \in [Instances -> BOOLEAN]
        /\ buf \in [Instances -> Seq(Requests \cup {Header})]
        /\ mu \in [Instances -> Requests \cup {None}]
    BY <2>1 DEF Init
  <2>3. /\ at \in [Requests -> {"idle", "lock", "done"} \cup Critical]
        /\ reply \in [Requests -> {"none", "200", "400", "405", "500", "lost"}]
    BY DEF Init
  <2>4. QED
    BY <2>1, <2>2, <2>3 DEF Init, TypeOK
<1>2. MutexInv /\ BufferInv /\ FailedInv
  BY DEF Init, MutexInv, MutualExclusion, LeakExplained, BufferInv, FailedInv, Critical
<1>3. FileInv
  BY DEF Init, FileInv, RowOnce, HeaderFirst
<1>4. QED
  BY <1>1, <1>2, <1>3 DEF IInv

(* A starting instance buffers the header exactly if the file is empty. *)
LEMMA StartInv ==
  ASSUME IInv, NEW i \in Instances, Start(i)
  PROVE  IInv'
<1>1. TypeOK'
  <2>1. <<Header>> \in Seq(Requests \cup {Header}) /\ <<>> \in Seq(Requests \cup {Header})
    OBVIOUS
  <2>2. buf' \in [Instances -> Seq(Requests \cup {Header})]
    BY <2>1 DEF IInv, TypeOK, Start
  <2>3. up' \in [Instances -> BOOLEAN] /\ failed' \in [Instances -> BOOLEAN]
    BY DEF IInv, TypeOK, Start
  <2>4. mu' \in [Instances -> Requests \cup {None}] /\ starts' \in Nat
    BY DEF IInv, TypeOK, Start
  <2>5. QED
    BY <2>2, <2>3, <2>4 DEF IInv, TypeOK, Start
<1>2. \A q \in Requests : inst[q] = i => at[q] \notin Critical \cup {"lock"}
  BY DEF IInv, MutexInv, MutualExclusion, Start
<1>3. MutexInv'
  BY <1>2 DEF IInv, TypeOK, MutexInv, MutualExclusion, LeakExplained, Start
<1>4. BufferInv'
  BY <1>2 DEF IInv, TypeOK, BufferInv, Start, Critical
<1>5. FailedInv' /\ FileInv'
  BY <1>2 DEF IInv, TypeOK, FailedInv, FileInv, RowOnce, HeaderFirst, Start
<1>6. QED
  BY <1>1, <1>3, <1>4, <1>5 DEF IInv

(* A crash ends the requests of its instance and touches no other. *)
LEMMA CrashInv ==
  ASSUME IInv, NEW i \in Instances, Crash(i)
  PROVE  IInv'
<1>1. TypeOK'
  BY DEF IInv, TypeOK, Crash
<1>2. \A q \in Requests :
        /\ inst[q] = i => at'[q] \in {"idle", "done"} /\ (at[q] \in {"idle", "done"} => at'[q] = at[q])
        /\ inst[q] # i => at'[q] = at[q] /\ reply'[q] = reply[q]
        /\ at[q] = "done" => at'[q] = "done" /\ reply'[q] = reply[q]
  BY DEF IInv, TypeOK, Crash
<1>3. MutexInv'
  BY <1>2 DEF IInv, TypeOK, MutexInv, MutualExclusion, LeakExplained, Crash, Critical
<1>4. BufferInv'
  BY <1>2 DEF IInv, TypeOK, BufferInv, Crash
<1>5. FailedInv'
  BY <1>2 DEF IInv, TypeOK, FailedInv, Crash
<1>6. FileInv'
  BY <1>2 DEF IInv, TypeOK, FileInv, RowOnce, HeaderFirst, Crash, Line
<1>7. QED
  BY <1>1, <1>3, <1>4, <1>5, <1>6 DEF IInv

(* The steps of a request that leave the file alone. *)
LEMMA HandlerInv ==
  ASSUME IInv, NEW q \in Requests,
         Reject(q) \/ Accept(q) \/ Lock(q) \/ Write(q) \/ WriteFails(q) \/ Unlock(q)
  PROVE  IInv'
<1>1. TypeOK'
  <2> USE DEF IInv, TypeOK, RequestOnly, serverVars, Answer, Critical
  <2>1. CASE Reject(q)  BY <2>1 DEF Reject
  <2>2. CASE Accept(q)  BY <2>2 DEF Accept
  <2>3. CASE Lock(q)  BY <2>3 DEF Lock
  <2>4. CASE Write(q)
    <3>1. Append(buf[inst[q]], q) \in Seq(Requests \cup {Header})
      OBVIOUS
    <3>2. buf' \in [Instances -> Seq(Requests \cup {Header})]
      BY <2>4, <3>1 DEF Write
    <3>3. QED
      BY <2>4, <3>2 DEF Write
  <2>5. CASE WriteFails(q)  BY <2>5 DEF WriteFails
  <2>6. CASE Unlock(q)  BY <2>6 DEF Unlock
  <2>7. QED
    BY <2>1, <2>2, <2>3, <2>4, <2>5, <2>6
<1>2. MutexInv'
  <2> DEFINE i == inst[q]
  <2>1. \A p \in Requests \ {q} : at'[p] = at[p] /\ reply'[p] = reply[p]
    BY DEF IInv, TypeOK, Reject, Accept, Lock, Write, WriteFails, Unlock, Answer, RequestOnly
  <2>2. UNCHANGED <<up, failed, inst>> /\ i \in Instances /\ up[i]
    BY DEF IInv, TypeOK, MutexInv, MutualExclusion, Critical, Reject, Accept, Lock, Write,
           WriteFails, Unlock, RequestOnly, serverVars
  <2>3. \A p \in Requests : /\ inst[p] \in Instances
                            /\ at[p] = "lock" => up[inst[p]]
                            /\ at[p] \in Critical => up[inst[p]] /\ mu[inst[p]] = p
    BY DEF IInv, TypeOK, MutexInv, MutualExclusion
  <2>4. \A j \in Instances : mu[j] # None =>
          /\ mu[j] \in Requests /\ inst[mu[j]] = j /\ at[mu[j]] \in Critical \cup {"done"}
          /\ at[mu[j]] = "done" => failed[j] /\ reply[mu[j]] = "500"
    BY DEF IInv, TypeOK, MutexInv, LeakExplained
  <2>5. CASE Reject(q) \/ Accept(q)
    <3>1. mu' = mu /\ at[q] = "idle" /\ at'[q] \in {"lock", "done"}
      BY <2>5 DEF Reject, Accept, Answer, RequestOnly, serverVars, IInv, TypeOK
    <3>2. \A j \in Instances : mu[j] # None => mu[j] # q
      BY <2>4, <3>1 DEF Critical
    <3> HIDE DEF i
    <3>3. QED
      BY <2>1, <2>2, <2>3, <2>4, <3>1, <3>2
         DEF i, MutexInv, MutualExclusion, LeakExplained, Critical
  <2>6. CASE Lock(q)
    <3>1. /\ mu[i] = None /\ mu'[i] = q /\ at'[q] = "write" /\ at[q] = "lock"
          /\ \A j \in Instances \ {i} : mu'[j] = mu[j]
      BY <2>2, <2>6 DEF Lock, IInv, TypeOK
    <3>2. q # None /\ \A p \in Requests : at[p] \in Critical => inst[p] # i
      BY <2>3, <3>1, NamesAssumption
    <3>3. \A j \in Instances : mu[j] # None => mu[j] # q
      BY <2>4, <3>1 DEF Critical
    <3>4. inst[q] = i
      OBVIOUS
    <3> HIDE DEF i
    <3>5. MutualExclusion' /\ (\A p \in Requests : at'[p] = "lock" => up'[inst'[p]])
      BY <2>1, <2>2, <2>3, <3>1, <3>2, <3>4 DEF MutualExclusion, Critical
    <3>6. \A j \in Instances : mu'[j] # None =>
            /\ inst'[mu'[j]] = j /\ at'[mu'[j]] \in Critical \cup {"done"}
            /\ at'[mu'[j]] = "done" => failed'[j] /\ reply'[mu'[j]] = "500"
      <4> TAKE j \in Instances
      <4>1. CASE j = i
        BY <2>2, <3>1, <3>4, <4>1 DEF Critical
      <4>2. CASE j # i
        BY <2>1, <2>2, <2>4, <3>1, <3>3, <4>2
      <4>3. QED
        BY <4>1, <4>2
    <3>7. QED
      BY <3>5, <3>6 DEF MutexInv, LeakExplained
  <2>7. CASE Write(q)
    <3>1. mu' = mu /\ at[q] = "write" /\ at'[q] = "flush"
      BY <2>7 DEF Write, IInv, TypeOK
    <3>2. QED
      BY <2>1, <2>2, <2>3, <2>4, <3>1
         DEF MutexInv, MutualExclusion, LeakExplained, Critical
  <2>8. CASE WriteFails(q)
    <3>1. mu' = mu /\ at[q] = "write" /\ at'[q] = "done" /\ reply'[q] = "500" /\ failed[i]
      BY <2>8 DEF WriteFails, Answer, RequestOnly, serverVars, IInv, TypeOK
    <3>2. MutualExclusion' /\ (\A p \in Requests : at'[p] = "lock" => up'[inst'[p]])
      BY <2>1, <2>2, <2>3, <3>1 DEF MutualExclusion, Critical
    <3>3. \A j \in Instances : mu[j] # None =>
            /\ inst'[mu[j]] = j /\ at'[mu[j]] \in Critical \cup {"done"}
            /\ at'[mu[j]] = "done" => failed'[j] /\ reply'[mu[j]] = "500"
      <4> TAKE j \in Instances
      <4>1. CASE mu[j] = q
        BY <2>2, <2>4, <3>1, <4>1
      <4>2. CASE mu[j] # q
        BY <2>1, <2>2, <2>4, <4>2
      <4>3. QED
        BY <4>1, <4>2
    <3>4. QED
      BY <3>1, <3>2, <3>3 DEF MutexInv, LeakExplained
  <2>9. CASE Unlock(q)
    <3>1. /\ at[q] = "unlock" /\ at'[q] = "done" /\ mu[i] = q /\ mu'[i] = None
          /\ \A j \in Instances \ {i} : mu'[j] = mu[j]
      BY <2>2, <2>3, <2>9 DEF Unlock, Answer, IInv, TypeOK, Critical
    <3>2. \A p \in Requests \ {q} : at[p] \in Critical => inst[p] # i
      BY <2>3, <3>1
    <3>3. \A j \in Instances \ {i} : mu[j] # None => mu[j] # q
      BY <2>4
    <3> HIDE DEF i
    <3>4. MutualExclusion' /\ (\A p \in Requests : at'[p] = "lock" => up'[inst'[p]])
      BY <2>1, <2>2, <2>3, <3>1, <3>2 DEF MutualExclusion, Critical
    <3>5. \A j \in Instances : mu'[j] # None =>
            /\ inst'[mu'[j]] = j /\ at'[mu'[j]] \in Critical \cup {"done"}
            /\ at'[mu'[j]] = "done" => failed'[j] /\ reply'[mu'[j]] = "500"
      BY <2>1, <2>2, <2>4, <3>1, <3>3
    <3>6. QED
      BY <3>4, <3>5 DEF MutexInv, LeakExplained
  <2>10. QED
    BY <2>5, <2>6, <2>7, <2>8, <2>9
<1>3. BufferInv'
  <2>1. CASE Write(q)
    <3> DEFINE i == inst[q]
    <3>1. \A p \in Requests : at[p] = "flush" => inst[p] # i
      BY <2>1 DEF Write, IInv, MutexInv, MutualExclusion, Critical
    <3>2. \A p \in Requests : at'[p] = "flush" <=> at[p] = "flush" \/ p = q
      BY <2>1 DEF Write, IInv, TypeOK
    <3>3. up[i] /\ i \in Instances /\ ~failed[i]
      BY <2>1 DEF Write, IInv, TypeOK, MutexInv, MutualExclusion, Critical
    <3>4. buf[i] = <<Header>> \/ (buf[i] = <<>> /\ file # <<>>)
      BY <3>1, <3>3 DEF IInv, BufferInv
    <3>5. buf'[i] = Append(buf[i], q)
          /\ \A j \in Instances \ {i} : buf'[j] = buf[j]
      BY <2>1, <3>3 DEF Write, IInv, TypeOK
    <3>6. buf'[i] = <<Header, q>> \/ (buf'[i] = <<q>> /\ file # <<>>)
      BY <3>4, <3>5, AppendToShort
    <3>7. UNCHANGED <<up, failed, inst, file>>
      BY <2>1 DEF Write
    <3>8. /\ \A p \in Requests : at'[p] = "flush" /\ inst[p] = i <=> p = q
          /\ \A p \in Requests : inst[p] # i => (at'[p] = "flush" <=> at[p] = "flush")
      BY <3>1, <3>2
    <3> HIDE DEF i
    <3>9. ASSUME NEW j \in Instances \ {i}, up'[j], ~failed'[j]
          PROVE  /\ \A p \in Requests : at'[p] = "flush" /\ inst'[p] = j =>
                      buf'[j] = <<Header, p>> \/ (buf'[j] = <<p>> /\ file' # <<>>)
                 /\ (\A p \in Requests : ~(at'[p] = "flush" /\ inst'[p] = j)) =>
                      buf'[j] = <<Header>> \/ (buf'[j] = <<>> /\ file' # <<>>)
      BY <3>5, <3>7, <3>8, <3>9 DEF IInv, BufferInv
    <3>10. QED
      BY <3>6, <3>7, <3>8, <3>9 DEF BufferInv
  <2>2. CASE ~Write(q)
    <3>1. \A p \in Requests : at'[p] = "flush" <=> at[p] = "flush"
      BY <2>2 DEF IInv, TypeOK, Reject, Accept, Lock, WriteFails, Unlock, Answer
    <3>2. UNCHANGED <<up, failed, inst, file, buf>>
      BY <2>2 DEF Reject, Accept, Lock, WriteFails, Unlock, RequestOnly, serverVars
    <3>3. QED
      BY <3>1, <3>2 DEF IInv, BufferInv
  <2>3. QED
    BY <2>1, <2>2
<1>4. FailedInv'
  BY DEF IInv, TypeOK, FailedInv, Reject, Accept, Lock, Write, WriteFails, Unlock, Answer,
         RequestOnly, serverVars
<1>5. FileInv'
  <2>1. file' = file
    BY DEF Reject, Accept, Lock, Write, WriteFails, Unlock, RequestOnly
  <2>2. \A p \in Requests : at[p] \in {"unlock", "done"} => at'[p] \in {"unlock", "done"}
    BY DEF IInv, TypeOK, Reject, Accept, Lock, Write, WriteFails, Unlock, Answer
  <2>3. QED
    BY <2>1, <2>2 DEF IInv, FileInv, RowOnce, HeaderFirst
<1>6. QED
  BY <1>1, <1>2, <1>3, <1>4, <1>5 DEF IInv

(* What a Flush, whole or in part, appends: the buffer of the request that holds
   the mutex, or the header with or without a cut-off row, or one cut-off line, or
   nothing. *)
LEMMA FlushAppends ==
  ASSUME IInv, NEW q \in Requests, Flush(q) \/ FlushFails(q)
  PROVE  /\ at[q] = "flush" /\ inst[q] \in Instances
         /\ up[inst[q]] /\ ~failed[inst[q]] /\ mu[inst[q]] = q
         /\ \A k \in DOMAIN file : file[k] # q
         /\ \E ls : /\ \/ ls \in {<<Header, q>>, <<Header, Torn>>, <<Header>>, <<Torn>>}
                       \/ ls = <<q>> /\ file # <<>>
                    /\ file' = file \/ file' = AppendLines(file, ls)
                    /\ Flush(q) => /\ file' = AppendLines(file, ls)
                                   /\ ls = <<Header, q>> \/ ls = <<q>>
                    /\ ls \in {<<Header, q>>, <<Header, Torn>>, <<Header>>} => buf[inst[q]] = <<Header, q>>
<1> DEFINE i == inst[q]
<1>1. /\ at[q] = "flush" /\ i \in Instances
      /\ up[i] /\ ~failed[i] /\ mu[i] = q
  BY DEF Flush, FlushFails, IInv, TypeOK, MutexInv, MutualExclusion, Critical, FailedInv
<1>2. buf[i] = <<Header, q>> \/ (buf[i] = <<q>> /\ file # <<>>)
  BY <1>1 DEF IInv, BufferInv
<1>3. \A k \in DOMAIN file : file[k] # q
  BY <1>1 DEF IInv, FileInv
<1>4. Header # q /\ <<Torn>> \notin {<<Header, q>>, <<Header, Torn>>, <<Header>>}
      /\ <<q>> \notin {<<Header, q>>, <<Header, Torn>>, <<Header>>}
  BY NamesAssumption
<1>5. CASE Flush(q)
  <2>1. file' = AppendLines(file, buf[i])
    BY <1>5 DEF Flush
  <2>2. QED
    BY <1>1, <1>2, <1>3, <1>4, <2>1
<1>6. CASE FlushFails(q) /\ ~Flush(q)
  <2>1. CASE file' = file
    BY <1>1, <1>3, <1>4, <1>6, <2>1
  <2>2. CASE file' # file
    <3> DEFINE s == buf[i]
    <3>1. s = <<Header, q>> \/ s = <<q>>
      BY <1>2
    <3>2. CASE \E k \in 1..Len(s) - 1 : file' = AppendLines(file, SubSeq(s, 1, k))
      <4>1. PICK k \in 1..Len(s) - 1 : file' = AppendLines(file, SubSeq(s, 1, k))
        BY <3>2
      <4> HIDE DEF s
      <4>2. s = <<Header, q>> /\ SubSeq(s, 1, k) = <<Header>>
        BY <3>1, CutBetween
      <4>3. file' = AppendLines(file, <<Header>>)
        BY <4>1, <4>2
      <4>4. QED
        BY <1>1, <1>3, <1>4, <1>6, <4>2, <4>3 DEF s
    <3>3. CASE \E k \in 0..Len(s) - 1 : file' = AppendLines(file, SubSeq(s, 1, k) \o <<Torn>>)
      <4>1. PICK k \in 0..Len(s) - 1 : file' = AppendLines(file, SubSeq(s, 1, k) \o <<Torn>>)
        BY <3>3
      <4> DEFINE ls == SubSeq(s, 1, k) \o <<Torn>>
      <4> HIDE DEF s
      <4>2. ls \in {<<Torn>>, <<Header, Torn>>}
        BY <3>1, CutShort
      <4>3. s = <<q>> => ls = <<Torn>>
        BY CutOne
      <4>4. file' = AppendLines(file, ls)
        BY <4>1
      <4> HIDE DEF ls
      <4>5. ls = <<Torn>> \/ (ls = <<Header, Torn>> /\ s = <<Header, q>>)
        BY <3>1, <4>2, <4>3
      <4>6. QED
        BY <1>1, <1>3, <1>4, <1>6, <4>4, <4>5 DEF s
    <3>4. QED
      BY <1>6, <2>2, <3>2, <3>3 DEF FlushFails
  <2>3. QED
    BY <2>1, <2>2
<1>7. QED
  BY <1>5, <1>6

(* A Flush, whole or in part, by the request that holds the mutex. *)
LEMMA FlushInv ==
  ASSUME IInv, NEW q \in Requests, Flush(q) \/ FlushFails(q)
  PROVE  IInv'
<1> DEFINE i == inst[q]
<1>1. /\ at[q] = "flush" /\ at' = [at EXCEPT ![q] = "unlock"] /\ i \in Instances
      /\ up[i] /\ ~failed[i] /\ mu[i] = q
  BY FlushAppends DEF Flush, FlushFails
<1>2. \A p \in Requests \ {q} : at'[p] = at[p] /\ (inst[p] = i => at[p] \notin Critical)
  BY <1>1 DEF IInv, TypeOK, MutexInv, MutualExclusion
<1>3. UNCHANGED <<diskFull, up, mu, inst, reply, starts>>
  BY DEF Flush, FlushFails
<1>4. \A k \in DOMAIN file : file[k] # q
  BY FlushAppends
<1>5. PICK ls : /\ \/ ls \in {<<Header, q>>, <<Header, Torn>>, <<Header>>, <<Torn>>}
                   \/ ls = <<q>> /\ file # <<>>
                /\ file' = file \/ file' = AppendLines(file, ls)
                /\ Flush(q) => file' = AppendLines(file, ls)
  BY FlushAppends
<1>6. /\ file' \in Seq(Line) /\ (Flush(q) \/ file # <<>> => file' # <<>>)
      /\ RowOnce' /\ HeaderFirst'
      /\ \A k \in DOMAIN file' : file'[k] \in Requests =>
           file'[k] = q \/ (k \in DOMAIN file /\ file'[k] = file[k])
  <2>1. CASE file' = file /\ ~Flush(q)
    BY <2>1 DEF IInv, TypeOK, FileInv, RowOnce, HeaderFirst
  <2>2. CASE file' = AppendLines(file, ls)
    BY <1>4, <1>5, <2>2, AppendKeepsRowsSingle DEF IInv, FileInv
  <2>3. QED
    BY <1>5, <2>1, <2>2
<1>7. TypeOK'
  <2>1. at' \in [Requests -> {"idle", "lock", "done"} \cup Critical]
    BY <1>1 DEF IInv, TypeOK, Critical
  <2>2. CASE Flush(q)
    BY <1>3, <1>6, <2>1, <2>2 DEF Flush, IInv, TypeOK
  <2>3. CASE FlushFails(q)
    BY <1>3, <1>6, <2>1, <2>3 DEF FlushFails, IInv, TypeOK
  <2>4. QED
    BY <2>2, <2>3
<1>8. MutexInv'
  BY <1>1, <1>2, <1>3, <1>7 DEF IInv, TypeOK, MutexInv, MutualExclusion, LeakExplained,
     Critical, Flush, FlushFails
<1>9. BufferInv'
  <2>1. \A p \in Requests : inst[p] = i => at'[p] # "flush"
    BY <1>1, <1>2 DEF IInv, TypeOK, Critical
  <2>2. \A p \in Requests : inst[p] # i => at'[p] = at[p]
    BY <1>1, <1>2
  <2>3. \A j \in Instances \ {i} : buf'[j] = buf[j] /\ failed'[j] = failed[j]
    BY DEF Flush, FlushFails, IInv, TypeOK
  <2>4. failed'[i] \/ (Flush(q) /\ buf'[i] = <<>> /\ file' # <<>>)
    <3>1. CASE Flush(q)
      BY <1>1, <1>6, <3>1 DEF Flush, IInv, TypeOK
    <3>2. CASE FlushFails(q)
      BY <1>1, <3>2 DEF FlushFails, IInv, TypeOK
    <3>3. QED
      BY <3>1, <3>2
  <2>5. file # <<>> => file' # <<>>
    BY <1>6
  <2> HIDE DEF i
  <2>6. \A j \in Instances \ {i} : up'[j] /\ ~failed'[j] =>
          /\ \A p \in Requests : at'[p] = "flush" /\ inst'[p] = j =>
               buf'[j] = <<Header, p>> \/ (buf'[j] = <<p>> /\ file' # <<>>)
          /\ (\A p \in Requests : ~(at'[p] = "flush" /\ inst'[p] = j)) =>
               buf'[j] = <<Header>> \/ (buf'[j] = <<>> /\ file' # <<>>)
    BY <1>3, <2>2, <2>3, <2>5 DEF IInv, BufferInv
  <2>7. QED
    BY <1>3, <2>1, <2>4, <2>6 DEF BufferInv
<1>10. FailedInv'
  <2>1. \A p \in Requests : at'[p] = "flush" => p # q /\ inst[p] # i /\ at[p] = "flush"
    BY <1>1, <1>2 DEF IInv, TypeOK, Critical
  <2>2. \A j \in Instances \ {i} : failed'[j] = failed[j]
    BY DEF Flush, FlushFails, IInv, TypeOK
  <2>3. QED
    BY <1>3, <2>1, <2>2 DEF IInv, TypeOK, FailedInv
<1>11. FileInv'
  BY <1>1, <1>2, <1>6 DEF IInv, TypeOK, FileInv
<1>12. QED
  BY <1>7, <1>8, <1>9, <1>10, <1>11 DEF IInv

(* The disk, and steps that change nothing. *)
LEMMA QuietInv ==
  ASSUME IInv, DiskChanges \/ UNCHANGED vars
  PROVE  IInv'
<1>1. UNCHANGED <<file, up, buf, failed, mu, at, inst, reply, starts, failures>>
  BY DEF DiskChanges, vars, serverVars
<1>2. diskFull' \in BOOLEAN
  BY DEF DiskChanges, vars, IInv, TypeOK
<1>3. QED
  BY <1>1, <1>2 DEF IInv, TypeOK, MutexInv, MutualExclusion, LeakExplained, BufferInv,
     FailedInv, FileInv, RowOnce, HeaderFirst

(* Every step preserves it. *)
LEMMA NextInv == IInv /\ [Next]_vars => IInv'
<1> SUFFICES ASSUME IInv, [Next]_vars PROVE IInv'
  OBVIOUS
<1>1. CASE \E i \in Instances : Start(i) \/ Crash(i)
  BY <1>1, StartInv, CrashInv
<1>2. CASE \E q \in Requests : Reject(q) \/ Accept(q) \/ Handle(q)
  BY <1>2, HandlerInv, FlushInv DEF Handle
<1>3. CASE DiskChanges \/ UNCHANGED vars
  BY <1>3, QuietInv
<1>4. QED
  BY <1>1, <1>2, <1>3 DEF Next

(* The inductive invariant holds throughout. *)
THEOREM Invariance == Spec => []IInv
  BY InitInv, NextInv, PTL DEF Spec

(* The type invariant. *)
THEOREM TypeCorrect == Spec => []TypeOK
<1>1. IInv => TypeOK
  BY DEF IInv
<1>2. QED
  BY <1>1, Invariance, PTL

(* One request at a time writes and flushes, on each instance. *)
THEOREM MutexExcludes == Spec => []MutualExclusion
<1>1. IInv => MutualExclusion
  BY DEF IInv, MutexInv
<1>2. QED
  BY <1>1, Invariance, PTL

(* No request leaves two rows, whatever crashed or failed in between. *)
THEOREM RowsAreSingle == Spec => []RowOnce
<1>1. IInv => RowOnce
  BY DEF IInv, FileInv
<1>2. QED
  BY <1>1, Invariance, PTL

(* No row precedes the header, whichever instance crashed before flushing it. *)
THEOREM HeaderComesFirst == Spec => []HeaderFirst
<1>1. IInv => HeaderFirst
  BY DEF IInv, FileInv
<1>2. QED
  BY <1>1, Invariance, PTL

(* The mutex is left locked only by a handler that answered 500, and only on an
   instance one of whose Flushes had failed. *)
THEOREM LeakNeedsFailure == Spec => []LeakExplained
<1>1. IInv => LeakExplained
  BY DEF IInv, MutexInv
<1>2. QED
  BY <1>1, Invariance, PTL

-----------------------------------------------------------------------------
(* Counting lines: headers, and rows that were acknowledged and lost. *)

(* Where a file has a header. *)
HeadersOf(f) == {k \in DOMAIN f : f[k] = Header}

(* The instances that have a header to flush. *)
PendingHeaders ==
  {i \in Instances : up[i] /\ ~failed[i] /\ buf[i] # <<>> /\ buf[i][1] = Header}

(* A header in the file is one that some instance no longer has to flush. *)
HeadersInv == Count(Header) + Cardinality(PendingHeaders) <= Cardinality(Instances)

(* The requests that have been told 200, or are about to be, without a row. *)
Owed == {q \in Requests : (at[q] = "unlock" \/ reply[q] = "200") /\ q \notin Rows}

(* A cut-off last line costs the next row that is appended to it. *)
TornLines == IF file # <<>> /\ file[Len(file)] = Torn THEN 1 ELSE 0

LossInv == IsFiniteSet(Owed) /\ Cardinality(Owed) + TornLines <= 2 * failures

(* A set with at most one element more has a cardinality at most one greater. *)
LEMMA OneMore ==
  ASSUME NEW S, NEW x, NEW T, IsFiniteSet(S), T \subseteq S \cup {x}
  PROVE  /\ IsFiniteSet(T) /\ Cardinality(S) \in Nat /\ Cardinality(T) \in Nat
         /\ Cardinality(T) <= Cardinality(S) + 1
         /\ T \subseteq S => Cardinality(T) <= Cardinality(S)
<1>1. /\ IsFiniteSet(S \cup {x}) /\ Cardinality(S) \in Nat
      /\ Cardinality(S \cup {x}) = IF x \in S THEN Cardinality(S) ELSE Cardinality(S) + 1
  BY FS_AddElement, FS_CardinalityType
<1>2. IsFiniteSet(T) /\ Cardinality(T) <= Cardinality(S \cup {x})
  BY <1>1, FS_Subset
<1>3. Cardinality(T) \in Nat
  BY <1>2, FS_CardinalityType
<1>4. T \subseteq S => Cardinality(T) <= Cardinality(S)
  BY FS_Subset
<1>5. QED
  BY <1>1, <1>2, <1>3, <1>4

(* The headers of a file are finitely many. *)
LEMMA HeadersFinite ==
  ASSUME NEW f \in Seq(Line)
  PROVE  IsFiniteSet(HeadersOf(f)) /\ Cardinality(HeadersOf(f)) \in Nat
<1>1. IsFiniteSet(1..Len(f)) /\ HeadersOf(f) \in SUBSET (1..Len(f))
  BY FS_Interval DEF HeadersOf
<1>2. IsFiniteSet(HeadersOf(f))
  BY <1>1, FS_Subset
<1>3. QED
  BY <1>2, FS_CardinalityType

(* Lines whose only header, if any, is the first add at most that one. *)
LEMMA HeadersAppended ==
  ASSUME NEW f \in Seq(Line), NEW ls \in Seq(Line), ls # <<>>,
         \A k \in DOMAIN ls : ls[k] = Header => k = 1
  PROVE  /\ Cardinality(HeadersOf(AppendLines(f, ls))) <= Cardinality(HeadersOf(f)) + 1
         /\ ls[1] # Header =>
              Cardinality(HeadersOf(AppendLines(f, ls))) <= Cardinality(HeadersOf(f))
<1>1. PICK s \in {Len(f), Len(f) - 1} :
        \A k \in DOMAIN AppendLines(f, ls) :
          AppendLines(f, ls)[k] \in Whole =>
            \/ k \in DOMAIN f /\ AppendLines(f, ls)[k] = f[k]
            \/ k > Len(f) /\ k - s \in DOMAIN ls /\ AppendLines(f, ls)[k] = ls[k - s]
  BY AppendLinesFacts
<1>2. AppendLines(f, ls) \in Seq(Line)
  BY AppendLinesFacts
<1> DEFINE H == HeadersOf(AppendLines(f, ls))
<1>3. \A k \in H : k \in HeadersOf(f) \/ (k = s + 1 /\ ls[1] = Header)
  BY <1>1, <1>2 DEF HeadersOf, Whole
<1>4. H \subseteq HeadersOf(f) \cup {s + 1} /\ (ls[1] # Header => H \subseteq HeadersOf(f))
  BY <1>3
<1>5. QED
  BY <1>4, HeadersFinite, OneMore

(* Whole lines of a file stay, and the last line is cut off if the last one
   appended is; a file that is not cut off takes all lines as they are. *)
LEMMA AppendLinesKeeps ==
  ASSUME NEW f \in Seq(Line), NEW ls \in Seq(Line), ls # <<>>
  PROVE  LET new == AppendLines(f, ls) IN
         /\ \A k \in DOMAIN f : f[k] \in Whole => k \in DOMAIN new /\ new[k] = f[k]
         /\ new[Len(new)] = Torn => ls[Len(ls)] = Torn
         /\ f = <<>> \/ f[Len(f)] # Torn =>
              \A j \in DOMAIN ls : Len(f) + j \in DOMAIN new /\ new[Len(f) + j] = ls[j]
<1> USE DEF AppendLines
<1>1. CASE f = <<>> \/ f[Len(f)] # Torn
  <2>1. AppendLines(f, ls) = f \o ls
    BY <1>1
  <2>2. /\ \A k \in DOMAIN f : k \in DOMAIN (f \o ls) /\ (f \o ls)[k] = f[k]
        /\ \A j \in DOMAIN ls : Len(f) + j \in DOMAIN (f \o ls) /\ (f \o ls)[Len(f) + j] = ls[j]
        /\ Len(f \o ls) = Len(f) + Len(ls) /\ Len(ls) \in DOMAIN ls
    OBVIOUS
  <2>3. QED
    BY <2>1, <2>2
<1>2. CASE f # <<>> /\ f[Len(f)] = Torn
  <2> DEFINE g == [f EXCEPT ![Len(f)] = IF Head(ls) = Torn THEN Torn ELSE Garbled]
  <2>1. AppendLines(f, ls) = g \o Tail(ls)
    BY <1>2
  <2>2. /\ g \in Seq(Line) /\ Len(g) = Len(f)
        /\ g[Len(f)] = IF Head(ls) = Torn THEN Torn ELSE Garbled
        /\ \A k \in 1..Len(f) - 1 : g[k] = f[k]
    BY <1>2 DEF Line
  <2>3. Tail(ls) \in Seq(Line) /\ Len(Tail(ls)) = Len(ls) - 1 /\ Head(ls) = ls[1]
        /\ \A k \in 1..Len(ls) - 1 : Tail(ls)[k] = ls[k + 1]
    OBVIOUS
  <2> HIDE DEF g
  <2>4. \A k \in DOMAIN f : f[k] \in Whole => k # Len(f)
    BY <1>2, NamesAssumption DEF Whole
  <2>5. \A k \in DOMAIN f : f[k] \in Whole =>
          k \in DOMAIN (g \o Tail(ls)) /\ (g \o Tail(ls))[k] = f[k]
    BY <2>2, <2>3, <2>4
  <2>6. (g \o Tail(ls))[Len(g \o Tail(ls))] = Torn => ls[Len(ls)] = Torn
    BY <1>2, <2>2, <2>3, NamesAssumption
  <2>7. QED
    BY <1>2, <2>1, <2>5, <2>6
<1>3. QED
  BY <1>1, <1>2

(* The lines a Flush by q appends. *)
LEMMA FlushedLines ==
  ASSUME NEW q \in Requests, NEW ls \in {<<Header, q>>, <<Header, Torn>>, <<Header>>, <<Torn>>, <<q>>}
  PROVE  /\ ls \in Seq(Line) /\ ls # <<>>
         /\ \A k \in DOMAIN ls : ls[k] = Header => k = 1
         /\ ls \in {<<Torn>>, <<q>>} => ls[1] # Header
         /\ ls \in {<<Header, q>>, <<q>>} => ls[Len(ls)] = q /\ q # Torn
<1> q \in Line /\ Header \in Line /\ Torn \in Line
  BY DEF Line
<1> q # Header /\ q # Torn /\ Header # Torn
  BY NamesAssumption
<1>1. CASE ls = <<Header, q>>  BY <1>1
<1>2. CASE ls = <<Header, Torn>>  BY <1>2
<1>3. CASE ls = <<Torn>>  BY <1>3
<1>4. CASE ls = <<q>>  BY <1>4
<1>5. CASE ls = <<Header>>  BY <1>5
<1>6. QED
  BY <1>1, <1>2, <1>3, <1>4, <1>5

(* Every instance may come to hold a header only while the file has none. *)
LEMMA HeadersStep ==
  ASSUME IInv, HeadersInv, [Next]_vars
  PROVE  HeadersInv'
<1> DEFINE P == PendingHeaders
           N == Cardinality(HeadersOf(file))
<1>1. /\ IsFiniteSet(Instances) /\ IsFiniteSet(P) /\ IsFiniteSet(P')
      /\ Cardinality(Instances) \in Nat /\ Cardinality(P) \in Nat /\ Cardinality(P') \in Nat
      /\ Cardinality(P') <= Cardinality(Instances)
      /\ P' \subseteq P => Cardinality(P') <= Cardinality(P)
  <2>1. P \in SUBSET Instances /\ P' \in SUBSET Instances
    BY DEF PendingHeaders
  <2>2. QED
    BY <2>1, InstancesAssumption, FS_Subset, FS_CardinalityType
<1>2. file \in Seq(Line) /\ N \in Nat /\ N + Cardinality(P) <= Cardinality(Instances)
  BY HeadersFinite DEF IInv, TypeOK, HeadersInv, Count, HeadersOf
<1>3. HeadersInv' <=> N' + Cardinality(P') <= Cardinality(Instances)
  BY DEF HeadersInv, Count, HeadersOf
<1>4. CASE file' = file /\ P' \subseteq P
  <2>1. N' = N
    BY <1>4 DEF HeadersOf
  <2>2. QED
    BY <1>1, <1>2, <1>3, <1>4, <2>1
<1>5. ASSUME NEW i \in Instances, Start(i) PROVE HeadersInv'
  <2>1. CASE file = <<>>
    <3>1. HeadersOf(file') = {}
      BY <1>5, <2>1 DEF Start, HeadersOf
    <3>2. N' = 0
      BY <3>1, FS_EmptySet
    <3>3. QED
      BY <1>1, <1>3, <3>2
  <2>2. CASE file # <<>>
    <3>1. buf'[i] = <<>> /\ \A j \in Instances \ {i} :
            up'[j] = up[j] /\ buf'[j] = buf[j] /\ failed'[j] = failed[j]
      BY <1>5, <2>2 DEF Start, IInv, TypeOK
    <3>2. P' \subseteq P /\ file' = file
      BY <1>5, <3>1 DEF Start, PendingHeaders
    <3>3. QED
      BY <1>4, <3>2
  <2>3. QED
    BY <2>1, <2>2
<1>6. ASSUME NEW i \in Instances, Crash(i) PROVE HeadersInv'
  <2>1. ~up'[i] /\ \A j \in Instances \ {i} :
          up'[j] = up[j] /\ buf'[j] = buf[j] /\ failed'[j] = failed[j]
    BY <1>6 DEF Crash, IInv, TypeOK
  <2>2. P' \subseteq P /\ file' = file
    BY <1>6, <2>1 DEF Crash, PendingHeaders
  <2>3. QED
    BY <1>4, <2>2
<1>7. ASSUME NEW q \in Requests, Write(q) PROVE HeadersInv'
  <2> DEFINE i == inst[q]
  <2>1. i \in Instances /\ buf[i] \in Seq(Requests \cup {Header}) /\ buf'[i] = Append(buf[i], q)
        /\ \A j \in Instances \ {i} : buf'[j] = buf[j]
    BY <1>7 DEF Write, IInv, TypeOK
  <2>2. UNCHANGED <<file, up, failed>>
    BY <1>7 DEF Write
  <2>3. Append(buf[i], q)[1] = Header => buf[i] # <<>> /\ buf[i][1] = Header
    <3>1. q # Header
      BY NamesAssumption
    <3>2. QED
      BY <2>1, <3>1
  <2> HIDE DEF i
  <2>4. P' \subseteq P
    BY <2>1, <2>2, <2>3 DEF PendingHeaders
  <2>5. QED
    BY <1>4, <2>2, <2>4
<1>8. ASSUME NEW q \in Requests, Flush(q) \/ FlushFails(q) PROVE HeadersInv'
  <2> DEFINE i == inst[q]
  <2>1. PICK ls : /\ \/ ls \in {<<Header, q>>, <<Header, Torn>>, <<Header>>, <<Torn>>}
                     \/ ls = <<q>> /\ file # <<>>
                  /\ file' = file \/ file' = AppendLines(file, ls)
                  /\ ls \in {<<Header, q>>, <<Header, Torn>>, <<Header>>} => buf[i] = <<Header, q>>
    BY <1>8, FlushAppends
  <2>2. i \in Instances /\ up[i] /\ ~failed[i]
    BY <1>8, FlushAppends
  <2>3. i \notin P' /\ \A j \in Instances \ {i} :
          up'[j] = up[j] /\ buf'[j] = buf[j] /\ failed'[j] = failed[j]
    BY <1>8, <2>2 DEF Flush, FlushFails, IInv, TypeOK, PendingHeaders
  <2> HIDE DEF i
  <2>4. P' \subseteq P \ {i}
    BY <2>3 DEF PendingHeaders
  <2>5. CASE file' = file
    BY <1>4, <2>4, <2>5
  <2>6. CASE file' = AppendLines(file, ls) /\ ls \in {<<Header, q>>, <<Header, Torn>>, <<Header>>}
    <3>1. i \in P
      <4>1. buf[i] # <<>> /\ buf[i][1] = Header
        BY <2>1, <2>6
      <4>2. QED
        BY <2>2, <4>1 DEF PendingHeaders
    <3>2. Cardinality(P \ {i}) = Cardinality(P) - 1 /\ IsFiniteSet(P \ {i})
      BY <1>1, <3>1, FS_RemoveElement
    <3>3. Cardinality(P') <= Cardinality(P \ {i})
      BY <2>4, <3>2, FS_Subset
    <3>4. /\ ls \in Seq(Line) /\ ls # <<>>
          /\ \A k \in DOMAIN ls : ls[k] = Header => k = 1
      BY <2>6, FlushedLines
    <3>5. N' <= N + 1 /\ N' \in Nat
      <4>1. AppendLines(file, ls) \in Seq(Line)
        BY <1>2, <3>4, AppendLinesFacts
      <4>2. Cardinality(HeadersOf(AppendLines(file, ls))) \in Nat
        BY <4>1, HeadersFinite
      <4>3. QED
        BY <1>2, <2>6, <3>4, <4>2, HeadersAppended
    <3>6. QED
      BY <1>1, <1>2, <1>3, <3>2, <3>3, <3>5
  <2>7. CASE file' = AppendLines(file, ls) /\ ls \in {<<Torn>>, <<q>>}
    <3>1. /\ ls \in Seq(Line) /\ ls # <<>> /\ ls[1] # Header
          /\ \A k \in DOMAIN ls : ls[k] = Header => k = 1
      BY <2>7, FlushedLines
    <3>2. N' <= N /\ N' \in Nat
      <4>1. AppendLines(file, ls) \in Seq(Line)
        BY <1>2, <3>1, AppendLinesFacts
      <4>2. Cardinality(HeadersOf(AppendLines(file, ls))) \in Nat
        BY <4>1, HeadersFinite
      <4>3. QED
        BY <1>2, <2>7, <3>1, <4>2, HeadersAppended
    <3>3. QED
      BY <1>1, <1>2, <1>3, <2>4, <3>2
  <2>8. QED
    BY <2>1, <2>5, <2>6, <2>7
<1>9. CASE UNCHANGED <<file, up, buf, failed>>
  BY <1>4, <1>9 DEF PendingHeaders
<1>10. ASSUME NEW q \in Requests, Reject(q) \/ Accept(q) \/ Lock(q) \/ WriteFails(q) \/ Unlock(q)
       PROVE  HeadersInv'
  <2>1. UNCHANGED <<file, up, buf, failed>>
    BY <1>10 DEF Reject, Accept, Lock, WriteFails, Unlock, RequestOnly, serverVars
  <2>2. QED
    BY <1>9, <2>1
<1>11. CASE DiskChanges \/ UNCHANGED vars
  BY <1>9, <1>11 DEF DiskChanges, vars, serverVars
<1>12. QED
  BY <1>5, <1>6, <1>7, <1>8, <1>10, <1>11 DEF Next, Handle

(* A step that neither answers 200 nor flushes leaves no more rows owed. *)
LEMMA OwedShrinks ==
  ASSUME LossInv, IInv, file' = file, failures' = failures, Owed' \subseteq Owed
  PROVE  LossInv'
<1>1. TornLines' = TornLines /\ TornLines \in {0, 1}
  BY DEF TornLines
<1>2. IsFiniteSet(Owed') /\ Cardinality(Owed') <= Cardinality(Owed)
  BY FS_Subset DEF LossInv
<1>3. Cardinality(Owed) \in Nat /\ Cardinality(Owed') \in Nat /\ failures \in Nat
  BY <1>2, FS_CardinalityType DEF LossInv, IInv, TypeOK
<1>4. QED
  BY <1>1, <1>2, <1>3 DEF LossInv

(* A Flush that succeeds loses its row only to a cut-off line, which is then
   no longer the last; one that fails may lose its row and cut off the last line. *)
LEMMA LossStep ==
  ASSUME IInv, LossInv, [Next]_vars
  PROVE  LossInv'
<1>1. /\ file \in Seq(Line) /\ failures \in Nat /\ TornLines \in {0, 1}
      /\ IsFiniteSet(Owed) /\ Cardinality(Owed) \in Nat
  BY FS_CardinalityType DEF IInv, TypeOK, LossInv, TornLines
<1>2. ASSUME NEW i \in Instances, Start(i) \/ Crash(i) PROVE LossInv'
  <2>1. UNCHANGED <<file, failures>>
    BY <1>2 DEF Start, Crash
  <2>2. \A q \in Requests : /\ at'[q] = "unlock" => at[q] = "unlock"
                            /\ reply'[q] = "200" => reply[q] = "200"
    BY <1>2 DEF Start, Crash, IInv, TypeOK
  <2>3. Owed' \subseteq Owed
    BY <2>1, <2>2 DEF Owed, Rows
  <2>4. QED
    BY <2>1, <2>3, OwedShrinks
<1>3. ASSUME NEW q \in Requests,
             Reject(q) \/ Accept(q) \/ Lock(q) \/ Write(q) \/ WriteFails(q) \/ Unlock(q)
      PROVE  LossInv'
  <2>1. UNCHANGED <<file, failures>>
    BY <1>3 DEF Reject, Accept, Lock, Write, WriteFails, Unlock, RequestOnly
  <2>2. \A p \in Requests :
          at'[p] = "unlock" \/ reply'[p] = "200" => at[p] = "unlock" \/ reply[p] = "200"
    BY <1>3 DEF Reject, Accept, Lock, Write, WriteFails, Unlock, Answer, IInv, TypeOK
  <2>3. Owed' \subseteq Owed
    BY <2>1, <2>2 DEF Owed, Rows
  <2>4. QED
    BY <2>1, <2>3, OwedShrinks
<1>4. ASSUME NEW q \in Requests, Flush(q) \/ FlushFails(q) PROVE LossInv'
  <2>1. PICK ls : /\ ls \in {<<Header, q>>, <<Header, Torn>>, <<Header>>, <<Torn>>, <<q>>}
                  /\ file' = file \/ file' = AppendLines(file, ls)
                  /\ Flush(q) => /\ file' = AppendLines(file, ls)
                                 /\ ls = <<Header, q>> \/ ls = <<q>>
    BY <1>4, FlushAppends
  <2>2. ls \in Seq(Line) /\ ls # <<>>
    BY <2>1, FlushedLines
  <2>3. /\ \A p \in Requests \ {q} : at'[p] = at[p]
        /\ reply' = reply
    BY <1>4 DEF Flush, FlushFails, IInv, TypeOK
  <2>4. \A p \in Requests : p \in Rows => p \in Rows'
    <3>1. \A k \in DOMAIN file : file[k] \in Whole => k \in DOMAIN file' /\ file'[k] = file[k]
      BY <1>1, <2>1, <2>2, AppendLinesKeeps
    <3>2. QED
      BY <3>1 DEF Rows, Whole
  <2>5. Owed' \subseteq Owed \cup {q}
    BY <2>3, <2>4 DEF Owed
  <2>6. /\ IsFiniteSet(Owed') /\ Cardinality(Owed') \in Nat
        /\ Cardinality(Owed') <= Cardinality(Owed) + 1
        /\ Owed' \subseteq Owed => Cardinality(Owed') <= Cardinality(Owed)
    BY <1>1, <2>5, OneMore
  <2>7. TornLines' \in {0, 1}
    BY DEF TornLines
  <2>8. CASE FlushFails(q) /\ ~Flush(q)
    <3>1. failures' = failures + 1
      BY <2>8 DEF FlushFails
    <3>2. QED
      BY <1>1, <2>6, <2>7, <3>1 DEF LossInv
  <2>9. CASE Flush(q)
    <3>1. file' = AppendLines(file, ls) /\ (ls = <<Header, q>> \/ ls = <<q>>) /\ failures' = failures
      BY <2>1, <2>9 DEF Flush
    <3>2. ls[Len(ls)] = q /\ q # Torn
      BY <3>1, FlushedLines
    <3>3. TornLines' = 0
      <4>1. file'[Len(file')] # Torn
        BY <1>1, <2>2, <3>1, <3>2, AppendLinesKeeps
      <4>2. QED
        BY <4>1 DEF TornLines
    <3>4. CASE TornLines = 1
      BY <1>1, <2>6, <3>1, <3>3, <3>4 DEF LossInv
    <3>5. CASE TornLines = 0
      <4>1. file = <<>> \/ file[Len(file)] # Torn
        BY <3>5 DEF TornLines
      <4>2. Len(ls) \in DOMAIN ls
        BY <2>2
      <4>3. Len(file) + Len(ls) \in DOMAIN file' /\ file'[Len(file) + Len(ls)] = q
        BY <1>1, <2>2, <3>1, <3>2, <4>1, <4>2, AppendLinesKeeps
      <4>4. q \in Rows'
        BY <4>3 DEF Rows
      <4>5. Owed' \subseteq Owed
        BY <2>5, <4>4 DEF Owed
      <4>6. QED
        BY <1>1, <2>6, <3>1, <3>3, <3>5, <4>5 DEF LossInv
    <3>6. QED
      BY <1>1, <3>4, <3>5
  <2>10. QED
    BY <1>4, <2>8, <2>9
<1>5. CASE DiskChanges \/ UNCHANGED vars
  <2>1. UNCHANGED <<file, failures, at, reply>>
    BY <1>5 DEF DiskChanges, vars
  <2>2. Owed' = Owed
    BY <2>1 DEF Owed, Rows
  <2>3. QED
    BY <2>1, <2>2, OwedShrinks
<1>6. QED
  BY <1>2, <1>3, <1>4, <1>5 DEF Next, Handle

(* Both counts are right at the start. *)
LEMMA CountsInit == Init => HeadersInv /\ LossInv
<1> SUFFICES ASSUME Init PROVE HeadersInv /\ LossInv
  OBVIOUS
<1>1. PendingHeaders = {} /\ HeadersOf(file) = {} /\ Owed = {} /\ TornLines = 0
  BY DEF Init, PendingHeaders, HeadersOf, Owed, TornLines
<1>2. Cardinality(Instances) \in Nat
  BY InstancesAssumption, FS_CardinalityType
<1>3. HeadersInv
  <2>1. Cardinality(PendingHeaders) = 0 /\ Count(Header) = 0
    BY <1>1, FS_EmptySet DEF Count, HeadersOf
  <2>2. QED
    BY <1>2, <2>1 DEF HeadersInv
<1>4. LossInv
  BY <1>1, FS_EmptySet DEF LossInv, Init
<1>5. QED
  BY <1>3, <1>4

(* A file gets at most one header per instance, however often they start, crash
   and fail to write: only those that saw it empty have one to give. *)
THEOREM HeadersAreBounded == Spec => []HeadersBounded
<1>1. IInv /\ HeadersInv => HeadersBounded
  <2> SUFFICES ASSUME IInv, HeadersInv PROVE HeadersBounded
    OBVIOUS
  <2>1. Cardinality(PendingHeaders) \in Nat
    <3>1. PendingHeaders \in SUBSET Instances
      BY DEF PendingHeaders
    <3>2. QED
      BY <3>1, InstancesAssumption, FS_Subset, FS_CardinalityType
  <2>2. Count(Header) \in Nat /\ Cardinality(Instances) \in Nat
    BY HeadersFinite, InstancesAssumption, FS_CardinalityType DEF IInv, TypeOK, Count, HeadersOf
  <2>3. QED
    BY <2>1, <2>2 DEF HeadersInv, HeadersBounded
<1>2. QED
  BY <1>1, Invariance, CountsInit, HeadersStep, PTL DEF Spec

(* Whatever fails and crashes, a failed Flush costs at most two rows whose
   clients were told 200: its own and the one after the line it cut off. *)
THEOREM AckedLossIsBounded == Spec => []AckedLossBounded
<1>1. IInv /\ LossInv => AckedLossBounded
  <2> SUFFICES ASSUME IInv, LossInv PROVE AckedLossBounded
    OBVIOUS
  <2> DEFINE Lost == {q \in Requests : reply[q] = "200" /\ q \notin Rows}
  <2>1. Lost \in SUBSET Owed
    BY DEF Owed
  <2> HIDE DEF Lost
  <2>2. /\ Cardinality(Lost) \in Nat /\ Cardinality(Owed) \in Nat
        /\ Cardinality(Lost) <= Cardinality(Owed)
    BY <2>1, FS_Subset, FS_CardinalityType DEF LossInv
  <2>3. TornLines \in {0, 1} /\ failures \in Nat
    BY DEF TornLines, IInv, TypeOK
  <2>4. QED
    BY <2>2, <2>3 DEF LossInv, AckedLossBounded, Lost
<1>2. QED
  BY <1>1, Invariance, CountsInit, LossStep, PTL DEF Spec
=============================================================================
