------------------------------- MODULE CGIProofs -------------------------------
(***************************************************************************)
(* The safety of a request for a script, for pipes and buffers of any      *)
(* size, any scripts and bodies, and any number of requests.               *)
(***************************************************************************)
EXTENDS CGI, SequenceTheorems, WellFoundedInduction, TLAPS

-------------------------------------------------------------------------------
(* The inductive invariant *)

HasChild(r) == child[r].at # "none"
NoChild == [at |-> "none", step |-> 1, taken |-> 0, eof |-> FALSE]

\* Every request has one child, from its fork() on; a dead server may have
\* died before that.
OneChildPerRequest ==
  /\ pc # "idle" => run # 0
  /\ \A r \in Runs :
       /\ HasChild(r) => r <= run
       /\ ~HasChild(r) => child[r] = NoChild
       /\ pc # "dead" /\ (r < run \/ (r = run /\ pc \notin {"pipe", "fork"})) =>
            HasChild(r)
       /\ r = run /\ pc \in {"pipe", "fork"} => ~HasChild(r)

\* The ends of the pipes of request r that its child has open.
EndsAt(r, at) ==
  CASE at \in {"none", "ended"} -> {}
    [] at = "stdin" -> {<<r, "p2c", "read">>, <<r, "p2c", "write">>,
                        <<r, "c2p", "read">>, <<r, "c2p", "write">>}
    [] at = "stdout" -> {<<r, "p2c", "read">>, <<r, "c2p", "read">>, <<r, "c2p", "write">>}
    [] at \in {"exec", "script"} -> {<<r, "p2c", "read">>, <<r, "c2p", "write">>}

\* And those that the server has open.
ServerEnds ==
  CASE pc \in {"idle", "pipe", "dead"} -> {}
    [] pc \in {"fork", "close"} -> BothPipes
    [] pc = "write" -> {P2C("write"), C2P("read")}
    [] pc = "read" -> {C2P("read")}

EndsHeld ==
  /\ held[Parent] = ServerEnds
  /\ \A r \in Runs : held[r] = EndsAt(r, child[r].at)

\* The whole body is written before the output is read, and no more is taken
\* than was written.
BodyAccounted ==
  \A r \in Runs :
    /\ child[r].taken <= written[r]
    /\ pc # "dead" /\ (r < run \/ (r = run /\ pc \in {"read", "idle"})) =>
         written[r] = body(r)

\* A script that has drained its input has seen the end of it.
DrainedToTheEnd ==
  \A r \in Runs : HasChild(r) =>
    \A i \in DOMAIN script(r).steps :
      i < child[r].step /\ script(r).steps[i] = "drain" => child[r].eof

DeadForCause == why = "sigpipe" => pc = "dead" /\ KilledOnlyByEndedScript

IInv ==
  /\ TypeOK
  /\ OneChildPerRequest
  /\ EndsHeld
  /\ BodyAccounted
  /\ DrainedToTheEnd
  /\ ScriptGetsWholeBody
  /\ DeadForCause

-------------------------------------------------------------------------------
(* What the operators return *)

LEMMA RunsProperties == /\ MaxRuns \in Nat
                        /\ Runs \subseteq Nat
                        /\ \A r \in Runs : r # Parent /\ r # 0
  BY BoundsAssumption DEF Runs, Parent

(* Among some numbers there is a least one, which Min returns.              *)
LEMMA LeastOfNats ==
  ASSUME NEW I \in SUBSET Nat, I # {}
  PROVE  \E i \in I : \A j \in I : ~(j < i)
<1>1. \E i \in I : \A j \in I : ~(<<j, i>> \in OpToRel(<, Nat))
  BY NatLessThanWellFounded, WFMin, Zenon
<1>2. \A i, j \in Nat : j < i => <<j, i>> \in OpToRel(<, Nat)
  BY Zenon DEF OpToRel
<1> QED
  BY <1>1, <1>2

LEMMA MinOfNats ==
  ASSUME NEW I \in SUBSET Nat, I # {}
  PROVE  Min(I) \in I /\ \A j \in I : Min(I) <= j
<1>1. \E i \in I : \A j \in I : i <= j
  BY LeastOfNats
<1> QED
  BY <1>1 DEF Min

(* A part of a text is a text. *)
LEMMA PartOfText ==
  ASSUME NEW t \in Seq(Units), NEW m \in Nat \ {0}, NEW n \in 0..Len(t)
  PROVE  /\ SubSeq(t, m, n) \in Seq(Units)
         /\ Len(SubSeq(t, m, n)) = IF m <= n THEN n - m + 1 ELSE 0
<1>1. \A i \in m..n : t[i] \in Units
  BY LenProperties, ElementOfSeq
<1>2. m \in Int /\ n \in Int
  BY LenProperties
<1> QED
  BY <1>1, <1>2, SubSeqProperties

(* A beginning has the elements of the whole, in their places.              *)
LEMMA PrefixElements ==
  ASSUME NEW t \in Seq(Units), NEW o \in Seq(Units), IsPrefix(t, o)
  PROVE  \A i \in 1..Len(t) : t[i] = o[i]
<1>1. Len(t) <= Len(o) /\ Len(t) \in Nat /\ Len(o) \in Nat
  BY LenProperties DEF IsPrefix
<1>2. \A i \in 1..Len(t) : o[i] \in Units /\ t[i] \in Units
  BY <1>1, ElementOfSeq
<1>3. /\ \A i \in 1..Len(t) : SubSeq(t, 1, Len(t))[i] = t[i]
      /\ \A i \in 1..Len(t) : SubSeq(o, 1, Len(t))[i] = o[i]
  <2>1. \A i \in 1..(Len(t) - 1 + 1) : SubSeq(o, 1, Len(t))[i] = o[1 + i - 1]
    BY <1>1, <1>2, SubSeqProperties
  <2> QED
    BY <1>1, <2>1, SubSeqFull
<1> QED
  BY <1>3 DEF IsPrefix

LEMMA ElementsOfPrefix ==
  ASSUME NEW t \in Seq(Units), NEW o \in Seq(Units), Len(t) <= Len(o),
         \A i \in 1..Len(t) : t[i] = o[i]
  PROVE  IsPrefix(t, o)
<1>1. Len(t) \in Nat /\ Len(o) \in Nat /\ Len(t) \in 0..Len(o)
  BY LenProperties
<1>2. \A i \in 1..Len(t) : o[i] \in Units
  BY <1>1, ElementOfSeq
<1>3. /\ SubSeq(o, 1, Len(t)) \in Seq(Units)
      /\ Len(SubSeq(o, 1, Len(t))) = Len(t)
      /\ \A i \in 1..Len(t) : SubSeq(o, 1, Len(t))[i] = o[i]
  <2>1. /\ SubSeq(o, 1, Len(t)) \in Seq(Units)
        /\ Len(SubSeq(o, 1, Len(t))) = IF 1 <= Len(t) THEN Len(t) - 1 + 1 ELSE 0
        /\ \A i \in 1..(Len(t) - 1 + 1) : SubSeq(o, 1, Len(t))[i] = o[1 + i - 1]
    BY <1>1, <1>2, SubSeqProperties
  <2> QED
    BY <1>1, <2>1
<1>4. SubSeq(o, 1, Len(t)) = t
  BY <1>3, SeqEqual
<1> QED
  BY <1>4, SubSeqFull DEF IsPrefix

(* A beginning stays one when the text goes on.                             *)
LEMMA PrefixOfAppend ==
  ASSUME NEW t \in Seq(Units), NEW o \in Seq(Units), NEW u \in Units, IsPrefix(t, o)
  PROVE  IsPrefix(t, Append(o, u))
<1>1. Len(t) <= Len(o) /\ Len(t) \in Nat /\ Len(o) \in Nat
  BY LenProperties DEF IsPrefix
<1>2. \A i \in 1..Len(t) : t[i] = o[i] /\ o[i] \in Units /\ Append(o, u)[i] = o[i]
  BY <1>1, PrefixElements, AppendProperties, ElementOfSeq
<1>3. Append(o, u) \in Seq(Units) /\ Len(Append(o, u)) = Len(o) + 1
  BY AppendProperties
<1>4. Len(t) <= Len(Append(o, u)) /\ \A i \in 1..Len(t) : t[i] = Append(o, u)[i]
  BY <1>1, <1>2, <1>3
<1> QED
  BY <1>3, <1>4, ElementsOfPrefix

LEMMA PrefixTransitive ==
  ASSUME NEW t \in Seq(Units), NEW o \in Seq(Units), NEW p \in Seq(Units),
         IsPrefix(t, o), IsPrefix(o, p)
  PROVE  IsPrefix(t, p)
<1>1. Len(t) \in Nat /\ Len(o) \in Nat /\ Len(p) \in Nat
  BY LenProperties
<1>2. Len(t) <= Len(o) /\ Len(o) <= Len(p)
  BY DEF IsPrefix
<1>3. \A i \in 1..Len(t) : t[i] = o[i]
  BY PrefixElements
<1>4. \A i \in 1..Len(o) : o[i] = p[i]
  BY PrefixElements
<1> QED
  BY <1>1, <1>2, <1>3, <1>4, ElementsOfPrefix

(* The part of a text in front of its first mark.                           *)
LEMMA UpToProperties ==
  ASSUME NEW t \in Seq(Units), NEW mark, mark \in ToSet(t)
  PROVE  \E k \in 1..Len(t) :
           /\ t[k] = mark
           /\ \A i \in 1..(k - 1) : t[i] # mark
           /\ UpTo(t, mark) \in Seq(Units) /\ Len(UpTo(t, mark)) = k - 1
           /\ \A i \in 1..(k - 1) : UpTo(t, mark)[i] = t[i]
<1> DEFINE I == {i \in 1..Len(t) : t[i] = mark}
           k == Min(I)
<1>1. Len(t) \in Nat /\ DOMAIN t = 1..Len(t)
  BY LenProperties
<1>2. I # {} /\ I \in SUBSET Nat
  BY <1>1 DEF ToSet
<1>3. k \in I /\ \A j \in I : k <= j
  BY <1>2, MinOfNats
<1>4. UpTo(t, mark) = SubSeq(t, 1, k - 1)
  BY <1>2 DEF UpTo, SelectInSeq
<1> HIDE DEF k
<1>5. k \in 1..Len(t) /\ k \in Nat /\ t[k] = mark
  BY <1>1, <1>3
<1>6. \A i \in 1..(k - 1) : t[i] # mark
  BY <1>1, <1>3, <1>5
<1>7. \A i \in 1..(k - 1) : t[i] \in Units
  BY <1>1, <1>5, ElementOfSeq
<1>8. /\ UpTo(t, mark) \in Seq(Units)
      /\ Len(UpTo(t, mark)) = IF 1 <= k - 1 THEN k - 1 - 1 + 1 ELSE 0
      /\ \A i \in 1..(k - 1 - 1 + 1) : UpTo(t, mark)[i] = t[1 + i - 1]
  BY <1>4, <1>5, <1>7, SubSeqProperties
<1>9. /\ Len(UpTo(t, mark)) = k - 1
      /\ \A i \in 1..(k - 1) : UpTo(t, mark)[i] = t[i]
  BY <1>5, <1>8
<1> QED
  BY <1>5, <1>6, <1>8, <1>9

LEMMA CStringIsPrefix ==
  ASSUME NEW t \in Seq(Units)
  PROVE  /\ CString(t) \in Seq(Units) /\ IsPrefix(CString(t), t)
         /\ CString(t) = <<>> => t = <<>> \/ t[1] = "nul"
<1>0. Len(t) \in Nat
  BY LenProperties
<1>1. CASE "nul" \notin ToSet(t)
  BY <1>0, <1>1 DEF CString, IsPrefix
<1>2. CASE "nul" \in ToSet(t)
  <2> DEFINE u == UpTo(t, "nul")
  <2>1. CString(t) = u
    BY <1>2 DEF CString
  <2> HIDE DEF u
  <2>2. PICK k \in 1..Len(t) :
           /\ t[k] = "nul"
           /\ u \in Seq(Units) /\ Len(u) = k - 1
           /\ \A i \in 1..(k - 1) : u[i] = t[i]
    BY <1>2, UpToProperties DEF u
  <2>3. IsPrefix(u, t)
    BY <1>0, <2>2, ElementsOfPrefix
  <2>4. u = <<>> => k = 1
    BY <1>0, <2>2, EmptySeq
  <2> QED
    BY <2>1, <2>2, <2>3, <2>4
<1> QED
  BY <1>1, <1>2

(* One read() takes a beginning of the output and leaves the rest. *)
LEMMA ReadTakesAPart ==
  ASSUME TypeOK, run \in Runs
  PROVE  /\ Received \in Seq(Units)
         /\ Len(Received) \in 0..Len(c2p[run])
         /\ SubSeq(c2p[run], Len(Received) + 1, Len(c2p[run])) \in Seq(Units)
         /\ Len(SubSeq(c2p[run], Len(Received) + 1, Len(c2p[run]))) <= PipeCap
<1> DEFINE n == Min({BufSize, Len(c2p[run])})
<1>1. c2p[run] \in Seq(Units) /\ Len(c2p[run]) \in Nat /\ Len(c2p[run]) <= PipeCap
  BY DEF TypeOK
<1>2. n \in {BufSize, Len(c2p[run])}
  BY <1>1, MinOfNats, PipeAssumption
<1>3. BufSize \in Nat /\ PipeCap \in Nat
  BY PipeAssumption
<1>4. n <= Len(c2p[run])
  <2>1. \E i \in {BufSize, Len(c2p[run])} : \A j \in {BufSize, Len(c2p[run])} : i <= j
    BY <1>1, <1>3
  <2> QED
    BY <2>1 DEF Min
<1>5. n \in 0..Len(c2p[run])
  BY <1>1, <1>2, <1>3, <1>4
<1>6. Received \in Seq(Units) /\ Len(Received) = n
  <2>1. Received = SubSeq(c2p[run], 1, n)
    BY DEF Received
  <2>2. 1 \in Nat \ {0} /\ n \in Nat
    BY <1>1, <1>5
  <2> HIDE DEF n
  <2> QED
    BY <1>1, <1>5, <2>1, <2>2, PartOfText
<1>7. n + 1 \in Nat \ {0} /\ Len(c2p[run]) \in 0..Len(c2p[run])
  BY <1>1, <1>5
<1> HIDE DEF n
<1> QED
  BY <1>1, <1>3, <1>5, <1>6, <1>7, PartOfText

(* Of what is there, one read() takes a beginning, and something.           *)
LEMMA ReadIsPrefix ==
  ASSUME TypeOK, run \in Runs
  PROVE  /\ Received \in Seq(Units) /\ IsPrefix(Received, c2p[run])
         /\ c2p[run] # <<>> => Received # <<>> /\ Received[1] = c2p[run][1]
<1> DEFINE o == c2p[run]
           n == Min({BufSize, Len(o)})
<1>1. o \in Seq(Units) /\ Len(o) \in Nat
  BY LenProperties DEF TypeOK
<1>2. n \in {BufSize, Len(o)} /\ n <= Len(o)
  BY <1>1, MinOfNats, PipeAssumption
<1>3. Received = SubSeq(o, 1, n)
  BY DEF Received
<1> HIDE DEF n
<1>4. n \in Nat /\ n <= Len(o) /\ (o # <<>> => n # 0)
  BY <1>1, <1>2, PipeAssumption, EmptySeq
<1>5. \A i \in 1..n : o[i] \in Units
  BY <1>1, <1>4, ElementOfSeq
<1>6. /\ Received \in Seq(Units)
      /\ Len(Received) = IF 1 <= n THEN n - 1 + 1 ELSE 0
      /\ \A i \in 1..(n - 1 + 1) : Received[i] = o[1 + i - 1]
  BY <1>3, <1>4, <1>5, SubSeqProperties
<1>7. Len(Received) = n /\ \A i \in 1..n : Received[i] = o[i]
  BY <1>4, <1>6
<1>8. IsPrefix(Received, o)
  BY <1>1, <1>4, <1>6, <1>7, ElementsOfPrefix
<1> HIDE DEF o
<1>9. o # <<>> => Received # <<>> /\ Received[1] = o[1]
  BY <1>4, <1>7, EmptySeq
<1> QED
  BY <1>6, <1>8, <1>9 DEF o

(* A recursive function is there to be chosen, for scripts of any length:   *)
(* the shortest beginning without one would have one.                       *)
LEMMA EmittedExists ==
  ASSUME NEW steps \in Seq(Units \cup Inputs)
  PROVE  \E after : after = [n \in 0..Len(steps) |->
           IF n = 0 THEN <<>>
           ELSE IF steps[n] \in Units THEN Append(after[n - 1], steps[n])
           ELSE after[n - 1]]
<1> DEFINE Further(o, n) == IF steps[n] \in Units THEN Append(o, steps[n]) ELSE o
           IsAfter(f, k) ==
             f = [n \in 0..k |-> IF n = 0 THEN <<>> ELSE Further(f[n - 1], n)]
           Undefined == {k \in 0..Len(steps) : ~\E f : IsAfter(f, k)}
<1>0. Len(steps) \in Nat
  BY LenProperties
<1>1. ASSUME Undefined # {} PROVE FALSE
  <2>1. Undefined \in SUBSET Nat
    BY <1>0
  <2>2. PICK k \in Undefined : \A j \in Undefined : ~(j < k)
    BY <1>1, <2>1, LeastOfNats
  <2>3. k \in 0..Len(steps) /\ k \in Nat
    BY <1>0, <2>2
  <2>4. k # 0
    <3> DEFINE e == [n \in 0..0 |-> <<>>]
    <3>1. e = [n \in 0..0 |-> IF n = 0 THEN <<>> ELSE Further(e[n - 1], n)]
      OBVIOUS
    <3>2. \E f : IsAfter(f, 0)
      BY <3>1
    <3> QED
      BY <2>2, <3>2
  <2>5. k - 1 \in 0..Len(steps) /\ k - 1 < k
    BY <1>0, <2>3, <2>4
  <2>6. k - 1 \notin Undefined
    BY <2>2, <2>5
  <2>7. PICK f : IsAfter(f, k - 1)
    BY <2>5, <2>6
  <2> DEFINE g == [n \in 0..k |-> IF n = k THEN Further(f[k - 1], k) ELSE f[n]]
  <2>8. ASSUME NEW n \in 0..k
        PROVE  g[n] = IF n = 0 THEN <<>> ELSE Further(g[n - 1], n)
    <3> HIDE DEF Further
    <3>1. CASE n = k
      <4>1. g[n] = Further(f[k - 1], k) /\ g[n - 1] = f[k - 1]
        BY <2>3, <2>4, <3>1
      <4> QED
        BY <2>4, <3>1, <4>1
    <3>2. CASE n # k
      <4>1. n \in 0..(k - 1) /\ g[n] = f[n]
        BY <2>3, <3>2
      <4>2. f[n] = IF n = 0 THEN <<>> ELSE Further(f[n - 1], n)
        BY <2>7, <4>1
      <4>3. n # 0 => g[n - 1] = f[n - 1]
        BY <2>3, <4>1
      <4> QED
        BY <4>1, <4>2, <4>3
    <3> QED
      BY <3>1, <3>2
  <2>9. IsAfter(g, k)
    <3> HIDE DEF Further
    <3>1. g = [n \in 0..k |-> g[n]]
      OBVIOUS
    <3> HIDE DEF g
    <3> QED
      BY <2>8, <3>1
  <2> QED
    BY <2>2, <2>9
<1>2. \E f : IsAfter(f, Len(steps))
  <2> HIDE DEF IsAfter
  <2> QED
    BY <1>0, <1>1
<1> QED
  BY <1>2

LEMMA EmittedStep ==
  ASSUME NEW steps \in Seq(Units \cup Inputs)
  PROVE  /\ Emitted(steps)[0] = <<>>
         /\ \A n \in 1..Len(steps) :
              Emitted(steps)[n] = IF steps[n] \in Units
                                  THEN Append(Emitted(steps)[n - 1], steps[n])
                                  ELSE Emitted(steps)[n - 1]
<1> DEFINE Goes(after) ==
             after = [n \in 0..Len(steps) |->
               IF n = 0 THEN <<>>
               ELSE IF steps[n] \in Units THEN Append(after[n - 1], steps[n])
               ELSE after[n - 1]]
           e == CHOOSE after : Goes(after)
<1>1. Emitted(steps) = e
  BY DEF Emitted
<1>2. \E after : Goes(after)
  BY EmittedExists
<1>3. Goes(e)
  <2> HIDE DEF Goes
  <2> QED
    BY <1>2
<1>4. Len(steps) \in Nat
  BY LenProperties
<1>5. 0 \in 0..Len(steps) /\ \A n \in 1..Len(steps) : n \in 0..Len(steps) /\ n # 0
  BY <1>4
<1> HIDE DEF e
<1>6. \A n \in 0..Len(steps) :
        e[n] = IF n = 0 THEN <<>>
               ELSE IF steps[n] \in Units THEN Append(e[n - 1], steps[n])
               ELSE e[n - 1]
  BY <1>3
<1> QED
  BY <1>1, <1>5, <1>6

(* What was written is a text, and goes on with what is written later.      *)
LEMMA EmittedGrows ==
  ASSUME NEW steps \in Seq(Units \cup Inputs), NEW m \in 0..Len(steps)
  PROVE  \A n \in m..Len(steps) :
           /\ Emitted(steps)[n] \in Seq(Units)
           /\ IsPrefix(Emitted(steps)[m], Emitted(steps)[n])
<1> DEFINE e == Emitted(steps)
           IsText(n) == e[n] \in Seq(Units)
           GoesOn(n) == IsPrefix(e[m], e[n])
<1>0. Len(steps) \in Nat
  BY LenProperties
<1>1. \A n \in 1..Len(steps) :
        \/ e[n] = e[n - 1]
        \/ steps[n] \in Units /\ e[n] = Append(e[n - 1], steps[n])
  BY EmittedStep
<1>2. ASSUME NEW n \in 0..Len(steps) PROVE IsText(n)
  <2> DEFINE Bad == {k \in 0..Len(steps) : ~IsText(k)}
  <2>1. ASSUME Bad # {} PROVE FALSE
    <3>1. Bad \in SUBSET Nat
      BY <1>0
    <3>2. PICK k \in Bad : \A j \in Bad : ~(j < k)
      BY <2>1, <3>1, LeastOfNats
    <3>3. IsText(0)
      BY EmittedStep, EmptySeq
    <3>4. k \in 1..Len(steps) /\ k - 1 \in 0..Len(steps) /\ k - 1 < k
      BY <1>0, <3>2, <3>3
    <3>5. IsText(k - 1)
      BY <3>2, <3>4
    <3>6. IsText(k)
      <4> HIDE DEF e
      <4>1. ASSUME steps[k] \in Units PROVE Append(e[k - 1], steps[k]) \in Seq(Units)
        BY <3>5, <4>1, AppendProperties
      <4> QED
        BY <1>1, <3>4, <3>5, <4>1
    <3> QED
      BY <3>2, <3>6
  <2> QED
    BY <2>1
<1>3. ASSUME NEW n \in m..Len(steps) PROVE GoesOn(n)
  <2> DEFINE Bad == {k \in m..Len(steps) : ~GoesOn(k)}
  <2>0. m \in Nat
    BY <1>0
  <2>1. ASSUME Bad # {} PROVE FALSE
    <3>1. Bad \in SUBSET Nat
      BY <1>0, <2>0
    <3>2. PICK k \in Bad : \A j \in Bad : ~(j < k)
      BY <2>1, <3>1, LeastOfNats
    <3>3. GoesOn(m)
      BY <1>2, LenProperties DEF IsPrefix
    <3>4. k \in 1..Len(steps) /\ k - 1 \in m..Len(steps) /\ k - 1 < k
      BY <1>0, <2>0, <3>2, <3>3
    <3>5. GoesOn(k - 1)
      BY <3>2, <3>4
    <3>6. GoesOn(k)
      <4>1. IsText(m) /\ IsText(k - 1)
        BY <1>0, <1>2, <2>0, <3>4
      <4> HIDE DEF e
      <4>2. ASSUME steps[k] \in Units PROVE IsPrefix(e[m], Append(e[k - 1], steps[k]))
        BY <3>5, <4>1, <4>2, PrefixOfAppend
      <4> QED
        BY <1>1, <3>4, <3>5, <4>2
    <3> QED
      BY <3>2, <3>6
  <2> QED
    BY <2>1
<1> QED
  BY <1>0, <1>2, <1>3

(* A request that was made has a body and a script. *)
LEMMA RequestType ==
  ASSUME TypeOK, NEW r \in Runs, r <= run
  PROVE  /\ r \in DOMAIN calls /\ run \in Nat
         /\ body(r) \in Nat /\ script(r) \in Script
         /\ script(r).steps \in Seq(Units \cup Inputs)
<1>1. calls \in Seq([body : BodySizes, script : Scripts])
  BY DEF TypeOK
<1>2. DOMAIN calls = 1..run /\ run \in Nat
  BY <1>1, LenProperties DEF run
<1>3. r \in 1..run
  BY <1>2, RunsProperties DEF Runs
<1>4. calls[r] \in [body : BodySizes, script : Scripts]
  BY <1>1, <1>3, ElementOfSeq DEF run
<1>5. body(r) \in Nat /\ script(r) \in Script
  BY <1>4, ScriptsAssumption DEF body, script
<1> QED
  BY <1>2, <1>3, <1>5 DEF Script

LEMMA CurrentRun ==
  ASSUME IInv, pc # "idle"
  PROVE  run \in Runs /\ body(run) \in Nat
<1>1. run \in Nat /\ run <= MaxRuns
  BY LenProperties DEF IInv, TypeOK, run
<1>2. run \in Runs /\ run <= run
  BY <1>1 DEF IInv, OneChildPerRequest, Runs
<1> QED
  BY <1>2, RequestType DEF IInv

(* A child that exists belongs to a request that was made. *)
LEMMA ChildsRequest ==
  ASSUME IInv, NEW r \in Runs, HasChild(r)
  PROVE  /\ r <= run /\ body(r) \in Nat
         /\ script(r).steps \in Seq(Units \cup Inputs)
<1>1. r <= run
  BY DEF IInv, OneChildPerRequest
<1> QED
  BY <1>1, RequestType DEF IInv

LEMMA CountsOfChild ==
  ASSUME IInv, NEW r \in Runs
  PROVE  /\ child[r] \in [at : {"none", "stdin", "stdout", "exec", "script", "ended"},
                          step : Nat \ {0}, taken : Nat, eof : BOOLEAN]
         /\ written[r] \in Nat
         /\ InPipe(r) \in Nat
         /\ r <= run => written[r] <= body(r)
         /\ c2p[r] \in Seq(Units) /\ Len(c2p[r]) \in Nat /\ Len(c2p[r]) <= PipeCap
<1>1. child[r].taken \in Nat /\ written[r] \in Nat /\ child[r].taken <= written[r]
  BY DEF IInv, TypeOK, BodyAccounted
<1>2. c2p[r] \in Seq(Units) /\ Len(c2p[r]) \in Nat /\ Len(c2p[r]) <= PipeCap
  BY DEF IInv, TypeOK
<1> QED
  BY <1>1, <1>2 DEF IInv, TypeOK, InPipe

LEMMA InitInv == Init => IInv
<1> SUFFICES ASSUME Init PROVE IInv
  OBVIOUS
<1>1. run = 0
  BY DEF Init, run
<1>2. TypeOK
  <2>1. calls \in Seq([body : BodySizes, script : Scripts])
    BY EmptySeq DEF Init
  <2>2. <<>> \in Seq(Units) /\ Len(<<>>) = 0
    BY EmptySeq
  <2> QED
    BY <1>1, <2>1, <2>2, RunsProperties, PipeAssumption DEF Init, TypeOK
<1>3. OneChildPerRequest
  BY <1>1, RunsProperties DEF Init, OneChildPerRequest, HasChild, NoChild, Runs
<1>4. EndsHeld
  BY RunsProperties DEF Init, EndsHeld, EndsAt, ServerEnds
<1>5. BodyAccounted
  BY <1>1 DEF Init, BodyAccounted, Runs
<1> QED
  BY <1>2, <1>3, <1>4, <1>5
     DEF IInv, Init, DrainedToTheEnd, HasChild, ScriptGetsWholeBody, DeadForCause

-------------------------------------------------------------------------------
(* What single steps do *)

(* A new request leaves the earlier ones as they are. *)
LEMMA CallEffect ==
  ASSUME IInv, Call
  PROVE  /\ run' = run + 1 /\ run' \in Runs
         /\ calls' \in Seq([body : BodySizes, script : Scripts])
         /\ calls'[run'].body \in Nat
         /\ \A r \in Runs : r <= run => body(r)' = body(r) /\ script(r)' = script(r)
<1> PICK n \in BodySizes, s \in Scripts :
           calls' = Append(calls, [body |-> n, script |-> s])
  BY DEF Call
<1> DEFINE e == [body |-> n, script |-> s]
<1>1. calls \in Seq([body : BodySizes, script : Scripts]) /\ run \in Nat
  BY LenProperties DEF IInv, TypeOK, run
<1>2. /\ calls' \in Seq([body : BodySizes, script : Scripts])
      /\ Len(calls') = Len(calls) + 1
      /\ \A i \in 1..Len(calls) : calls'[i] = calls[i]
      /\ calls'[Len(calls) + 1] = e
  BY <1>1, AppendProperties
<1>3. run' = run + 1 /\ run' \in Runs
  BY <1>1, <1>2, BoundsAssumption DEF Call, run, Runs
<1>4. calls'[run'].body \in Nat
  BY <1>2, <1>3, ScriptsAssumption DEF run
<1>5. \A r \in Runs : r <= run => calls'[r] = calls[r]
  BY <1>1, <1>2 DEF run, Runs
<1> QED
  BY <1>2, <1>3, <1>4, <1>5 DEF body, script

(* Every other step leaves the requests as they are. *)
LEMMA OtherEffect ==
  ASSUME Next, ~Call
  PROVE  /\ calls' = calls /\ run' = run
         /\ \A r : body(r)' = body(r) /\ script(r)' = script(r)
<1>1. calls' = calls
  BY DEF Next, Proceed, ChildProceeds, CreatePipe, CreatePipeFails, UnknownExtension,
         Fork, ForkFails, CloseTheirEnds, WriteBody, WriteBodyKills, EndBody,
         ReadOutput, ReadOverruns, ChildStdin, ChildStdout, ChildExec,
         ChildExecFails, ScriptReads, ScriptReadsEof, ScriptWrites, ScriptKilled,
         ScriptExits, ChildEnds, Die
<1> QED
  BY <1>1 DEF run, body, script

\* The steps that end the server.
DeathStep ==
  CreatePipeFails \/ UnknownExtension \/ ForkFails \/ WriteBodyKills \/ ReadOverruns

LEMMA Deaths ==
  DeathStep =>
    /\ pc \notin {"idle", "dead"}
    /\ \E reason \in {"pipe", "extension", "fork", "sigpipe", "overrun"} : Die(reason)
BY DEF CreatePipeFails, UnknownExtension, ForkFails, WriteBodyKills, ReadOverruns,
       OutputReady, DeathStep

States == {"none", "stdin", "stdout", "exec", "script", "ended"}
Child == [at : States, step : Nat \ {0}, taken : Nat, eof : BOOLEAN]

\* What a step may do to a child that it changes.
ChildMoves(r, at, step, taken, eof) ==
  child' = [child EXCEPT ![r] = [at |-> at, step |-> step, taken |-> taken, eof |-> eof]]

(* The child that a step changes, and how. *)
LEMMA ChildSteps ==
  ASSUME TypeOK, NEW r \in Runs
  PROVE  LET k == child[r]
         IN  /\ ChildStdin(r) => ChildMoves(r, "stdout", k.step, k.taken, k.eof)
             /\ ChildStdout(r) => ChildMoves(r, "exec", k.step, k.taken, k.eof)
             /\ ChildExec(r) => ChildMoves(r, "script", k.step, k.taken, k.eof)
             /\ ChildEnds(r) => ChildMoves(r, "ended", k.step, k.taken, k.eof)
             /\ ScriptReads(r) =>
                  ChildMoves(r, k.at, IF Op(r) = "read" THEN k.step + 1 ELSE k.step,
                             k.taken + 1, k.eof)
             /\ ScriptReadsEof(r) => ChildMoves(r, k.at, k.step + 1, k.taken, TRUE)
             /\ ScriptWrites(r) => ChildMoves(r, k.at, k.step + 1, k.taken, k.eof)
             /\ Fork /\ r = run => ChildMoves(r, "stdin", k.step, k.taken, k.eof)
<1> DEFINE k == child[r]
<1>1. child \in [Runs -> Child] /\ k \in Child
  BY DEF TypeOK, Child, States
<1>2. k = [at |-> k.at, step |-> k.step, taken |-> k.taken, eof |-> k.eof]
  BY <1>1 DEF Child
<1> QED
  BY <1>1, <1>2
     DEF ChildMoves, ChildStdin, ChildStdout, ChildExec, ChildEnds, ScriptReads,
         ScriptReadsEof, ScriptWrites, Fork, Advanced, Child

LEMMA MovedChild ==
  ASSUME TypeOK, NEW r \in Runs, NEW at \in States, NEW step \in Nat \ {0},
         NEW taken \in Nat, NEW eof \in BOOLEAN, ChildMoves(r, at, step, taken, eof)
  PROVE  /\ child' \in [Runs -> Child]
         /\ child'[r] = [at |-> at, step |-> step, taken |-> taken, eof |-> eof]
         /\ \A o \in Runs : o # r => child'[o] = child[o]
<1>1. child \in [Runs -> Child]
  BY DEF TypeOK, Child, States
<1>2. [at |-> at, step |-> step, taken |-> taken, eof |-> eof] \in Child
  BY DEF Child
<1> QED
  BY <1>1, <1>2 DEF ChildMoves

(* The operators that ChildSteps and MovedChild speak about stay folded. *)
LEMMA StepChildren == ASSUME IInv, Next PROVE child' \in [Runs -> Child]
<1> TypeOK
  BY DEF IInv
<1>1. CASE UNCHANGED child
  BY <1>1 DEF TypeOK, Child, States
<1>2. CASE Fork
  <2>1. run \in Runs
    BY <1>2, CurrentRun DEF Fork
  <2>2. child[run] \in Child
    BY <2>1 DEF TypeOK, Child, States
  <2>3. ChildMoves(run, "stdin", child[run].step, child[run].taken, child[run].eof)
    BY <1>2, <2>1, ChildSteps
  <2>4. /\ "stdin" \in States /\ child[run].step \in Nat \ {0}
        /\ child[run].taken \in Nat /\ child[run].eof \in BOOLEAN
    BY <2>2 DEF Child, States
  <2> QED
    BY <2>1, <2>3, <2>4, MovedChild
<1>3. ASSUME NEW r \in Runs, ChildProceeds(r) PROVE child' \in [Runs -> Child]
  <2> DEFINE k == child[r]
  <2>1. k.at \in States /\ k.step \in Nat \ {0} /\ k.taken \in Nat /\ k.eof \in BOOLEAN
    BY DEF TypeOK, States
  <2>2. /\ k.step + 1 \in Nat \ {0} /\ k.taken + 1 \in Nat
        /\ {"stdout", "exec", "script", "ended"} \subseteq States
    BY <2>1 DEF States
  <2>3. PICK at \in States, step \in Nat \ {0}, taken \in Nat, eof \in BOOLEAN :
          ChildMoves(r, at, step, taken, eof)
    BY <1>3, <2>1, <2>2, ChildSteps
       DEF ChildProceeds, ChildExecFails, ScriptKilled, ScriptExits
  <2> QED
    BY <2>3, MovedChild
<1> QED
  BY <1>1, <1>2, <1>3
     DEF Next, Call, Proceed, CreatePipe, CreatePipeFails, UnknownExtension, ForkFails,
         CloseTheirEnds, WriteBody, WriteBodyKills, EndBody, ReadOutput,
         ReadOverruns, Die

LEMMA StepOutput ==
  ASSUME IInv, Next
  PROVE  /\ c2p' \in [Runs -> Seq(Units)] /\ text' \in [Runs -> Seq(Units) \cup {NoText}]
         /\ \A r \in Runs : Len(c2p'[r]) <= PipeCap
<1> /\ c2p \in [Runs -> Seq(Units)] /\ text \in [Runs -> Seq(Units) \cup {NoText}]
    /\ \A r \in Runs : Len(c2p[r]) <= PipeCap
  BY DEF IInv, TypeOK
<1>1. CASE UNCHANGED <<c2p, text>>
  BY <1>1
<1>2. CASE ReadOutput
  <2>1. run \in Runs
    BY <1>2, CurrentRun DEF ReadOutput, OutputReady
  <2>2. CString(Received) \in Seq(Units)
    BY <2>1, ReadTakesAPart, CStringIsPrefix DEF IInv
  <2>3. c2p' = [c2p EXCEPT ![run] = SubSeq(c2p[run], Len(Received) + 1, Len(c2p[run]))]
    BY <1>2 DEF ReadOutput
  <2> QED
    BY <1>2, <2>1, <2>2, <2>3, ReadTakesAPart DEF ReadOutput, IInv
<1>3. ASSUME NEW r \in Runs, ScriptWrites(r)
      PROVE  c2p' \in [Runs -> Seq(Units)] /\ \A o \in Runs : Len(c2p'[o]) <= PipeCap
  <2>1. Op(r) \in Units /\ Len(c2p[r]) < PipeCap /\ Len(c2p[r]) \in Nat
    BY <1>3, LenProperties DEF ScriptWrites
  <2>2. Append(c2p[r], Op(r)) \in Seq(Units) /\ Len(Append(c2p[r], Op(r))) <= PipeCap
    BY <2>1, AppendProperties, PipeAssumption
  <2>3. c2p' = [c2p EXCEPT ![r] = Append(c2p[r], Op(r))]
    BY <1>3 DEF ScriptWrites
  <2> QED
    BY <2>2, <2>3
<1> QED
  BY <1>1, <1>2, <1>3
     DEF Next, Proceed, ChildProceeds, Call, CreatePipe, CreatePipeFails, UnknownExtension,
         Fork, ForkFails, CloseTheirEnds, WriteBody, WriteBodyKills, EndBody,
         ReadOverruns, ChildStdin, ChildStdout, ChildExec, ChildExecFails,
         ScriptReads, ScriptReadsEof, ScriptWrites, ScriptKilled, ScriptExits,
         ChildEnds, Die

LEMMA StepHeld == ASSUME IInv, Next PROVE held' \in [{Parent} \cup Runs -> SUBSET Ends]
<1> held \in [{Parent} \cup Runs -> SUBSET Ends]
  BY DEF IInv, TypeOK
<1>1. CASE UNCHANGED held
  BY <1>1
<1>2. CASE held' = [held EXCEPT ![Parent] = {}]
  BY <1>2
<1>3. CASE CreatePipe
  <2>1. BothPipes \subseteq Ends
    BY <1>3, CurrentRun DEF CreatePipe, BothPipes, P2C, C2P, Ends
  <2> QED
    BY <1>3, <2>1 DEF CreatePipe
<1>4. CASE Fork
  BY <1>4 DEF Fork
<1>5. ASSUME NEW p \in {Parent} \cup Runs, NEW ends, held' = Without(p, ends)
      PROVE  held' \in [{Parent} \cup Runs -> SUBSET Ends]
  BY <1>5 DEF Without
<1>6. ASSUME NEW r \in Runs, held' = [held EXCEPT ![r] = {}]
      PROVE  held' \in [{Parent} \cup Runs -> SUBSET Ends]
  BY <1>6
<1> QED
  BY <1>1, <1>2, <1>3, <1>4, <1>5, <1>6
     DEF Next, Proceed, ChildProceeds, Call, CreatePipeFails, UnknownExtension,
         ForkFails, CloseTheirEnds, WriteBody, WriteBodyKills, EndBody, ReadOutput,
         ReadOverruns, ChildStdin, ChildStdout, ChildExec, ChildExecFails,
         ScriptReads, ScriptReadsEof, ScriptWrites, ScriptKilled, ScriptExits,
         ChildEnds, Die

LEMMA StepWritten ==
  ASSUME IInv, Next
  PROVE  /\ written' \in [Runs -> Nat]
         /\ \A r \in Runs : written'[r] <= IF r <= run' THEN body(r)' ELSE 0
<1> /\ written \in [Runs -> Nat]
    /\ \A r \in Runs : written[r] <= IF r <= run THEN body(r) ELSE 0
  BY DEF IInv, TypeOK
<1>1. CASE Call
  <2>1. calls'[run'].body \in Nat /\ run' = run + 1 /\ run \in Nat
    BY <1>1, CallEffect, LenProperties DEF IInv, TypeOK, run
  <2>2. written' = written
    BY <1>1 DEF Call
  <2>3. SUFFICES ASSUME NEW r \in Runs PROVE written[r] <= IF r <= run' THEN body(r)' ELSE 0
    BY <2>2
  <2>4. CASE r <= run
    BY <1>1, <2>1, <2>4, CallEffect, RunsProperties
  <2>5. CASE r = run'
    <3>1. body(r)' = calls'[r].body
      BY DEF body
    <3> QED
      BY <2>1, <2>5, <3>1
  <2>6. CASE r > run'
    BY <2>1, <2>6, RunsProperties
  <2> QED
    BY <2>1, <2>4, <2>5, <2>6, RunsProperties
<1>2. CASE WriteBody
  <2>1. run \in Runs /\ written[run] + 1 <= body(run) /\ body(run) \in Nat
    BY <1>2, CurrentRun DEF WriteBody, BodyLeft
  <2>2. written' = [written EXCEPT ![run] = @ + 1] /\ ~Call
    BY <1>2 DEF WriteBody, Call
  <2>3. run' = run /\ \A r : body(r)' = body(r)
    BY <2>2, OtherEffect
  <2>4. \A r \in Runs : written'[r] = IF r = run THEN written[r] + 1 ELSE written[r]
    BY <2>2
  <2>5. written' \in [Runs -> Nat]
    BY <2>1, <2>2
  <2>6. \A r \in Runs : written'[r] <= IF r <= run THEN body(r) ELSE 0
    BY <2>1, <2>4, RunsProperties
  <2> QED
    BY <2>3, <2>5, <2>6
<1>3. CASE UNCHANGED written /\ ~Call
  BY <1>3, OtherEffect
<1> QED
  BY <1>1, <1>2, <1>3
     DEF Next, Proceed, ChildProceeds, CreatePipe, CreatePipeFails, UnknownExtension,
         Fork, ForkFails, CloseTheirEnds, WriteBodyKills, EndBody, ReadOutput,
         ReadOverruns, ChildStdin, ChildStdout, ChildExec, ChildExecFails,
         ScriptReads, ScriptReadsEof, ScriptWrites, ScriptKilled, ScriptExits,
         ChildEnds, Die

LEMMA StepTypes == ASSUME IInv, Next PROVE TypeOK'
<1> /\ pc \in {"idle", "pipe", "fork", "close", "write", "read", "dead"}
    /\ why \in {"running", "pipe", "extension", "fork", "sigpipe", "overrun"}
  BY DEF IInv, TypeOK
<1>1. /\ pc' \in {"idle", "pipe", "fork", "close", "write", "read", "dead"}
      /\ why' \in {"running", "pipe", "extension", "fork", "sigpipe", "overrun"}
  BY DEF Next, Proceed, ChildProceeds, Call, CreatePipe, CreatePipeFails,
         UnknownExtension, Fork, ForkFails, CloseTheirEnds, WriteBody, WriteBodyKills,
         EndBody, ReadOutput, ReadOverruns, ChildStdin, ChildStdout, ChildExec,
         ChildExecFails, ScriptReads, ScriptReadsEof, ScriptWrites, ScriptKilled,
         ScriptExits, ChildEnds, Die
<1>2. calls' \in Seq([body : BodySizes, script : Scripts]) /\ run' <= MaxRuns
  <2>1. CASE Call
    BY <2>1, CallEffect, RunsProperties DEF Runs
  <2>2. CASE ~Call
    BY <2>2, OtherEffect DEF IInv, TypeOK
  <2> QED
    BY <2>1, <2>2
<1> QED
  BY <1>1, <1>2, StepChildren, StepOutput, StepHeld, StepWritten
     DEF TypeOK, Child, States

-------------------------------------------------------------------------------
(* Children and pipe ends *)

LEMMA StepChild == ASSUME IInv, Next PROVE OneChildPerRequest'
<1> TypeOK /\ OneChildPerRequest
  BY DEF IInv
<1>0. run \in Nat
  BY LenProperties DEF TypeOK, run
<1>1. CASE Call
  <2>1. run' = run + 1 /\ run' \in Runs /\ UNCHANGED child /\ pc = "idle" /\ pc' = "pipe"
    BY <1>1, CallEffect DEF Call
  <2> QED
    BY <1>0, <2>1, RunsProperties DEF OneChildPerRequest, HasChild
<1> SUFFICES ASSUME ~Call PROVE OneChildPerRequest'
  BY <1>1
<1>2. run' = run
  BY OtherEffect
<1>3. CASE Fork
  <2>1. run \in Runs
    BY <1>3, CurrentRun DEF Fork
  <2>2. /\ child'[run].at = "stdin"
        /\ \A o \in Runs : o # run => child'[o] = child[o]
    BY <1>3, <2>1 DEF Fork, TypeOK
  <2> QED
    BY <1>0, <1>2, <1>3, <2>1, <2>2, RunsProperties DEF Fork, OneChildPerRequest, HasChild
<1>4. ASSUME NEW r \in Runs, ChildProceeds(r) PROVE OneChildPerRequest'
  <2> DEFINE k == child[r]
  <2>0. /\ k.step \in Nat \ {0} /\ k.taken \in Nat /\ k.eof \in BOOLEAN
        /\ k.step + 1 \in Nat \ {0} /\ k.taken + 1 \in Nat
        /\ {"stdout", "exec", "script", "ended"} \subseteq States \ {"none"}
    BY DEF TypeOK, States
  <2>1. PICK at \in States \ {"none"}, step \in Nat \ {0}, taken \in Nat, eof \in BOOLEAN :
          ChildMoves(r, at, step, taken, eof)
    <3>1. CASE k.at = "script" /\ (ScriptReads(r) \/ ScriptReadsEof(r) \/ ScriptWrites(r))
      BY <2>0, <3>1, ChildSteps, ZenonT(30)
    <3>2. CASE ChildStdin(r) \/ ChildStdout(r) \/ ChildExec(r) \/ ChildEnds(r)
      BY <2>0, <3>2, ChildSteps, ZenonT(30)
    <3> QED
      BY <1>4, <3>1, <3>2
         DEF ChildProceeds, ChildExecFails, ScriptKilled, ScriptExits, ScriptReads,
             ScriptReadsEof, ScriptWrites, Running
  <2>2. k.at # "none"
    BY <1>4
       DEF ChildProceeds, ChildStdin, ChildStdout, ChildExec, ChildExecFails,
           ScriptReads, ScriptReadsEof, ScriptWrites, ScriptKilled, ScriptExits,
           Running
  <2>3. child'[r].at # "none" /\ \A o \in Runs : o # r => child'[o] = child[o]
    BY <2>1 DEF ChildMoves, TypeOK
  <2>4. UNCHANGED pc
    BY <1>4
       DEF ChildProceeds, ChildStdin, ChildStdout, ChildExec, ChildExecFails,
           ScriptReads, ScriptReadsEof, ScriptWrites, ScriptKilled, ScriptExits,
           ChildEnds
  <2>5. \A o \in Runs : HasChild(o)' <=> HasChild(o)
    BY <2>2, <2>3 DEF HasChild
  <2> QED
    BY <1>2, <2>3, <2>4, <2>5 DEF OneChildPerRequest, HasChild
<1>5. CASE DeathStep
  <2>1. pc' = "dead" /\ UNCHANGED child
    BY <1>5, Deaths DEF Die
  <2>2. run # 0
    BY <1>5, Deaths DEF OneChildPerRequest
  <2> QED
    BY <1>2, <2>1, <2>2 DEF OneChildPerRequest, HasChild
<1>6. CASE CreatePipe \/ CloseTheirEnds \/ WriteBody \/ EndBody \/ ReadOutput
  <2>1. UNCHANGED child /\ pc # "idle" /\ pc # "dead" /\ pc' # "dead"
    BY <1>6 DEF CreatePipe, CloseTheirEnds, WriteBody, EndBody, ReadOutput, OutputReady
  <2>2. pc' \in {"pipe", "fork"} <=> pc \in {"pipe", "fork"}
    BY <1>6 DEF CreatePipe, CloseTheirEnds, WriteBody, EndBody, ReadOutput, OutputReady
  <2> QED
    BY <1>2, <2>1, <2>2 DEF OneChildPerRequest, HasChild
<1> QED
  BY <1>3, <1>4, <1>5, <1>6 DEF Next, Proceed, DeathStep

LEMMA StepEnds == ASSUME IInv, Next PROVE EndsHeld'
<1> /\ held \in [{Parent} \cup Runs -> SUBSET Ends]
    /\ pc \in {"idle", "pipe", "fork", "close", "write", "read", "dead"}
    /\ TypeOK /\ EndsHeld /\ OneChildPerRequest
  BY DEF IInv, TypeOK
<1> /\ Parent \notin Runs
  BY RunsProperties
<1>1. CASE Call
  BY <1>1 DEF Call, EndsHeld, ServerEnds
<1> SUFFICES ASSUME ~Call PROVE EndsHeld'
  BY <1>1
<1>2. run' = run
  BY OtherEffect
<1>3. CASE DeathStep
  BY <1>3, Deaths DEF Die, EndsHeld, ServerEnds
<1>4. CASE CreatePipe
  BY <1>2, <1>4 DEF CreatePipe, EndsHeld, ServerEnds, BothPipes, P2C, C2P
<1>5. CASE Fork
  <2>1. run \in Runs
    BY <1>5, CurrentRun DEF Fork
  <2>2. ChildMoves(run, "stdin", child[run].step, child[run].taken, child[run].eof)
    BY <1>5, <2>1, ChildSteps
  <2>3. /\ child'[run].at = "stdin"
        /\ \A o \in Runs : o # run => child'[o] = child[o]
    BY <2>1, <2>2 DEF ChildMoves, TypeOK
  <2>4. held' = [held EXCEPT ![run] = BothPipes] /\ held[Parent] = BothPipes
    BY <1>5 DEF Fork, EndsHeld, ServerEnds
  <2>5. BothPipes = EndsAt(run, "stdin") /\ BothPipes' = BothPipes
    BY <1>2 DEF BothPipes, P2C, C2P, EndsAt
  <2>6. \A o \in Runs : held'[o] = EndsAt(o, child'[o].at)
    BY <2>1, <2>3, <2>4, <2>5 DEF EndsHeld
  <2>7. held'[Parent] = ServerEnds'
    BY <1>5, <2>1, <2>4, <2>5 DEF Fork, ServerEnds
  <2> QED
    BY <2>6, <2>7 DEF EndsHeld
<1>6. CASE CloseTheirEnds \/ EndBody \/ ReadOutput
  <2>1. /\ \A o \in Runs : held'[o] = held[o]
        /\ UNCHANGED child
    BY <1>6 DEF CloseTheirEnds, EndBody, ReadOutput, Without
  <2>2. held'[Parent] = ServerEnds'
    <3>1. CASE CloseTheirEnds
      <4>1. held'[Parent] = BothPipes \ {P2C("read"), C2P("write")}
        BY <3>1 DEF CloseTheirEnds, Without, EndsHeld, ServerEnds
      <4>2. ServerEnds' = {P2C("write"), C2P("read")}
        BY <1>2, <3>1 DEF CloseTheirEnds, ServerEnds, P2C, C2P
      <4> QED
        BY <4>1, <4>2 DEF BothPipes, P2C, C2P
    <3>2. CASE EndBody
      <4>1. held'[Parent] = {P2C("write"), C2P("read")} \ {P2C("write")}
        BY <3>2 DEF EndBody, Without, EndsHeld, ServerEnds
      <4>2. ServerEnds' = {C2P("read")}
        BY <1>2, <3>2 DEF EndBody, ServerEnds, C2P
      <4> QED
        BY <4>1, <4>2 DEF P2C, C2P
    <3>3. CASE ReadOutput
      BY <3>3 DEF ReadOutput, OutputReady, Without, EndsHeld, ServerEnds
    <3> QED
      BY <1>6, <3>1, <3>2, <3>3
  <2> QED
    BY <2>1, <2>2 DEF EndsHeld
<1>7. CASE WriteBody
  BY <1>2, <1>7 DEF WriteBody, EndsHeld, ServerEnds, BothPipes, P2C, C2P
<1>8. ASSUME NEW r \in Runs, ChildProceeds(r) PROVE EndsHeld'
  <2> DEFINE k == child[r]
  <2>1. UNCHANGED pc /\ held'[Parent] = held[Parent]
    BY <1>8
       DEF ChildProceeds, ChildStdin, ChildStdout, ChildExec, ChildExecFails,
           ScriptReads, ScriptReadsEof, ScriptWrites, ScriptKilled, ScriptExits,
           ChildEnds, Without
  <2>2. ServerEnds' = ServerEnds
    BY <1>2, <2>1 DEF ServerEnds, BothPipes, P2C, C2P
  <2>3. \A o \in Runs : o # r => held'[o] = held[o] /\ child'[o] = child[o]
    BY <1>8
       DEF ChildProceeds, ChildStdin, ChildStdout, ChildExec, ChildExecFails,
           ScriptReads, ScriptReadsEof, ScriptWrites, ScriptKilled, ScriptExits,
           ChildEnds, Without, TypeOK
  <2>4. held'[r] = EndsAt(r, child'[r].at)
    <3> /\ k.at \in States /\ held[r] = EndsAt(r, k.at)
      BY DEF TypeOK, States, EndsHeld
    <3>1. CASE ChildStdin(r)
      <4>1. child'[r].at = "stdout"
        BY <3>1, ChildSteps DEF ChildMoves, TypeOK
      <4> QED
        BY <3>1, <4>1 DEF ChildStdin, Without, EndsAt
    <3>2. CASE ChildStdout(r)
      <4>1. child'[r].at = "exec"
        BY <3>2, ChildSteps DEF ChildMoves, TypeOK
      <4> QED
        BY <3>2, <4>1 DEF ChildStdout, Without, EndsAt
    <3>3. CASE ChildExec(r)
      <4>1. child'[r].at = "script"
        BY <3>3, ChildSteps DEF ChildMoves, TypeOK
      <4> QED
        BY <3>3, <4>1 DEF ChildExec, EndsAt
    <3>4. CASE ChildEnds(r)
      <4>1. child'[r].at = "ended"
        BY <3>4, ChildSteps DEF ChildMoves, TypeOK
      <4> QED
        BY <3>4, <4>1 DEF ChildEnds, EndsAt
    <3>5. CASE ScriptReads(r) \/ ScriptReadsEof(r) \/ ScriptWrites(r)
      <4>1. child'[r].at = k.at
        BY <3>5, ChildSteps DEF ChildMoves, TypeOK
      <4> QED
        BY <3>5, <4>1 DEF ScriptReads, ScriptReadsEof, ScriptWrites
    <3> QED
      BY <1>8, <3>1, <3>2, <3>3, <3>4, <3>5
         DEF ChildProceeds, ChildExecFails, ScriptKilled, ScriptExits
  <2> QED
    BY <2>1, <2>2, <2>3, <2>4 DEF EndsHeld
<1> QED
  BY <1>3, <1>4, <1>5, <1>6, <1>7, <1>8 DEF Next, Proceed, DeathStep

(* Who still holds an end of the current pipes, or of a child's own. *)
LEMMA InputIsOver ==
  ASSUME IInv, NEW r \in Runs, HasChild(r), child[r].at # "stdin"
  PROVE  ~IsOpen(<<r, "p2c", "write">>) => written[r] = body(r) \/ pc = "dead"
<1> SUFFICES ASSUME ~IsOpen(<<r, "p2c", "write">>), pc # "dead"
             PROVE  written[r] = body(r)
  OBVIOUS
<1>1. r <= run /\ run \in Nat
  BY LenProperties DEF IInv, OneChildPerRequest, TypeOK, run
<1>2. <<r, "p2c", "write">> \notin ServerEnds
  BY RunsProperties DEF IInv, TypeOK, EndsHeld, IsOpen
<1>3. r = run => pc \notin {"pipe", "fork"}
  BY DEF IInv, OneChildPerRequest
<1>4. r = run => pc \notin {"close", "write"}
  BY <1>2 DEF ServerEnds, BothPipes, P2C
<1>5. pc \in {"idle", "pipe", "fork", "close", "write", "read", "dead"}
  BY DEF IInv, TypeOK
<1> QED
  BY <1>1, <1>3, <1>4, <1>5, RunsProperties DEF IInv, BodyAccounted

LEMMA ReaderIsGone ==
  ASSUME IInv, pc = "write", ~IsOpen(P2C("read"))
  PROVE  child[run].at = "ended"
<1>1. run \in Runs /\ HasChild(run)
  BY CurrentRun DEF IInv, OneChildPerRequest
<1>2. held[run] = EndsAt(run, child[run].at) /\ P2C("read") \notin held[run]
  BY <1>1 DEF IInv, TypeOK, EndsHeld, IsOpen
<1>3. child[run].at \in {"stdin", "stdout", "exec", "script", "ended"}
  BY <1>1 DEF IInv, TypeOK, HasChild
<1> QED
  BY <1>2, <1>3 DEF EndsAt, P2C

-------------------------------------------------------------------------------
(* The body *)

LEMMA StepBody == ASSUME IInv, Next PROVE BodyAccounted'
<1> TypeOK /\ BodyAccounted /\ OneChildPerRequest
  BY DEF IInv
<1>0. run \in Nat /\ Runs \subseteq Nat
  BY LenProperties, RunsProperties DEF TypeOK, run
<1>1. CASE Call
  <2>1. run' = run + 1 /\ UNCHANGED <<child, written>> /\ pc = "idle" /\ pc' = "pipe"
    BY <1>1, CallEffect DEF Call
  <2>2. \A r \in Runs : r <= run => body(r)' = body(r)
    BY <1>1, CallEffect
  <2> QED
    BY <1>0, <2>1, <2>2 DEF BodyAccounted
<1> SUFFICES ASSUME ~Call PROVE BodyAccounted'
  BY <1>1
<1>2. run' = run /\ \A r : body(r)' = body(r)
  BY OtherEffect
<1>3. CASE WriteBody
  <2>1. run \in Runs /\ written[run] \in Nat
    BY <1>3, CurrentRun DEF WriteBody, TypeOK
  <2>2. \A r \in Runs : written'[r] = IF r = run THEN written[r] + 1 ELSE written[r]
    BY <1>3 DEF WriteBody, TypeOK
  <2>3. \A r \in Runs : child[r].taken <= written'[r]
    <3>1. \A r \in Runs : child[r].taken \in Nat /\ child[r].taken <= written[r]
      BY DEF BodyAccounted, TypeOK
    <3> QED
      BY <2>1, <2>2, <3>1
  <2>4. pc = "write" /\ UNCHANGED <<pc, child>>
    BY <1>3 DEF WriteBody
  <2>5. \A r \in Runs : r < run => written'[r] = body(r)
    BY <1>0, <2>2, <2>4 DEF BodyAccounted
  <2> QED
    BY <1>2, <2>3, <2>4, <2>5 DEF BodyAccounted
<1>4. CASE EndBody
  <2>1. run \in Runs /\ body(run) \in Nat /\ written[run] \in Nat /\ written[run] <= body(run)
    <3>1. run \in Runs /\ body(run) \in Nat /\ run <= run
      BY <1>0, <1>4, CurrentRun DEF EndBody
    <3> QED
      BY <3>1, CountsOfChild
  <2>2. written[run] = body(run)
    BY <1>4, <2>1 DEF EndBody, BodySent, BodyLeft
  <2> QED
    BY <1>2, <1>4, <2>2 DEF EndBody, BodyAccounted
<1>5. CASE DeathStep
  BY <1>5, Deaths DEF Die, BodyAccounted
<1>6. CASE CreatePipe \/ CloseTheirEnds \/ ReadOutput
  BY <1>2, <1>6 DEF CreatePipe, CloseTheirEnds, ReadOutput, OutputReady, BodyAccounted
<1>7. CASE Fork
  <2>1. \A r \in Runs : child'[r].taken = child[r].taken
    BY <1>7 DEF Fork, TypeOK
  <2> QED
    BY <1>2, <1>7, <2>1 DEF Fork, BodyAccounted
<1>8. ASSUME NEW r \in Runs, ChildProceeds(r) PROVE BodyAccounted'
  <2>1. UNCHANGED <<pc, written>> /\ \A o \in Runs : o # r => child'[o] = child[o]
    BY <1>8
       DEF ChildProceeds, ChildStdin, ChildStdout, ChildExec, ChildExecFails,
           ScriptReads, ScriptReadsEof, ScriptWrites, ScriptKilled, ScriptExits,
           ChildEnds, TypeOK
  <2>2. child'[r].taken <= written[r]
    <3>1. CASE ScriptReads(r)
      <4>1. InPipe(r) > 0 /\ child'[r].taken = child[r].taken + 1
        BY <3>1 DEF ScriptReads, TypeOK
      <4> QED
        BY <4>1 DEF InPipe, TypeOK
    <3>2. CASE ~ScriptReads(r)
      <4>1. child'[r].taken = child[r].taken
        BY <1>8, <3>2
           DEF ChildProceeds, ChildStdin, ChildStdout, ChildExec, ChildExecFails,
               ScriptReadsEof, ScriptWrites, ScriptKilled, ScriptExits,
               ChildEnds, TypeOK
      <4> QED
        BY <4>1 DEF BodyAccounted
    <3> QED
      BY <3>1, <3>2
  <2> QED
    BY <1>2, <2>1, <2>2 DEF BodyAccounted
<1> QED
  BY <1>3, <1>4, <1>5, <1>6, <1>7, <1>8 DEF Next, Proceed, DeathStep

(* A child's step keeps what the others have drained, and its own. *)
LEMMA StepDrained == ASSUME IInv, Next PROVE DrainedToTheEnd'
<1> TypeOK /\ DrainedToTheEnd /\ OneChildPerRequest
  BY DEF IInv
<1>0. run \in Nat /\ Runs \subseteq Nat
  BY LenProperties, RunsProperties DEF TypeOK, run
<1>1. CASE Call
  <2>1. \A r \in Runs : HasChild(r) => script(r)' = script(r)
    BY <1>1, CallEffect DEF OneChildPerRequest
  <2> QED
    BY <1>1, <2>1 DEF Call, DrainedToTheEnd, HasChild
<1> SUFFICES ASSUME ~Call PROVE DrainedToTheEnd'
  BY <1>1
<1>2. \A r : script(r)' = script(r)
  BY OtherEffect
<1>3. CASE UNCHANGED child
  BY <1>2, <1>3 DEF DrainedToTheEnd, HasChild
<1>4. CASE Fork
  <2>1. run \in Runs /\ child[run] = NoChild
    BY <1>4, CurrentRun DEF Fork, OneChildPerRequest
  <2>2. child'[run].step = 1 /\ \A o \in Runs : o # run => child'[o] = child[o]
    BY <1>4, <2>1 DEF Fork, NoChild, TypeOK
  <2>3. ASSUME NEW r \in Runs, HasChild(r)'
        PROVE  \A i \in DOMAIN script(r).steps :
                 i < child'[r].step /\ script(r).steps[i] = "drain" => child'[r].eof
    <3>1. CASE r = run
      <4>1. script(r).steps \in Seq(Units \cup Inputs)
        BY <1>0, <3>1, RequestType
      <4>2. \A i \in DOMAIN script(r).steps : ~(i < 1)
        BY <4>1, LenProperties
      <4> QED
        BY <2>2, <3>1, <4>2
    <3>2. CASE r # run
      BY <2>2, <2>3, <3>2 DEF DrainedToTheEnd, HasChild
    <3> QED
      BY <3>1, <3>2
  <2> QED
    BY <1>2, <2>3 DEF DrainedToTheEnd
<1>5. ASSUME NEW r \in Runs, ChildProceeds(r) PROVE DrainedToTheEnd'
  <2> DEFINE k == child[r]
             Drained(step, eof) ==
               \A i \in DOMAIN script(r).steps :
                 i < step /\ script(r).steps[i] = "drain" => eof
  <2>1. HasChild(r) /\ \A o \in Runs : o # r => child'[o] = child[o]
    BY <1>5
       DEF ChildProceeds, ChildStdin, ChildStdout, ChildExec, ChildExecFails,
           ScriptReads, ScriptReadsEof, ScriptWrites, ScriptKilled, ScriptExits,
           ChildEnds, Running, HasChild, TypeOK
  <2>2. k.step \in Nat /\ \A i \in DOMAIN script(r).steps : i \in Nat
    BY <2>1, ChildsRequest, LenProperties DEF TypeOK
  <2>3. Drained(k.step, k.eof)
    BY <2>1 DEF DrainedToTheEnd
  <2>4. Drained(child'[r].step, child'[r].eof)
    <3>1. CASE ScriptReadsEof(r)
      BY <3>1, ChildSteps DEF ChildMoves, TypeOK
    <3>2. CASE ScriptReads(r) \/ ScriptWrites(r)
      <4>1. Op(r) = script(r).steps[k.step]
        BY DEF Op
      <4>2. child'[r].eof = k.eof
        BY <3>2, ChildSteps DEF ChildMoves, TypeOK
      <4>3. child'[r].step = k.step \/ (child'[r].step = k.step + 1 /\ Op(r) # "drain")
        BY <3>2 DEF ScriptReads, ScriptWrites, Advanced, TypeOK, Units, Inputs
      <4> QED
        BY <2>2, <2>3, <4>1, <4>2, <4>3
    <3>3. CASE ~ScriptReadsEof(r) /\ ~ScriptReads(r) /\ ~ScriptWrites(r)
      <4>1. child'[r].step = k.step /\ child'[r].eof = k.eof
        BY <1>5, <3>3
           DEF ChildProceeds, ChildStdin, ChildStdout, ChildExec, ChildExecFails,
               ScriptKilled, ScriptExits, ChildEnds, TypeOK
      <4> QED
        BY <2>3, <4>1
    <3> QED
      BY <3>1, <3>2, <3>3
  <2> QED
    BY <1>2, <2>1, <2>4 DEF DrainedToTheEnd, HasChild
<1> QED
  BY <1>3, <1>4, <1>5
     DEF Next, Proceed, CreatePipe, CreatePipeFails, UnknownExtension, ForkFails,
         CloseTheirEnds, WriteBody, WriteBodyKills, EndBody, ReadOutput,
         ReadOverruns, Die

(* The end of the input comes after the whole body, which stays taken. *)
LEMMA StepWhole == ASSUME IInv, Next PROVE ScriptGetsWholeBody'
<1> TypeOK /\ ScriptGetsWholeBody /\ OneChildPerRequest
  BY DEF IInv
<1>0. run \in Nat /\ Runs \subseteq Nat
  BY LenProperties, RunsProperties DEF TypeOK, run
<1>1. CASE Call
  <2>1. \A r \in Runs : HasChild(r) => body(r)' = body(r)
    BY <1>1, CallEffect DEF OneChildPerRequest
  <2>2. \A r \in Runs : child[r].eof => HasChild(r)
    BY DEF OneChildPerRequest, NoChild
  <2> QED
    BY <1>1, <2>1, <2>2 DEF Call, ScriptGetsWholeBody
<1> SUFFICES ASSUME ~Call PROVE ScriptGetsWholeBody'
  BY <1>1
<1>2. \A r : body(r)' = body(r)
  BY OtherEffect
<1>3. pc = "dead" => pc' = "dead"
  BY DEF Next, Call, Proceed, CreatePipe, CreatePipeFails, UnknownExtension, Fork,
         ForkFails, CloseTheirEnds, WriteBody, WriteBodyKills, EndBody, ReadOutput,
         ReadOverruns, OutputReady, Die, ChildProceeds, ChildStdin, ChildStdout,
         ChildExec, ChildExecFails, ScriptReads, ScriptReadsEof, ScriptWrites,
         ScriptKilled, ScriptExits, ChildEnds
<1>4. CASE UNCHANGED child
  BY <1>2, <1>3, <1>4 DEF ScriptGetsWholeBody
<1>5. CASE Fork
  <2>1. \A r \in Runs : child'[r].eof = child[r].eof /\ child'[r].taken = child[r].taken
    BY <1>5 DEF Fork, TypeOK
  <2> QED
    BY <1>2, <1>3, <2>1 DEF ScriptGetsWholeBody
<1>6. ASSUME NEW r \in Runs, ChildProceeds(r) PROVE ScriptGetsWholeBody'
  <2> DEFINE k == child[r]
  <2>1. /\ HasChild(r) /\ pc' = pc
        /\ \A o \in Runs : o # r => child'[o] = child[o]
    BY <1>6
       DEF ChildProceeds, ChildStdin, ChildStdout, ChildExec, ChildExecFails,
           ScriptReads, ScriptReadsEof, ScriptWrites, ScriptKilled, ScriptExits,
           ChildEnds, Running, HasChild, TypeOK
  <2>2. /\ k.taken \in Nat /\ written[r] \in Nat /\ body(r) \in Nat
        /\ k.taken <= written[r] /\ written[r] <= body(r)
    BY <2>1, ChildsRequest, CountsOfChild DEF IInv, TypeOK, BodyAccounted
  <2>3. child'[r].eof => child'[r].taken = body(r) \/ pc = "dead"
    <3>1. CASE ScriptReadsEof(r)
      <4>1. child'[r].taken = k.taken /\ InPipe(r) = 0 /\ k.at = "script"
        BY <3>1 DEF ScriptReadsEof, Running, TypeOK
      <4>2. k.taken = written[r]
        BY <2>2, <4>1 DEF InPipe
      <4>3. written[r] = body(r) \/ pc = "dead"
        BY <2>1, <3>1, <4>1, InputIsOver DEF ScriptReadsEof
      <4> QED
        BY <4>1, <4>2, <4>3
    <3>2. CASE ScriptReads(r)
      <4>1. child'[r].eof = k.eof /\ InPipe(r) > 0
        BY <3>2 DEF ScriptReads, TypeOK
      <4>2. k.taken # body(r)
        BY <2>2, <4>1 DEF InPipe
      <4> QED
        BY <4>1, <4>2 DEF ScriptGetsWholeBody
    <3>3. CASE ~ScriptReadsEof(r) /\ ~ScriptReads(r)
      <4>1. child'[r].taken = k.taken /\ child'[r].eof = k.eof
        BY <1>6, <3>3
           DEF ChildProceeds, ChildStdin, ChildStdout, ChildExec, ChildExecFails,
               ScriptWrites, ScriptKilled, ScriptExits, ChildEnds, TypeOK
      <4> QED
        BY <4>1 DEF ScriptGetsWholeBody
    <3> QED
      BY <3>1, <3>2, <3>3
  <2> QED
    BY <1>2, <2>1, <2>3 DEF ScriptGetsWholeBody
<1> QED
  BY <1>4, <1>5, <1>6
     DEF Next, Proceed, CreatePipe, CreatePipeFails, UnknownExtension, ForkFails,
         CloseTheirEnds, WriteBody, WriteBodyKills, EndBody, ReadOutput,
         ReadOverruns, Die

(* The server that a write has killed stays dead, and its script ended. *)
LEMMA StepCause == ASSUME IInv, Next PROVE DeadForCause'
<1> TypeOK /\ DeadForCause
  BY DEF IInv
<1> USE DEF DeadForCause, KilledOnlyByEndedScript
<1>1. CASE why = "sigpipe"
  <2>1. pc = "dead" /\ run \in Runs /\ child[run].at = "ended" /\ child[run].taken < body(run)
    BY <1>1, CurrentRun
  <2>2. ~Call /\ ~Proceed
    BY <2>1
       DEF Call, Proceed, CreatePipe, CreatePipeFails, UnknownExtension, Fork, ForkFails,
           CloseTheirEnds, WriteBody, WriteBodyKills, EndBody, ReadOutput,
           ReadOverruns, OutputReady
  <2>3. PICK r \in Runs : ChildProceeds(r)
    BY <2>2 DEF Next
  <2>4. r # run
    BY <2>1, <2>3
       DEF ChildProceeds, ChildStdin, ChildStdout, ChildExec, ChildExecFails,
           ScriptReads, ScriptReadsEof, ScriptWrites, ScriptKilled, ScriptExits,
           Running
  <2>5. child'[run] = child[run] /\ pc' = pc
    BY <2>1, <2>3, <2>4
       DEF ChildProceeds, ChildStdin, ChildStdout, ChildExec, ChildExecFails,
           ScriptReads, ScriptReadsEof, ScriptWrites, ScriptKilled, ScriptExits,
           ChildEnds, TypeOK
  <2>6. run' = run /\ \A o : body(o)' = body(o)
    BY <2>2, OtherEffect
  <2>7. body(run)' = body(run)
    BY <2>6
  <2> QED
    BY <2>1, <2>5, <2>6, <2>7
<1>2. CASE WriteBodyKills
  <2>1. /\ pc = "write" /\ BodyLeft /\ ~IsOpen(P2C("read"))
        /\ pc' = "dead" /\ UNCHANGED <<calls, child>>
    BY <1>2 DEF WriteBodyKills, Die
  <2>2. run \in Runs /\ body(run) \in Nat /\ child[run].at = "ended"
    BY <2>1, CurrentRun, ReaderIsGone
  <2>3. /\ child[run].taken \in Nat /\ written[run] \in Nat
        /\ child[run].taken <= written[run] /\ written[run] < body(run)
    BY <2>1, <2>2 DEF BodyLeft, IInv, TypeOK, BodyAccounted
  <2>4. child[run].taken < body(run)
    BY <2>2, <2>3
  <2> QED
    BY <2>1, <2>2, <2>4 DEF run, body
<1>3. CASE why # "sigpipe" /\ ~WriteBodyKills
  <2>1. why' # "sigpipe"
    BY <1>3
       DEF Next, Call, Proceed, CreatePipe, CreatePipeFails, UnknownExtension, Fork,
           ForkFails, CloseTheirEnds, WriteBody, EndBody, ReadOutput, ReadOverruns,
           Die, ChildProceeds, ChildStdin, ChildStdout, ChildExec, ChildExecFails,
           ScriptReads, ScriptReadsEof, ScriptWrites, ScriptKilled, ScriptExits,
           ChildEnds
  <2> QED
    BY <2>1
<1> QED
  BY <1>1, <1>2, <1>3

LEMMA StepInv == IInv /\ [Next]_vars => IInv'
<1>1. CASE UNCHANGED vars
  <2> SUFFICES ASSUME IInv PROVE IInv'
    BY <1>1
  <2> QED
    BY <1>1
       DEF vars, IInv, TypeOK, OneChildPerRequest, HasChild, EndsHeld, ServerEnds,
           BothPipes, P2C, C2P, BodyAccounted, DrainedToTheEnd, ScriptGetsWholeBody,
           DeadForCause, KilledOnlyByEndedScript, run, body, script
<1>2. ASSUME IInv, Next PROVE IInv'
  BY <1>2, StepTypes, StepChild, StepEnds, StepBody, StepDrained, StepWhole, StepCause
     DEF IInv
<1> QED
  BY <1>1, <1>2

LEMMA AlwaysInv == Spec => []IInv
BY InitInv, StepInv, PTL DEF Spec

-------------------------------------------------------------------------------
(* What the invariant implies *)

LEMMA OwnPipes == IInv => OwnPipesOnly
<1> SUFFICES ASSUME IInv PROVE OwnPipesOnly
  OBVIOUS
<1>1. pc = "idle" => held[Parent] = {}
  BY DEF IInv, EndsHeld, ServerEnds
<1>2. ASSUME NEW r \in Runs, NEW end \in held[r] PROVE end[1] = r
  <2>1. end \in EndsAt(r, child[r].at) /\ child[r].at \in States
    BY <1>2 DEF IInv, EndsHeld, TypeOK, States
  <2> QED
    BY <2>1 DEF EndsAt, States
<1> QED
  BY <1>1, <1>2 DEF OwnPipesOnly

LEMMA WaitsAreFull == IInv => WaitOnlyOnFullPipes
<1>1. ASSUME IInv, ServerWaits, ScriptWaits(run)
      PROVE  /\ ~Cooperative(run)
             /\ InPipe(run) = PipeCap /\ Len(c2p[run]) = PipeCap
  <2>1. run \in Runs /\ body(run) \in Nat /\ child[run].at = "script"
    BY <1>1, CurrentRun DEF ServerWaits, ScriptWaits, Running
  <2>2. held[run] = {<<run, "p2c", "read">>, <<run, "c2p", "write">>}
    BY <1>1, <2>1 DEF IInv, EndsHeld, EndsAt
  <2>3. PipeCap \in Nat \ {0} /\ Len(c2p[run]) \in Nat /\ c2p[run] \in Seq(Units)
    BY <1>1, <2>1, CountsOfChild, PipeAssumption
  <2>4. pc = "write"
    <3>1. CASE pc = "read"
      <4>1. c2p[run] = <<>> /\ Len(c2p[run]) = 0
        BY <1>1, <2>3, <3>1, EmptySeq DEF ServerWaits
      <4>2. IsOpen(<<run, "p2c", "write">>)
        BY <1>1, <2>3, <4>1 DEF ScriptWaits
      <4>3. PICK p \in {Parent} \cup Runs : <<run, "p2c", "write">> \in held[p]
        BY <1>1, <4>2 DEF IsOpen, IInv, TypeOK
      <4>4. held[Parent] = {<<run, "c2p", "read">>}
        BY <1>1, <3>1 DEF IInv, EndsHeld, ServerEnds, C2P
      <4>5. p \in Runs
        BY <4>3, <4>4
      <4>6. child[p].at \in States /\ held[p] = EndsAt(p, child[p].at)
        BY <1>1, <4>5 DEF IInv, EndsHeld, TypeOK, States
      <4>7. p = run
        BY <4>3, <4>6 DEF EndsAt, States
      <4> QED
        BY <2>2, <4>3, <4>7
    <3> QED
      BY <1>1, <3>1 DEF ServerWaits
  <2>5. InPipe(run) = PipeCap /\ BodyLeft
    BY <1>1, <2>4 DEF ServerWaits
  <2>6. Op(run) \in Units /\ Len(c2p[run]) = PipeCap
    BY <1>1, <2>3, <2>5 DEF ScriptWaits
  <2>7. body(run) > PipeCap
    BY <1>1, <2>1, <2>3, <2>5, CountsOfChild DEF InPipe, BodyLeft, IInv, TypeOK
  <2>8. ~ReadsFirst(script(run))
    <3> DEFINE i == child[run].step
    <3>1. script(run).steps \in Seq(Units \cup Inputs)
      BY <1>1, <2>1, ChildsRequest DEF HasChild
    <3>2. i \in DOMAIN script(run).steps /\ script(run).steps[i] \in Units
      <4>1. i \in Nat \ {0} /\ i <= Len(script(run).steps)
        BY <1>1, <2>1 DEF ScriptWaits, Running, IInv, TypeOK
      <4> QED
        BY <2>6, <3>1, <4>1, LenProperties DEF Op
    <3>3. SUFFICES ASSUME NEW j \in 1..(i - 1), script(run).steps[j] = "drain"
                   PROVE  FALSE
      BY <3>2 DEF ReadsFirst
    <3>4. j \in DOMAIN script(run).steps /\ j < i
      BY <3>1, <3>2, LenProperties
    <3>5. child[run].taken = body(run)
      BY <1>1, <2>1, <2>4, <3>3, <3>4
         DEF IInv, DrainedToTheEnd, HasChild, ScriptGetsWholeBody
    <3>6. written[run] \in Nat /\ written[run] - child[run].taken = PipeCap
      BY <1>1, <2>1, <2>5, CountsOfChild DEF InPipe
    <3> QED
      BY <2>1, <2>3, <2>5, <3>5, <3>6 DEF BodyLeft
  <2> QED
    BY <2>1, <2>3, <2>5, <2>6, <2>7, <2>8 DEF Cooperative
<1> QED
  BY <1>1 DEF WaitOnlyOnFullPipes

-------------------------------------------------------------------------------
(* The answers: a second invariant, on top of the first *)

\* A request has its answer when the server goes on to the next one.
Answered ==
  /\ \A r \in Runs : text[r] # NoText => r < run \/ (r = run /\ pc \in {"idle", "dead"})
  /\ pc # "dead" =>
       \A r \in Runs : r < run \/ (r = run /\ pc = "idle") => text[r] # NoText

\* Until the answer is taken, a pipe holds all that its script has written.
OutputSoFar ==
  \A r \in Runs :
    /\ ~HasChild(r) => c2p[r] = <<>>
    /\ HasChild(r) =>
         /\ child[r].step <= Len(script(r).steps) + 1
         /\ text[r] = NoText => c2p[r] = Emitted(script(r).steps)[child[r].step - 1]

\* Before its answer is taken, a script ends only at its end.
EndedForCause ==
  pc # "dead" =>
    \A r \in Runs : child[r].at = "ended" /\ text[r] = NoText =>
      ~Executable(r) \/ child[r].step = Len(script(r).steps) + 1

AnswerInv == Answered /\ OutputSoFar /\ EndedForCause /\ AnswerIsPrefixOfOutput

\* The steps of the server that neither answer nor move a child.
QuietStep ==
  CreatePipe \/ CloseTheirEnds \/ WriteBody \/ EndBody

LEMMA StepKinds ==
  Next => \/ Call \/ Fork \/ ReadOutput \/ QuietStep \/ DeathStep
          \/ \E r \in Runs : ChildProceeds(r)
BY DEF Next, Proceed, QuietStep, DeathStep

LEMMA QuietSteps ==
  QuietStep => /\ UNCHANGED <<calls, child, c2p, text>>
               /\ pc \notin {"idle", "dead"} /\ pc' \notin {"idle", "dead"}
BY DEF QuietStep, CreatePipe, CloseTheirEnds, WriteBody, EndBody

LEMMA DeathSteps ==
  DeathStep => /\ UNCHANGED <<calls, child, c2p, text>>
               /\ pc \notin {"idle", "dead"} /\ pc' = "dead"
BY Deaths DEF Die

LEMMA ChildKeeps ==
  ASSUME TypeOK, NEW r \in Runs, ChildProceeds(r)
  PROVE  /\ UNCHANGED <<pc, calls, text>> /\ HasChild(r)
         /\ \A o \in Runs : o # r => child'[o] = child[o] /\ c2p'[o] = c2p[o]
         /\ child'[r].at # "none"
<1> /\ c2p \in [Runs -> Seq(Units)] /\ child \in [Runs -> Child]
  BY DEF TypeOK, Child, States
<1>1. UNCHANGED <<pc, calls, text>> /\ HasChild(r)
  BY DEF ChildProceeds, ChildStdin, ChildStdout, ChildExec, ChildExecFails,
         ScriptReads, ScriptReadsEof, ScriptWrites, ScriptKilled, ScriptExits,
         ChildEnds, Running, HasChild
<1>2. \A o \in Runs : o # r => child'[o] = child[o]
  BY DEF ChildProceeds, ChildStdin, ChildStdout, ChildExec, ChildExecFails,
         ScriptReads, ScriptReadsEof, ScriptWrites, ScriptKilled, ScriptExits,
         ChildEnds
<1>3. \A o \in Runs : o # r => c2p'[o] = c2p[o]
  BY DEF ChildProceeds, ChildStdin, ChildStdout, ChildExec, ChildExecFails,
         ScriptReads, ScriptReadsEof, ScriptWrites, ScriptKilled, ScriptExits,
         ChildEnds
<1>4. child'[r].at # "none"
  BY <1>1
     DEF ChildProceeds, ChildStdin, ChildStdout, ChildExec, ChildExecFails,
         ScriptReads, ScriptReadsEof, ScriptWrites, ScriptKilled, ScriptExits,
         ChildEnds, HasChild, Child
<1> QED
  BY <1>1, <1>2, <1>3, <1>4

LEMMA ReadAnswers ==
  ASSUME IInv, ReadOutput
  PROVE  /\ run \in Runs /\ HasChild(run) /\ pc = "read" /\ pc' = "idle"
         /\ UNCHANGED <<calls, child>>
         /\ text'[run] = CString(Received) /\ text'[run] # NoText
         /\ \A o \in Runs : o # run => text'[o] = text[o] /\ c2p'[o] = c2p[o]
<1>1. pc = "read" /\ run \in Runs /\ TypeOK
  BY CurrentRun DEF ReadOutput, OutputReady, IInv
<1>2. CString(Received) \in Seq(Units)
  BY <1>1, ReadTakesAPart, CStringIsPrefix
<1>3. HasChild(run)
  BY <1>1 DEF IInv, OneChildPerRequest
<1>4. /\ text' = [text EXCEPT ![run] = CString(Received)] /\ pc' = "idle"
      /\ UNCHANGED <<calls, child>>
      /\ c2p' = [c2p EXCEPT ![run] = SubSeq(c2p[run], Len(Received) + 1, Len(c2p[run]))]
  BY DEF ReadOutput
<1>5. text'[run] = CString(Received)
  BY <1>1, <1>4 DEF TypeOK
<1>6. \A o \in Runs : o # run => text'[o] = text[o] /\ c2p'[o] = c2p[o]
  BY <1>1, <1>4 DEF TypeOK
<1> QED
  BY <1>1, <1>2, <1>3, <1>4, <1>5, <1>6, NoTextAssumption

LEMMA StepAnswered == ASSUME IInv, Answered, Next PROVE Answered'
<1>0. run \in Nat /\ Runs \subseteq Nat /\ TypeOK
  BY LenProperties, RunsProperties DEF TypeOK, IInv, run
<1>1. CASE Call
  <2>1. run' = run + 1 /\ pc = "idle" /\ pc' = "pipe" /\ text' = text
    BY <1>1, CallEffect DEF Call
  <2> QED
    BY <1>0, <2>1 DEF Answered
<1> SUFFICES ASSUME ~Call PROVE Answered'
  BY <1>1
<1>2. run' = run
  BY OtherEffect
<1>3. CASE ReadOutput
  BY <1>0, <1>2, <1>3, ReadAnswers DEF Answered
<1>4. CASE Fork
  BY <1>0, <1>2, <1>4 DEF Fork, Answered
<1>5. CASE QuietStep
  BY <1>0, <1>2, <1>5, QuietSteps DEF Answered
<1>6. CASE DeathStep
  BY <1>0, <1>2, <1>6, DeathSteps DEF Answered
<1>7. ASSUME NEW r \in Runs, ChildProceeds(r) PROVE Answered'
  BY <1>0, <1>2, <1>7, ChildKeeps DEF Answered
<1> QED
  BY <1>3, <1>4, <1>5, <1>6, <1>7, StepKinds

LEMMA StepOutputSoFar == ASSUME IInv, OutputSoFar, Next PROVE OutputSoFar'
<1>0. run \in Nat /\ Runs \subseteq Nat /\ TypeOK /\ OneChildPerRequest
  BY LenProperties, RunsProperties DEF TypeOK, IInv, run
<1>1. CASE Call
  <2>1. \A r \in Runs : HasChild(r) => script(r)' = script(r)
    BY <1>0, <1>1, CallEffect DEF OneChildPerRequest
  <2> QED
    BY <1>1, <2>1 DEF Call, OutputSoFar, HasChild
<1> SUFFICES ASSUME ~Call PROVE OutputSoFar'
  BY <1>1
<1>2. \A r : script(r)' = script(r)
  BY OtherEffect
<1>3. CASE ReadOutput
  BY <1>2, <1>3, ReadAnswers DEF OutputSoFar, HasChild
<1>4. CASE UNCHANGED <<child, c2p, text>>
  BY <1>2, <1>4 DEF OutputSoFar, HasChild
<1>5. CASE Fork
  <2>1. run \in Runs /\ child[run] = NoChild /\ ~HasChild(run)
    BY <1>0, <1>5, CurrentRun DEF Fork, OneChildPerRequest
  <2>2. child'[run].step = 1 /\ \A o \in Runs : o # run => child'[o] = child[o]
    BY <1>0, <1>5, <2>1 DEF Fork, NoChild, TypeOK
  <2>3. UNCHANGED <<c2p, text>> /\ c2p[run] = <<>> /\ child'[run].at = "stdin"
    BY <1>0, <1>5, <2>1 DEF Fork, OutputSoFar, TypeOK
  <2>4. script(run).steps \in Seq(Units \cup Inputs) /\ Len(script(run).steps) \in Nat
    BY <1>0, <2>1, RequestType, LenProperties
  <2>5. Emitted(script(run).steps)[1 - 1] = <<>> /\ 1 <= Len(script(run).steps) + 1
    BY <2>4, EmittedStep
  <2> QED
    BY <1>2, <2>1, <2>2, <2>3, <2>5 DEF OutputSoFar, HasChild
<1>6. ASSUME NEW r \in Runs, ChildProceeds(r) PROVE OutputSoFar'
  <2> DEFINE k == child[r]
             s == script(r).steps
  <2>1. HasChild(r) /\ text' = text /\ child'[r].at # "none"
    BY <1>0, <1>6, ChildKeeps
  <2>2. s \in Seq(Units \cup Inputs) /\ Len(s) \in Nat
    BY <2>1, ChildsRequest, LenProperties
  <2>3. k.step \in Nat \ {0} /\ c2p[r] \in Seq(Units)
    BY <1>0 DEF TypeOK
  <2>4. k.step <= Len(s) + 1 /\ (text[r] = NoText => c2p[r] = Emitted(s)[k.step - 1])
    BY <2>1 DEF OutputSoFar
  <2>5. /\ child'[r].step <= Len(s) + 1
        /\ text[r] = NoText => c2p'[r] = Emitted(s)[child'[r].step - 1]
    <3>1. CASE ScriptWrites(r)
      <4>1. /\ k.step <= Len(s) /\ s[k.step] \in Units
            /\ c2p'[r] = Append(c2p[r], s[k.step]) /\ child'[r].step = k.step + 1
        BY <1>0, <3>1 DEF ScriptWrites, Running, Op, Advanced, TypeOK
      <4>2. /\ k.step \in 1..Len(s)
            /\ k.step + 1 <= Len(s) + 1 /\ k.step + 1 - 1 = k.step
        BY <2>2, <2>3, <4>1
      <4> HIDE DEF k, s
      <4>3. Emitted(s)[k.step] = Append(Emitted(s)[k.step - 1], s[k.step])
        BY <2>2, <4>1, <4>2, EmittedStep
      <4>4. child'[r].step <= Len(s) + 1 /\ child'[r].step - 1 = k.step
        BY <4>1, <4>2
      <4> QED
        BY <2>4, <4>1, <4>3, <4>4, Zenon
    <3>2. CASE (ScriptReads(r) \/ ScriptReadsEof(r)) /\ child'[r].step # k.step
      <4>1. /\ k.step <= Len(s) /\ s[k.step] \in Inputs
            /\ c2p'[r] = c2p[r] /\ child'[r].step = k.step + 1
        BY <1>0, <3>2 DEF ScriptReads, ScriptReadsEof, Running, Op, Advanced, TypeOK
      <4>2. s[k.step] \notin Units
        BY <4>1 DEF Units, Inputs
      <4>3. /\ k.step \in 1..Len(s)
            /\ k.step + 1 <= Len(s) + 1 /\ k.step + 1 - 1 = k.step
        BY <2>2, <2>3, <4>1
      <4> HIDE DEF k, s
      <4>4. Emitted(s)[k.step] = Emitted(s)[k.step - 1]
        BY <2>2, <4>2, <4>3, EmittedStep
      <4> QED
        BY <2>4, <4>1, <4>3, <4>4
    <3>3. CASE ~ScriptWrites(r) /\ child'[r].step = k.step
      <4>1. c2p' = c2p
        BY <1>6, <3>3
           DEF ChildProceeds, ChildStdin, ChildStdout, ChildExec, ChildExecFails,
               ScriptReads, ScriptReadsEof, ScriptKilled, ScriptExits, ChildEnds
      <4> QED
        BY <2>4, <3>3, <4>1
    <3>4. ~ScriptWrites(r) /\ ~ScriptReads(r) /\ ~ScriptReadsEof(r) =>
            child'[r].step = k.step
      BY <1>0, <1>6
         DEF ChildProceeds, ChildStdin, ChildStdout, ChildExec, ChildExecFails,
             ScriptKilled, ScriptExits, ChildEnds, TypeOK
    <3> QED
      BY <3>1, <3>2, <3>3, <3>4
  <2>6. \A o \in Runs : o # r => child'[o] = child[o] /\ c2p'[o] = c2p[o]
    BY <1>0, <1>6, ChildKeeps
  <2> QED
    BY <1>2, <2>1, <2>5, <2>6 DEF OutputSoFar, HasChild
<1> QED
  BY <1>3, <1>4, <1>5, <1>6, StepKinds, QuietSteps, DeathSteps

LEMMA StepEnded == ASSUME IInv, AnswerInv, Next PROVE EndedForCause'
<1>0. run \in Nat /\ Runs \subseteq Nat /\ TypeOK /\ OneChildPerRequest
  BY LenProperties, RunsProperties DEF TypeOK, IInv, run
<1>1. CASE Call
  <2>1. \A r \in Runs : HasChild(r) => script(r)' = script(r)
    BY <1>0, <1>1, CallEffect DEF OneChildPerRequest
  <2> QED
    BY <1>1, <2>1 DEF Call, AnswerInv, EndedForCause, HasChild, Executable
<1> SUFFICES ASSUME ~Call PROVE EndedForCause'
  BY <1>1
<1>2. \A r : script(r)' = script(r)
  BY OtherEffect
<1>3. CASE ReadOutput
  BY <1>2, <1>3, ReadAnswers DEF AnswerInv, EndedForCause, Executable
<1>4. CASE QuietStep
  BY <1>2, <1>4, QuietSteps DEF AnswerInv, EndedForCause, Executable
<1>5. CASE DeathStep
  BY <1>5, DeathSteps DEF EndedForCause
<1>6. CASE Fork
  <2>1. /\ \A r \in Runs : child'[r].at = "ended" => child'[r] = child[r]
        /\ UNCHANGED text /\ pc # "dead"
    BY <1>0, <1>6, CurrentRun DEF Fork, TypeOK
  <2> QED
    BY <1>2, <2>1 DEF AnswerInv, EndedForCause, Executable
<1>7. ASSUME NEW r \in Runs, ChildProceeds(r) PROVE EndedForCause'
  <2>1. /\ UNCHANGED <<pc, text>> /\ HasChild(r)
        /\ \A o \in Runs : o # r => child'[o] = child[o]
    BY <1>0, <1>7, ChildKeeps
  <2>2. ASSUME pc # "dead", child'[r].at = "ended", text[r] = NoText
        PROVE  ~Executable(r) \/ child'[r].step = Len(script(r).steps) + 1
    <3>1. CASE ChildExecFails(r)
      BY <3>1 DEF ChildExecFails
    <3>2. CASE ScriptKilled(r)
      <4>1. r <= run /\ ~(r < run) /\ r \in Nat
        BY <1>0, <2>1, <2>2 DEF AnswerInv, Answered, OneChildPerRequest
      <4>2. r = run
        BY <1>0, <4>1
      <4>3. pc \notin {"idle", "pipe", "fork", "dead"}
        BY <1>0, <2>1, <2>2, <4>2 DEF AnswerInv, Answered, OneChildPerRequest
      <4>4. pc \in {"close", "write", "read"}
        BY <1>0, <4>3 DEF TypeOK
      <4>5. <<r, "c2p", "read">> \in held[Parent]
        BY <4>2, <4>4 DEF IInv, EndsHeld, ServerEnds, BothPipes, C2P
      <4>6. IsOpen(<<r, "c2p", "read">>)
        BY <1>0, <4>5 DEF IsOpen, TypeOK
      <4> QED
        BY <3>2, <4>6 DEF ScriptKilled
    <3>3. CASE ScriptExits(r)
      <4>1. child[r].step > Len(script(r).steps)
        <5>1. child[r].step \in Nat /\ Len(script(r).steps) \in Nat
          BY <1>0, <2>1, ChildsRequest, LenProperties DEF TypeOK
        <5> QED
          BY <3>3, <5>1 DEF ScriptExits, Running
      <4>2. child'[r].step = child[r].step
        BY <1>0, <3>3 DEF ScriptExits, ChildEnds, TypeOK
      <4>3. child[r].step <= Len(script(r).steps) + 1
        BY <2>1 DEF AnswerInv, OutputSoFar
      <4>4. child[r].step \in Nat /\ Len(script(r).steps) \in Nat
        BY <1>0, <2>1, ChildsRequest, LenProperties DEF TypeOK
      <4> QED
        BY <4>1, <4>2, <4>3, <4>4
    <3> QED
      BY <1>0, <1>7, <2>2, <3>1, <3>2, <3>3
         DEF ChildProceeds, ChildStdin, ChildStdout, ChildExec, ScriptReads,
             ScriptReadsEof, ScriptWrites, Running, TypeOK
  <2> QED
    BY <1>2, <2>1, <2>2 DEF AnswerInv, EndedForCause, Executable
<1> QED
  BY <1>3, <1>4, <1>5, <1>6, <1>7, StepKinds

(* What the read takes is a beginning of what the script writes in all.     *)
LEMMA ReadAnswersRight ==
  ASSUME IInv, AnswerInv, ReadOutput
  PROVE  /\ IsPrefix(text'[run], Output(run))
         /\ text'[run] = <<>> =>
              ~Executable(run) \/ Output(run) = <<>> \/ Output(run)[1] = "nul"
<1> DEFINE s == script(run).steps
           o == c2p[run]
           t == CString(Received)
<1>0. run \in Runs /\ HasChild(run) /\ pc = "read" /\ text'[run] = t /\ TypeOK
  BY ReadAnswers DEF IInv
<1>1. s \in Seq(Units \cup Inputs) /\ Len(s) \in Nat
  BY <1>0, ChildsRequest, LenProperties
<1>2. text[run] = NoText
  BY <1>0 DEF AnswerInv, Answered, IInv, TypeOK, run
<1>3. /\ child[run].step - 1 \in 0..Len(s) /\ o = Emitted(s)[child[run].step - 1]
  <2>1. child[run].step \in Nat \ {0}
    BY <1>0 DEF TypeOK
  <2>2. child[run].step <= Len(s) + 1 /\ o = Emitted(s)[child[run].step - 1]
    BY <1>0, <1>2 DEF AnswerInv, OutputSoFar
  <2> QED
    BY <1>1, <2>1, <2>2
<1>4. o \in Seq(Units) /\ Output(run) \in Seq(Units) /\ IsPrefix(o, Output(run))
  <2>1. Len(s) \in (child[run].step - 1)..Len(s)
    BY <1>1, <1>3
  <2> QED
    BY <1>0, <1>1, <1>3, <2>1, EmittedGrows DEF Output, TypeOK
<1>5. /\ Received \in Seq(Units) /\ IsPrefix(Received, o)
      /\ o # <<>> => Received # <<>> /\ Received[1] = o[1]
  BY <1>0, ReadIsPrefix
<1>6. /\ t \in Seq(Units) /\ IsPrefix(t, Received)
      /\ t = <<>> => Received = <<>> \/ Received[1] = "nul"
  BY <1>5, CStringIsPrefix
<1> HIDE DEF o, s, t
<1>7. IsPrefix(t, Output(run))
  BY <1>4, <1>5, <1>6, PrefixTransitive
<1>8. ASSUME t = <<>>, o # <<>> PROVE Output(run)[1] = "nul"
  <2>1. Received # <<>> /\ Received[1] = "nul" /\ o[1] = "nul"
    BY <1>5, <1>6, <1>8
  <2>2. 1 \in 1..Len(o)
    BY <1>4, <1>8, EmptySeq
  <2> QED
    BY <1>4, <2>1, <2>2, PrefixElements
<1>9. ASSUME o = <<>> PROVE ~Executable(run) \/ Output(run) = <<>>
  <2>1. ~IsOpen(<<run, "c2p", "write">>)
    BY <1>9 DEF ReadOutput, OutputReady, C2P, o
  <2>2. <<run, "c2p", "write">> \notin EndsAt(run, child[run].at)
    BY <1>0, <2>1 DEF IInv, EndsHeld, IsOpen, TypeOK
  <2>3. child[run].at \in States
    BY <1>0 DEF TypeOK, States
  <2>4. child[run].at = "ended"
    BY <1>0, <2>2, <2>3 DEF EndsAt, States, HasChild
  <2>5. ~Executable(run) \/ child[run].step = Len(s) + 1
    BY <1>0, <1>2, <2>4 DEF AnswerInv, EndedForCause, s
  <2>6. child[run].step = Len(s) + 1 => child[run].step - 1 = Len(s)
    BY <1>1
  <2> QED
    BY <1>3, <1>9, <2>5, <2>6 DEF Output, s
<1> QED
  BY <1>0, <1>7, <1>8, <1>9

LEMMA StepAnswer == ASSUME IInv, AnswerInv, Next PROVE AnswerIsPrefixOfOutput'
<1>0. run \in Nat /\ Runs \subseteq Nat
  BY LenProperties, RunsProperties DEF TypeOK, IInv, run
<1>1. CASE Call
  <2>1. \A r \in Runs : text[r] # NoText => script(r)' = script(r)
    BY <1>0, <1>1, CallEffect DEF AnswerInv, Answered
  <2> QED
    BY <1>1, <2>1 DEF Call, AnswerInv, AnswerIsPrefixOfOutput, Executable, Output
<1> SUFFICES ASSUME ~Call PROVE AnswerIsPrefixOfOutput'
  BY <1>1
<1>2. \A r : Output(r)' = Output(r) /\ Executable(r)' = Executable(r)
  BY OtherEffect DEF Output, Executable
<1>3. CASE ReadOutput
  <2>1. \A o \in Runs : o # run => text'[o] = text[o]
    BY <1>3, ReadAnswers
  <2> QED
    BY <1>2, <1>3, <2>1, ReadAnswersRight DEF AnswerInv, AnswerIsPrefixOfOutput
<1>4. CASE UNCHANGED text
  BY <1>2, <1>4 DEF AnswerInv, AnswerIsPrefixOfOutput
<1> QED
  BY <1>3, <1>4, StepKinds, QuietSteps, DeathSteps, ChildKeeps DEF Fork, IInv

LEMMA StepAnswerInv == IInv /\ AnswerInv /\ [Next]_vars => AnswerInv'
<1>1. CASE UNCHANGED vars
  BY <1>1 DEF vars, AnswerInv, Answered, OutputSoFar, EndedForCause, HasChild,
              AnswerIsPrefixOfOutput, run, script, Executable, Output
<1>2. ASSUME IInv, AnswerInv, Next PROVE AnswerInv'
  BY <1>2, StepAnswered, StepOutputSoFar, StepEnded, StepAnswer DEF AnswerInv
<1> QED
  BY <1>1, <1>2

LEMMA InitAnswerInv == Init => AnswerInv
<1> SUFFICES ASSUME Init PROVE AnswerInv
  OBVIOUS
<1>1. run = 0 /\ \A r \in Runs : ~(r < run) /\ r # run
  BY RunsProperties DEF Init, run
<1> QED
  BY <1>1 DEF Init, AnswerInv, Answered, OutputSoFar, EndedForCause, HasChild,
              AnswerIsPrefixOfOutput

LEMMA AlwaysAnswerInv == Spec => []AnswerInv
BY AlwaysInv, InitAnswerInv, StepAnswerInv, PTL DEF Spec

(* A text that is the whole output, every field of it with its value, does  *)
(* not throw.                                                               *)
LEMMA WholeIsNotRefused ==
  ASSUME NEW t \in Seq(Units), WellFormed(t)
  PROVE  ~Throws(t)
<1> DEFINE h == HeaderPart(t)
<1>0. Len(t) \in Nat /\ DOMAIN t = 1..Len(t)
  BY LenProperties
<1>1. \E k \in 1..(Len(t) + 1) :
        /\ k <= Len(t) => t[k] = "blank"
        /\ \A i \in 1..(k - 1) : t[i] # "blank" /\ h[i] = t[i]
        /\ h \in Seq(Units) /\ Len(h) = k - 1
  <2>1. CASE "blank" \in ToSet(t)
    <3>1. h = UpTo(t, "blank")
      BY <2>1 DEF HeaderPart
    <3> HIDE DEF h
    <3>2. PICK k \in 1..Len(t) :
             /\ t[k] = "blank"
             /\ \A i \in 1..(k - 1) : t[i] # "blank" /\ h[i] = t[i]
             /\ h \in Seq(Units) /\ Len(h) = k - 1
      BY <2>1, <3>1, UpToProperties
    <3> QED
      BY <1>0, <3>2
  <2>2. CASE "blank" \notin ToSet(t)
    <3>1. h = t
      BY <2>2 DEF HeaderPart
    <3>2. \A i \in 1..Len(t) : t[i] # "blank"
      BY <1>0, <2>2 DEF ToSet
    <3>3. Len(t) + 1 \in 1..(Len(t) + 1) /\ Len(t) + 1 - 1 = Len(t) /\ ~(Len(t) + 1 <= Len(t))
      BY <1>0
    <3> HIDE DEF h
    <3> QED
      BY <3>1, <3>2, <3>3
  <2> QED
    BY <2>1, <2>2
<1> HIDE DEF h
<1>2. PICK k \in 1..(Len(t) + 1) :
        /\ k <= Len(t) => t[k] = "blank"
        /\ \A i \in 1..(k - 1) : t[i] # "blank" /\ h[i] = t[i]
        /\ h \in Seq(Units) /\ Len(h) = k - 1
  BY <1>1
<1>3. DOMAIN h = 1..(k - 1) /\ k \in Nat \ {0} /\ k <= Len(t) + 1
  BY <1>0, <1>2, LenProperties
<1>4. ASSUME NEW i \in DOMAIN h, h[i] = "name", i = Len(h) \/ h[i + 1] # "value"
      PROVE  FALSE
  <2>1. i \in Nat \ {0} /\ i <= k - 1 /\ i \in DOMAIN t /\ t[i] = "name"
    BY <1>0, <1>2, <1>3, <1>4
  <2>2. "blank" \notin ToSet(SubSeq(t, 1, i))
    <3>1. \A j \in 1..i : t[j] \in Units /\ t[j] # "blank"
      BY <1>0, <1>2, <1>3, <2>1, ElementOfSeq
    <3>2. /\ SubSeq(t, 1, i) \in Seq(Units)
          /\ Len(SubSeq(t, 1, i)) = IF 1 <= i THEN i - 1 + 1 ELSE 0
          /\ \A j \in 1..(i - 1 + 1) : SubSeq(t, 1, i)[j] = t[1 + j - 1]
      BY <2>1, <3>1, SubSeqProperties
    <3>3. Len(SubSeq(t, 1, i)) = i /\ \A j \in 1..i : SubSeq(t, 1, i)[j] # "blank"
      BY <2>1, <3>1, <3>2
    <3>4. DOMAIN SubSeq(t, 1, i) = 1..i
      BY <3>2, <3>3, LenProperties
    <3> QED
      BY <3>3, <3>4 DEF ToSet
  <2>3. i < Len(t) /\ t[i + 1] = "value"
    BY <2>1, <2>2 DEF WellFormed
  <2>4. CASE i = k - 1
    <3>1. k <= Len(t) /\ i + 1 = k
      BY <1>0, <1>3, <2>1, <2>3, <2>4
    <3> QED
      BY <1>2, <2>3, <3>1
  <2>5. CASE i # k - 1
    <3>1. i + 1 \in 1..(k - 1)
      BY <1>3, <2>1, <2>5
    <3> QED
      BY <1>2, <1>4, <2>3, <2>5, <3>1
  <2> QED
    BY <2>4, <2>5
<1> QED
  BY <1>4 DEF Throws, h

LEMMA RefusedWhenCut == IInv /\ AnswerInv => RefusedOnlyWhenCut
<1> SUFFICES ASSUME IInv, AnswerInv, NEW r \in Runs, text[r] # NoText,
                    Throws(text[r]), WellFormed(Output(r))
             PROVE  Len(text[r]) < Len(Output(r))
  BY DEF RefusedOnlyWhenCut
<1> DEFINE t == text[r]
           o == Output(r)
<1>1. t \in Seq(Units) /\ IsPrefix(t, o)
  BY DEF IInv, TypeOK, AnswerInv, AnswerIsPrefixOfOutput
<1>2. o \in Seq(Units)
  <2>1. r <= run
    BY LenProperties, RunsProperties DEF AnswerInv, Answered, IInv, TypeOK, run
  <2>2. script(r).steps \in Seq(Units \cup Inputs) /\ Len(script(r).steps) \in Nat
    BY <2>1, RequestType, LenProperties DEF IInv
  <2>3. 0 \in 0..Len(script(r).steps) /\ Len(script(r).steps) \in 0..Len(script(r).steps)
    BY <2>2
  <2> QED
    BY <2>2, <2>3, EmittedGrows DEF Output
<1> HIDE DEF t, o
<1>3. Len(t) \in Nat /\ Len(o) \in Nat /\ Len(t) <= Len(o)
  BY <1>1, <1>2, LenProperties DEF IsPrefix
<1>4. ASSUME Len(t) = Len(o) PROVE FALSE
  <2>1. t = o
    BY <1>1, <1>2, <1>4, SubSeqFull DEF IsPrefix
  <2> QED
    BY <1>2, <2>1, WholeIsNotRefused DEF t, o
<1>5. Len(t) < Len(o)
  BY <1>3, <1>4
<1> QED
  BY <1>5 DEF t, o

-------------------------------------------------------------------------------
(* The theorems *)

(* Whatever scripts do, for pipes of any size: every variable has its type, *)
(* no more is written than the body has, and no pipe holds more than it can.*)
THEOREM CGITypeCorrect == Spec => []TypeOK
<1>1. IInv => TypeOK
  BY DEF IInv
<1> QED
  BY <1>1, AlwaysInv, PTL

(* CGI::run closes what it opened: no process keeps an end of the pipes of  *)
(* another request, so an end of input or of output is never held back.     *)
THEOREM PipesCorrect == Spec => []OwnPipesOnly
  BY OwnPipes, AlwaysInv, PTL

(* A script that reads to the end of its input has the whole body of its    *)
(* own request.                                                             *)
THEOREM BodyCorrect == Spec => []ScriptGetsWholeBody
<1>1. IInv => ScriptGetsWholeBody
  BY DEF IInv
<1> QED
  BY <1>1, AlwaysInv, PTL

(* Only a script that ended with a part of the body unread can kill the     *)
(* server by a write.                                                       *)
THEOREM KillsCorrect == Spec => []KilledOnlyByEndedScript
<1>1. IInv => KilledOnlyByEndedScript
  BY DEF IInv, DeadForCause, KilledOnlyByEndedScript
<1> QED
  BY <1>1, AlwaysInv, PTL

(* Server and script wait for each other only with both pipes full: the     *)
(* body larger than a pipe, the script writing before it reads.             *)
THEOREM WaitsCorrect == Spec => []WaitOnlyOnFullPipes
  BY WaitsAreFull, AlwaysInv, PTL

(* A client is answered with what its own script wrote, from the beginning  *)
(* on, and with nothing only where there was nothing to wait for.           *)
THEOREM AnswersCorrect == Spec => []AnswerIsPrefixOfOutput
<1>1. AnswerInv => AnswerIsPrefixOfOutput
  BY DEF AnswerInv
<1> QED
  BY <1>1, AlwaysAnswerInv, PTL

(* The header parser refuses a well-formed output only where the one read() *)
(* has cut it short.                                                        *)
THEOREM RefusalsCorrect == Spec => []RefusedOnlyWhenCut
  BY AlwaysInv, AlwaysAnswerInv, RefusedWhenCut, PTL
=============================================================================
