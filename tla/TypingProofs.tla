------------------------------ MODULE TypingProofs ------------------------------
(***************************************************************************)
(* The safety of Typing for any alphabet, any catalog and any number of    *)
(* jobs: what the buffer holds is before the caret, and a job erases only  *)
(* what is its own.                                                        *)
(*                                                                         *)
(* A job is blamed when someone typed ahead of it or overtook it.  Among   *)
(* the others the queue is a line: an expansion finds everything before it *)
(* settled, nothing behind it moves before it does, and an undo or a       *)
(* change of case stands right behind the job whose text it takes back.    *)
(* So nobody writes between the moment its span was noted and the moment   *)
(* it is erased.                                                           *)
(*                                                                         *)
(* And of FastBuffer for any alphabet and capacities: the ring under that  *)
(* buffer is the text typed so far.                                        *)
(***************************************************************************)
EXTENDS Typing, FastBuffer, SequenceTheorems, TLAPS

Index == 1..Len(jobs)
JobKinds == {"expand", "undo", "recase"}
Stages == {"queued", "begun", "locked", "erased", "pasting", "ending", "done"}
JobType ==
    [kind : JobKinds, of : Nat \ {0}, pc : Stages, span : Seq(Characters), erase : Nat,
     text : Seq(Characters), trigger : Triggers, aborted : BOOLEAN, made : BOOLEAN,
     right : BOOLEAN, blame : SUBSET Causes]
UndoType ==
    [trigger : Triggers, of : Nat \ {0}, length : Nat, fresh : BOOLEAN,
     original : Seq(Characters), current : Seq(Characters), caseFresh : BOOLEAN,
     engaged : BOOLEAN, blame : SUBSET Causes]

(* Types, and what an expansion and the undo state have from its trigger. *)
Typed ==
    /\ window \in Seq(Characters) /\ buffer \in Seq(Letters \cup Blanks)
    /\ instant \in BOOLEAN /\ drift \subseteq Causes
    /\ jobs \in Seq(JobType)
    /\ undo # None => undo \in UndoType
    /\ used \in [Kinds -> Nat]

Sources ==
    /\ \A k \in Index :
          /\ jobs[k].of \in 1..k
          /\ jobs[k].kind = "expand" =>
                jobs[k].of = k /\ jobs[k].text = Expansion[jobs[k].trigger].text
    /\ undo # None =>
          /\ undo.of \in Index
          /\ jobs[undo.of].kind = "expand" /\ jobs[undo.of].pc # "queued"
          /\ undo.trigger = jobs[undo.of].trigger
          /\ undo.original = Expansion[undo.trigger].text

-----------------------------------------------------------------------------
(* The order of the jobs *)

Waiting(k) == jobs[k].pc \in {"queued", "begun"}
Over(k)    == jobs[k].pc \in {"ending", "done"}
(* It will not change the text any more. *)
Settled(k) == Over(k) \/ (jobs[k].pc = "erased" /\ jobs[k].aborted)
InOrder    == {"ahead", "overtaken"}
Clean(k)   == jobs[k].blame \cap InOrder = {}

(* Tasks are taken in the order they were sent, and one job at a time      *)
(* injects.                                                                *)
Served ==
    /\ \A i, k \in Index : i < k /\ jobs[i].pc = "queued" => jobs[k].pc = "queued"
    /\ \A i, k \in Index : Holding(i) /\ Holding(k) => i = k

(* What a job that nobody typed ahead of, and nobody overtook, may rely on. *)
Before ==
    \A k \in Index : jobs[k].kind = "expand" /\ Clean(k) => \A i \in 1..k-1 : Settled(i)
Passed ==
    \A k \in Index : Clean(k) /\ ~Waiting(k) => \A i \in 1..k-1 : Over(i)
Ordered ==
    \A k \in Index : Clean(k) /\ Waiting(k) => \A i \in Index : k < i => Waiting(i)

(* A clean follow-up stands behind its expansion, with only changes of     *)
(* case between the two, all of them clean.                                *)
Chain(of, last) ==
    /\ of \in Index /\ jobs[of].kind = "expand"
    /\ \A p \in of..last :
          Clean(p) /\ (p = of \/ (jobs[p].of = of /\ jobs[p].kind = "recase"))
Chained ==
    \A k \in Index : jobs[k].kind # "expand" /\ Clean(k) =>
        jobs[k].of < k /\ Chain(jobs[k].of, k - 1)
UndoClean == undo # None /\ undo.blame \cap InOrder = {}
UndoChained == UndoClean => Chain(undo.of, Len(jobs))
Newest ==
    \A k \in Index : jobs[k].kind = "expand" /\ Clean(k) /\ jobs[k].pc = "queued" =>
        undo = None /\ k = Len(jobs)

(* Once there is something in the buffer, whatever is still at work was    *)
(* typed ahead of.                                                         *)
Quiet ==
    buffer # <<>> /\ "ahead" \notin drift => undo = None /\ \A k \in Index : Settled(k)
TypedAhead ==
    buffer # <<>> =>
        /\ undo # None => "ahead" \in undo.blame
        /\ \A k \in Index : Settled(k) \/ "ahead" \in jobs[k].blame

-----------------------------------------------------------------------------
(* The text before the caret *)

ToInject(k) == jobs[k].pc \in {"queued", "begun", "locked"}

(* What job k is about to erase, or will find once the job before it is    *)
(* over.                                                                   *)
TriggerStands ==
    \A k \in Index : jobs[k].kind = "expand" /\ jobs[k].blame = {} /\ ToInject(k) =>
        jobs[k].erase = Len(jobs[k].span) /\ EndsIn(window, jobs[k].span)
OutputStands ==
    \A k \in Index : jobs[k].kind # "expand" /\ jobs[k].blame = {} /\ ToInject(k) =>
        /\ jobs[k].erase = Len(jobs[k].span)
        /\ IF Over(k - 1) THEN EndsIn(window, jobs[k].span)
                          ELSE jobs[k].span = jobs[k-1].text
UndoStands ==
    undo # None /\ undo.blame = {} =>
        /\ undo.length = Len(undo.current)
        /\ IF Over(Len(jobs)) THEN EndsIn(window, undo.current)
                              ELSE undo.current = jobs[Len(jobs)].text

Line  == Served /\ Before /\ Passed /\ Ordered /\ Chained /\ UndoChained /\ Newest
Keys  == Quiet /\ TypedAhead
Text  == /\ TriggerStands /\ OutputStands /\ UndoStands
         /\ BufferIsSuffix /\ ErasesOwnTrigger /\ ErasesOwnOutput
IInv  == Typed /\ Sources /\ Line /\ Keys /\ Text

-----------------------------------------------------------------------------
(* Sequences *)

LEMMA FunctionIsSeq ==
    ASSUME NEW S, NEW n \in Nat, NEW f \in [1..n -> S]
    PROVE  f \in Seq(S) /\ Len(f) = n
  BY SeqDef

LEMMA LastNProperties ==
    ASSUME NEW S, NEW s \in Seq(S), NEW n \in Nat
    PROVE  /\ LastN(s, n) \in Seq(S)
           /\ n <= Len(s) => Len(LastN(s, n)) = n
           /\ Len(LastN(s, n)) <= Len(s)
           /\ \A i \in 1..Len(LastN(s, n)) :
                 LastN(s, n)[i] = s[Len(s) - Len(LastN(s, n)) + i]
  <1>1. CASE n >= Len(s)
    BY <1>1, LenProperties DEF LastN
  <1>2. CASE n < Len(s)
    <2>1. Len(s) \in Nat /\ \A i \in 1..Len(s) : s[i] \in S
      BY LenProperties, ElementOfSeq
    <2>2. \A i \in Len(s) - n + 1 .. Len(s) : s[i] \in S
      BY <2>1, <1>2
    <2> DEFINE t == SubSeq(s, Len(s) - n + 1, Len(s))
    <2>3. /\ t \in Seq(S) /\ Len(t) = n
          /\ \A i \in 1..n : t[i] = s[Len(s) - n + i]
      BY <2>1, <2>2, <1>2, SubSeqProperties, Z3
    <2>4. LastN(s, n) = t
      BY <1>2, <2>1 DEF LastN
    <2> QED  BY <2>1, <2>3, <2>4, <1>2
  <1> QED  BY <1>1, <1>2, LenProperties

LEMMA DropLastProperties ==
    ASSUME NEW S, NEW s \in Seq(S), NEW n \in Nat
    PROVE  /\ DropLast(s, n) \in Seq(S)
           /\ Len(DropLast(s, n)) = IF n >= Len(s) THEN 0 ELSE Len(s) - n
           /\ \A i \in 1..Len(DropLast(s, n)) : DropLast(s, n)[i] = s[i]
  <1>1. CASE n >= Len(s)
    BY <1>1, EmptySeq, LenProperties DEF DropLast
  <1>2. CASE n < Len(s)
    <2>1. Len(s) \in Nat /\ \A i \in 1..Len(s) - n : s[i] \in S
      BY LenProperties, ElementOfSeq
    <2> DEFINE t == SubSeq(s, 1, Len(s) - n)
    <2>2. /\ t \in Seq(S) /\ Len(t) = Len(s) - n
          /\ \A i \in 1..Len(s) - n : t[i] = s[i]
      BY <2>1, <1>2, SubSeqProperties, Z3
    <2>3. DropLast(s, n) = t
      BY <1>2, <2>1 DEF DropLast
    <2> QED  BY <2>1, <2>2, <2>3, <1>2
  <1> QED  BY <1>1, <1>2, LenProperties

(* EndsIn, character by character. *)
LEMMA EndsInPointwise ==
    ASSUME NEW S, NEW s \in Seq(S), NEW t \in Seq(S)
    PROVE  EndsIn(s, t) <=>
               /\ Len(t) <= Len(s)
               /\ \A i \in 1..Len(t) : t[i] = s[Len(s) - Len(t) + i]
  <1>1. Len(s) \in Nat /\ Len(t) \in Nat
    BY LenProperties
  <1>2. SUFFICES ASSUME Len(t) <= Len(s)
                 PROVE  LastN(s, Len(t)) = t <=>
                           \A i \in 1..Len(t) : t[i] = s[Len(s) - Len(t) + i]
    BY DEF EndsIn
  <1> DEFINE u == LastN(s, Len(t))
  <1>3. u \in Seq(S) /\ Len(u) = Len(t)
        /\ \A i \in 1..Len(t) : u[i] = s[Len(s) - Len(t) + i]
    BY <1>1, <1>2, LastNProperties
  <1>4. u = t <=> \A i \in 1..Len(t) : u[i] = t[i]
    <2> HIDE DEF u
    <2> QED  BY <1>3, SeqEqual
  <1> HIDE DEF u
  <1>5. u = t <=> \A i \in 1..Len(t) : t[i] = s[Len(s) - Len(t) + i]
    BY <1>3, <1>4
  <1> QED  BY <1>5 DEF u

LEMMA EndsInEmpty ==
    ASSUME NEW S, NEW s \in Seq(S) PROVE EndsIn(s, <<>>)
  <1>1. <<>> \in Seq(S) /\ Len(<<>>) = 0 /\ Len(s) \in Nat
    BY EmptySeq, LenProperties
  <1>2. Len(<<>>) <= Len(s) /\ 1..Len(<<>>) = {}
    BY <1>1
  <1> DEFINE t == <<>>
  <1>3. t \in Seq(S)
    BY <1>1
  <1> HIDE DEF t
  <1>4. EndsIn(s, t) <=> /\ Len(t) <= Len(s)
                         /\ \A i \in 1..Len(t) : t[i] = s[Len(s) - Len(t) + i]
    BY <1>3, EndsInPointwise
  <1> QED  BY <1>2, <1>4 DEF t

LEMMA EndsInAppend ==
    ASSUME NEW S, NEW s \in Seq(S), NEW t \in Seq(S), NEW c \in S, EndsIn(s, t)
    PROVE  EndsIn(Append(s, c), Append(t, c))
  <1>1. Len(s) \in Nat /\ Len(t) \in Nat /\ Len(t) <= Len(s)
        /\ \A i \in 1..Len(t) : t[i] = s[Len(s) - Len(t) + i]
    BY LenProperties, EndsInPointwise
  <1> DEFINE u == Append(s, c)
             v == Append(t, c)
  <1>2. /\ u \in Seq(S) /\ Len(u) = Len(s) + 1
        /\ v \in Seq(S) /\ Len(v) = Len(t) + 1
        /\ \A i \in 1..Len(s) : u[i] = s[i]
        /\ \A i \in 1..Len(t) : v[i] = t[i]
        /\ u[Len(s) + 1] = c /\ v[Len(t) + 1] = c
    BY AppendProperties
  <1> HIDE DEF u, v
  <1>3. ASSUME NEW i \in 1..Len(v) PROVE v[i] = u[Len(u) - Len(v) + i]
    <2>1. CASE i = Len(t) + 1
      BY <2>1, <1>1, <1>2
    <2>2. CASE i \in 1..Len(t)
      <3>1. Len(s) - Len(t) + i \in 1..Len(s) /\ Len(u) - Len(v) + i = Len(s) - Len(t) + i
        BY <2>2, <1>1, <1>2
      <3>2. v[i] = t[i] /\ t[i] = s[Len(s) - Len(t) + i]
        BY <2>2, <1>1, <1>2
      <3>3. u[Len(s) - Len(t) + i] = s[Len(s) - Len(t) + i]
        BY <3>1, <1>2
      <3> QED  BY <3>1, <3>2, <3>3
    <2> QED  BY <2>1, <2>2, <1>1, <1>2
  <1>4. EndsIn(u, v)
    <2>1. Len(v) <= Len(u)
      BY <1>1, <1>2
    <2>2. u \in Seq(S) /\ v \in Seq(S)
      BY <1>2
    <2> QED  BY <2>1, <2>2, <1>3, EndsInPointwise
  <1> QED  BY <1>4 DEF u, v

LEMMA EndsInDropLast ==
    ASSUME NEW S, NEW s \in Seq(S), NEW t \in Seq(S), EndsIn(s, t)
    PROVE  EndsIn(DropLast(s, 1), DropLast(t, 1))
  <1>1. Len(s) \in Nat /\ Len(t) \in Nat /\ Len(t) <= Len(s)
        /\ \A i \in 1..Len(t) : t[i] = s[Len(s) - Len(t) + i]
    BY LenProperties, EndsInPointwise
  <1> DEFINE u == DropLast(s, 1)
             v == DropLast(t, 1)
  <1>2. /\ u \in Seq(S) /\ Len(u) = IF 1 >= Len(s) THEN 0 ELSE Len(s) - 1
        /\ \A i \in 1..Len(u) : u[i] = s[i]
        /\ v \in Seq(S) /\ Len(v) = IF 1 >= Len(t) THEN 0 ELSE Len(t) - 1
        /\ \A i \in 1..Len(v) : v[i] = t[i]
    BY DropLastProperties
  <1> HIDE DEF u, v
  <1>3. ASSUME NEW i \in 1..Len(v) PROVE v[i] = u[Len(u) - Len(v) + i]
    <2>1. Len(v) = Len(t) - 1 /\ Len(u) = Len(s) - 1
      BY <1>1, <1>2
    <2>2. i \in 1..Len(t) /\ Len(u) - Len(v) + i = Len(s) - Len(t) + i
          /\ Len(u) - Len(v) + i \in 1..Len(u)
      BY <2>1, <1>1
    <2>3. v[i] = t[i] /\ t[i] = s[Len(s) - Len(t) + i]
      BY <2>2, <1>1, <1>2
    <2> QED  BY <2>2, <2>3, <1>2
  <1>4. EndsIn(u, v)
    <2>1. Len(v) <= Len(u)
      BY <1>1, <1>2
    <2>2. u \in Seq(S) /\ v \in Seq(S)
      BY <1>2
    <2> QED  BY <2>1, <2>2, <1>3, EndsInPointwise
  <1> QED  BY <1>4 DEF u, v

LEMMA EndsInLastN ==
    ASSUME NEW S, NEW s \in Seq(S), NEW t \in Seq(S), NEW n \in Nat, EndsIn(s, t)
    PROVE  EndsIn(s, LastN(t, n))
  <1>1. Len(s) \in Nat /\ Len(t) \in Nat /\ Len(t) <= Len(s)
        /\ \A i \in 1..Len(t) : t[i] = s[Len(s) - Len(t) + i]
    BY LenProperties, EndsInPointwise
  <1> DEFINE u == LastN(t, n)
  <1>2. /\ u \in Seq(S) /\ Len(u) <= Len(t)
        /\ \A i \in 1..Len(u) : u[i] = t[Len(t) - Len(u) + i]
    <2>1. LastN(t, n) \in Seq(S)
      BY LastNProperties
    <2>2. Len(LastN(t, n)) <= Len(t)
      BY LastNProperties
    <2>3. \A i \in 1..Len(LastN(t, n)) : LastN(t, n)[i] = t[Len(t) - Len(LastN(t, n)) + i]
      BY LastNProperties
    <2> QED  BY <2>1, <2>2, <2>3
  <1>3. Len(u) \in Nat
    BY <1>2, LenProperties
  <1> HIDE DEF u
  <1>4. ASSUME NEW i \in 1..Len(u) PROVE u[i] = s[Len(s) - Len(u) + i]
    <2>1. Len(t) - Len(u) + i \in 1..Len(t)
      BY <1>1, <1>2, <1>3
    <2>2. t[Len(t) - Len(u) + i] = s[Len(s) - Len(t) + (Len(t) - Len(u) + i)]
      BY <2>1, <1>1
    <2>3. Len(s) - Len(t) + (Len(t) - Len(u) + i) = Len(s) - Len(u) + i
      BY <1>1, <1>3
    <2> QED  BY <2>2, <2>3, <1>2
  <1>5. EndsIn(s, u)
    <2>1. Len(u) <= Len(s)
      BY <1>1, <1>2, <1>3
    <2>2. u \in Seq(S)
      BY <1>2
    <2>3. EndsIn(s, u) <=> /\ Len(u) <= Len(s)
                           /\ \A i \in 1..Len(u) : u[i] = s[Len(s) - Len(u) + i]
      BY <2>2, EndsInPointwise
    <2> QED  BY <2>1, <2>3, <1>4
  <1> QED  BY <1>5 DEF u

LEMMA EndsInConcat ==
    ASSUME NEW S, NEW s \in Seq(S), NEW t \in Seq(S)
    PROVE  EndsIn(s \o t, t)
  <1> DEFINE u == s \o t
  <1>1. /\ u \in Seq(S) /\ Len(u) = Len(s) + Len(t)
        /\ \A i \in 1..Len(u) : u[i] = IF i <= Len(s) THEN s[i] ELSE t[i - Len(s)]
        /\ Len(s) \in Nat /\ Len(t) \in Nat
    BY ConcatProperties, LenProperties
  <1> HIDE DEF u
  <1>2. ASSUME NEW i \in 1..Len(t) PROVE t[i] = u[Len(u) - Len(t) + i]
    <2>1. /\ Len(s) + i \in 1..Len(u) /\ ~(Len(s) + i <= Len(s))
          /\ Len(u) - Len(t) + i = Len(s) + i /\ Len(s) + i - Len(s) = i
      BY <1>1
    <2>2. u[Len(s) + i] = t[Len(s) + i - Len(s)]
      BY <1>1, <2>1
    <2> QED  BY <2>1, <2>2
  <1>3. EndsIn(u, t)
    <2>1. Len(t) <= Len(u) /\ u \in Seq(S)
      BY <1>1
    <2> QED  BY <2>1, <1>2, EndsInPointwise
  <1> QED  BY <1>3 DEF u

-----------------------------------------------------------------------------
(* What a step leaves of the jobs *)

Fixed(js, k) ==
    /\ js[k].kind = jobs[k].kind /\ js[k].of = jobs[k].of
    /\ js[k].span = jobs[k].span /\ js[k].erase = jobs[k].erase
    /\ js[k].text = jobs[k].text /\ js[k].trigger = jobs[k].trigger
    /\ jobs[k].blame \subseteq js[k].blame
    /\ jobs[k].aborted => js[k].aborted

(* By a key: where it stands, and what it did; what was erased is aborted. *)
Kept(js, k) ==
    /\ Fixed(js, k)
    /\ js[k].pc = jobs[k].pc /\ js[k].right = jobs[k].right
    /\ js[k].pc = "erased" => js[k].aborted

Ahead(js, k) == js[k].blame = jobs[k].blame \cup
                    (IF k \in Unsettled(jobs) THEN {"ahead"} ELSE {})

LEMMA BlamedJob ==
    ASSUME NEW b \in JobType, NEW cause, NEW d, d = [b EXCEPT !.blame = @ \cup {cause}]
    PROVE  /\ d.kind = b.kind /\ d.of = b.of /\ d.pc = b.pc /\ d.span = b.span
           /\ d.erase = b.erase /\ d.text = b.text /\ d.trigger = b.trigger
           /\ d.aborted = b.aborted /\ d.right = b.right
           /\ d.blame = b.blame \cup {cause}
  BY DEF JobType

LEMMA BlameProperties ==
    ASSUME NEW js \in Seq(JobType), NEW S, NEW cause \in Causes
    PROVE  /\ Blame(js, S, cause) \in Seq(JobType)
           /\ Len(Blame(js, S, cause)) = Len(js)
           /\ \A k \in 1..Len(js) :
                 Blame(js, S, cause)[k] =
                    IF k \in S THEN [js[k] EXCEPT !.blame = @ \cup {cause}] ELSE js[k]
  <1>1. Len(js) \in Nat /\ DOMAIN js = 1..Len(js) /\ \A k \in 1..Len(js) : js[k] \in JobType
    BY LenProperties, ElementOfSeq
  <1>2. Blame(js, S, cause) =
            [k \in 1..Len(js) |-> IF k \in S THEN [js[k] EXCEPT !.blame = @ \cup {cause}]
                                             ELSE js[k]]
    BY <1>1 DEF Blame
  <1>3. ASSUME NEW k \in 1..Len(js)
        PROVE  [js[k] EXCEPT !.blame = @ \cup {cause}] \in JobType
    BY <1>1 DEF JobType
  <1>4. Blame(js, S, cause) \in [1..Len(js) -> JobType]
    BY <1>1, <1>2, <1>3
  <1> QED  BY <1>1, <1>2, <1>4, FunctionIsSeq

LEMMA PressedJobs ==
    ASSUME jobs \in Seq(JobType)
    PROVE  /\ Pressed(jobs) \in Seq(JobType)
           /\ Len(Pressed(jobs)) = Len(jobs)
           /\ \A k \in Index : /\ Kept(Pressed(jobs), k)
                               /\ Pressed(jobs)[k].blame = jobs[k].blame
  <1>1. Len(jobs) \in Nat /\ DOMAIN jobs = Index /\ \A k \in Index : jobs[k] \in JobType
    BY LenProperties, ElementOfSeq DEF Index
  <1>2. Pressed(jobs) = [k \in Index |-> IF jobs[k].pc \in {"locked", "erased", "pasting"}
                                         THEN [jobs[k] EXCEPT !.aborted = TRUE] ELSE jobs[k]]
    BY <1>1 DEF Pressed
  <1>3. ASSUME NEW k \in Index
        PROVE  [jobs[k] EXCEPT !.aborted = TRUE] \in JobType
    BY <1>1 DEF JobType
  <1>4. Pressed(jobs) \in [1..Len(jobs) -> JobType]
    BY <1>1, <1>2, <1>3 DEF Index
  <1>5. Pressed(jobs) \in Seq(JobType) /\ Len(Pressed(jobs)) = Len(jobs)
    BY <1>1, <1>4, FunctionIsSeq
  <1>6. ASSUME NEW k \in Index
        PROVE  Kept(Pressed(jobs), k) /\ Pressed(jobs)[k].blame = jobs[k].blame
    <2>1. jobs[k] \in JobType
      BY <1>1
    <2>2. Pressed(jobs)[k] = IF jobs[k].pc \in {"locked", "erased", "pasting"}
                             THEN [jobs[k] EXCEPT !.aborted = TRUE] ELSE jobs[k]
      BY <1>2
    <2> QED  BY <2>1, <2>2 DEF Kept, Fixed, JobType
  <1> QED  BY <1>5, <1>6

LEMMA DisturbedJobs ==
    ASSUME jobs \in Seq(JobType)
    PROVE  /\ Disturbed \in Seq(JobType)
           /\ Len(Disturbed) = Len(jobs)
           /\ \A k \in Index : Kept(Disturbed, k) /\ Ahead(Disturbed, k)
  <1> DEFINE ps == Pressed(jobs)
  <1>1. /\ ps \in Seq(JobType) /\ Len(ps) = Len(jobs)
        /\ \A k \in Index : Kept(ps, k) /\ ps[k].blame = jobs[k].blame
    BY PressedJobs
  <1>2. Disturbed = Blame(ps, Unsettled(jobs), "ahead")
    BY DEF Disturbed
  <1> HIDE DEF ps
  <1>3. "ahead" \in Causes
    BY DEF Causes
  <1>4. /\ Disturbed \in Seq(JobType) /\ Len(Disturbed) = Len(jobs)
        /\ \A k \in Index : Disturbed[k] =
              IF k \in Unsettled(jobs) THEN [ps[k] EXCEPT !.blame = @ \cup {"ahead"}]
                                       ELSE ps[k]
    BY <1>1, <1>2, <1>3, BlameProperties DEF Index
  <1>5. ASSUME NEW k \in Index PROVE Kept(Disturbed, k) /\ Ahead(Disturbed, k)
    <2>1. ps[k] \in JobType
      BY <1>1, ElementOfSeq DEF Index
    <2>2. Kept(ps, k) /\ ps[k].blame = jobs[k].blame
      BY <1>1
    <2>3. Disturbed[k] = IF k \in Unsettled(jobs)
                         THEN [ps[k] EXCEPT !.blame = @ \cup {"ahead"}] ELSE ps[k]
      BY <1>4
    <2>4. CASE k \in Unsettled(jobs)
      <3>1. /\ Disturbed[k].kind = ps[k].kind /\ Disturbed[k].of = ps[k].of
            /\ Disturbed[k].pc = ps[k].pc /\ Disturbed[k].span = ps[k].span
            /\ Disturbed[k].erase = ps[k].erase /\ Disturbed[k].text = ps[k].text
            /\ Disturbed[k].trigger = ps[k].trigger
            /\ Disturbed[k].aborted = ps[k].aborted /\ Disturbed[k].right = ps[k].right
            /\ Disturbed[k].blame = ps[k].blame \cup {"ahead"}
        BY <2>1, <2>3, <2>4, BlamedJob
      <3> QED  BY <2>2, <2>4, <3>1 DEF Kept, Fixed, Ahead
    <2>5. CASE k \notin Unsettled(jobs)
      <3>1. Disturbed[k] = ps[k]
        BY <2>3, <2>5
      <3> QED  BY <2>2, <2>5, <3>1 DEF Kept, Fixed, Ahead
    <2> QED  BY <2>4, <2>5
  <1> QED  BY <1>4, <1>5

(* By a worker: one job moves on. *)
OnlyMoves(j) ==
    /\ jobs' \in Seq(JobType) /\ Len(jobs') = Len(jobs)
    /\ \A k \in Index :
          /\ Fixed(jobs', k) /\ jobs'[k].aborted = jobs[k].aborted
          /\ k # j => jobs'[k].pc = jobs[k].pc /\ jobs'[k].right = jobs[k].right

Taken(j) ==
    /\ jobs[j].pc = "queued" /\ jobs'[j].pc = "begun"
    /\ \A i \in 1..j-1 : jobs[i].pc # "queued"
Locked(j) ==
    /\ jobs[j].pc = "begun" /\ jobs'[j].pc = "locked"
    /\ \A k \in Index : ~Holding(k)
    /\ \A i \in 1..j-1, k \in Index :
          jobs[i].pc = "begun" /\ i <= k => "overtaken" \in jobs'[k].blame
Injects(j) ==
    /\ Holding(j) /\ jobs'[j].pc \in {"erased", "pasting", "ending", "done"}
Ends(j) == jobs[j].pc = "ending" /\ jobs'[j].pc = "done"

(* Who stands before a clean job stays clean. *)
Inherits ==
    \A p, k \in Index : p <= k /\ Clean(p) /\ Clean(k)' => Clean(p)'

SameBlame == \A k \in Index : jobs'[k].blame = jobs[k].blame

LEMMA StepMoves ==
    ASSUME jobs \in Seq(JobType), NEW j \in Index, NEW b \in JobType,
           b.kind = jobs[j].kind, b.of = jobs[j].of, b.span = jobs[j].span,
           b.erase = jobs[j].erase, b.text = jobs[j].text, b.trigger = jobs[j].trigger,
           b.blame = jobs[j].blame, b.aborted = jobs[j].aborted,
           jobs' = [jobs EXCEPT ![j] = b]
    PROVE  /\ OnlyMoves(j) /\ SameBlame /\ Inherits
           /\ jobs'[j] = b
  <1>1. /\ jobs' \in Seq(JobType) /\ Len(jobs') = Len(jobs)
        /\ \A k \in Index : jobs'[k] = IF k = j THEN b ELSE jobs[k]
    BY ExceptSeq DEF Index
  <1>2. ASSUME NEW k \in Index
        PROVE  /\ Fixed(jobs', k) /\ jobs'[k].aborted = jobs[k].aborted
               /\ jobs'[k].blame = jobs[k].blame
               /\ k # j => jobs'[k].pc = jobs[k].pc /\ jobs'[k].right = jobs[k].right
    BY <1>1 DEF Fixed
  <1>3. jobs'[j] = b
    BY <1>1
  <1> QED  BY <1>1, <1>2, <1>3 DEF OnlyMoves, SameBlame, Inherits, Clean

(* The jobs after a job's own change and the blame it lays on others. *)
LEMMA StepBlames ==
    ASSUME jobs \in Seq(JobType), NEW j \in Index, NEW b \in JobType,
           b.kind = jobs[j].kind, b.of = jobs[j].of, b.span = jobs[j].span,
           b.erase = jobs[j].erase, b.text = jobs[j].text, b.trigger = jobs[j].trigger,
           b.blame = jobs[j].blame, b.aborted = jobs[j].aborted, b.right = jobs[j].right,
           NEW bs \in Seq(JobType), Len(bs) = Len(jobs),
           \A k \in Index : bs[k] = IF k = j THEN b ELSE jobs[k],
           NEW S, NEW cause \in Causes, jobs' = Blame(bs, S, cause)
    PROVE  /\ OnlyMoves(j) /\ jobs'[j].pc = b.pc /\ jobs'[j].right = b.right
           /\ \A k \in Index :
                 /\ k \in S => jobs'[k].blame = jobs[k].blame \cup {cause}
                 /\ k \notin S => jobs'[k].blame = jobs[k].blame
  <1>1. /\ bs \in Seq(JobType) /\ Len(bs) = Len(jobs)
        /\ \A k \in Index : bs[k] = IF k = j THEN b ELSE jobs[k]
    OBVIOUS
  <1>2. jobs' = Blame(bs, S, cause)
    OBVIOUS
  <1>3. /\ jobs' \in Seq(JobType) /\ Len(jobs') = Len(jobs)
        /\ \A k \in Index : jobs'[k] =
              IF k \in S THEN [bs[k] EXCEPT !.blame = @ \cup {cause}] ELSE bs[k]
    <2>1. jobs' \in Seq(JobType) /\ Len(jobs') = Len(bs)
      BY <1>1, <1>2, BlameProperties
    <2>2. \A k \in 1..Len(bs) : jobs'[k] =
              IF k \in S THEN [bs[k] EXCEPT !.blame = @ \cup {cause}] ELSE bs[k]
      BY <1>1, <1>2, BlameProperties
    <2> QED  BY <1>1, <2>1, <2>2 DEF Index
  <1>4. ASSUME NEW k \in Index
        PROVE  /\ Fixed(jobs', k) /\ jobs'[k].aborted = jobs[k].aborted
               /\ k \in S => jobs'[k].blame = jobs[k].blame \cup {cause}
               /\ k \notin S => jobs'[k].blame = jobs[k].blame
               /\ jobs'[k].pc = bs[k].pc /\ jobs'[k].right = bs[k].right
    <2>1. bs[k] \in JobType
      BY <1>1, ElementOfSeq DEF Index
    <2>2. /\ bs[k].kind = jobs[k].kind /\ bs[k].of = jobs[k].of /\ bs[k].span = jobs[k].span
          /\ bs[k].erase = jobs[k].erase /\ bs[k].text = jobs[k].text
          /\ bs[k].trigger = jobs[k].trigger
          /\ bs[k].blame = jobs[k].blame /\ bs[k].aborted = jobs[k].aborted
          /\ bs[k].right = jobs[k].right
      BY <1>1
    <2>3. jobs'[k] = IF k \in S THEN [bs[k] EXCEPT !.blame = @ \cup {cause}] ELSE bs[k]
      BY <1>3
    <2>4. CASE k \in S
      <3>1. /\ jobs'[k].kind = bs[k].kind /\ jobs'[k].of = bs[k].of
            /\ jobs'[k].pc = bs[k].pc /\ jobs'[k].span = bs[k].span
            /\ jobs'[k].erase = bs[k].erase /\ jobs'[k].text = bs[k].text
            /\ jobs'[k].trigger = bs[k].trigger
            /\ jobs'[k].aborted = bs[k].aborted /\ jobs'[k].right = bs[k].right
            /\ jobs'[k].blame = bs[k].blame \cup {cause}
        BY <2>1, <2>3, <2>4, BlamedJob
      <3> QED  BY <2>2, <2>4, <3>1 DEF Fixed
    <2>5. CASE k \notin S
      <3>1. jobs'[k] = bs[k]
        BY <2>3, <2>5
      <3> QED  BY <2>2, <2>5, <3>1 DEF Fixed
    <2> QED  BY <2>4, <2>5
  <1>5. /\ bs[j].pc = b.pc /\ bs[j].right = b.right
        /\ \A k \in Index : k # j => bs[k].pc = jobs[k].pc /\ bs[k].right = jobs[k].right
    BY <1>1
  <1> QED  BY <1>3, <1>4, <1>5 DEF OnlyMoves

LEMMA BeginMoves ==
    ASSUME jobs \in Seq(JobType), NEW j \in Index, Begin(j)
    PROVE  OnlyMoves(j) /\ Taken(j) /\ SameBlame /\ Inherits /\ jobs'[j].right = jobs[j].right
  <1> DEFINE b == [jobs[j] EXCEPT !.pc = "begun"]
  <1>1. jobs[j] \in JobType
    BY ElementOfSeq DEF Index
  <1>2. b \in JobType
    BY <1>1 DEF JobType, Stages
  <1>3. jobs' = [jobs EXCEPT ![j] = b]
    BY DEF Begin, Take, Step
  <1>4. /\ b.kind = jobs[j].kind /\ b.of = jobs[j].of /\ b.span = jobs[j].span
        /\ b.erase = jobs[j].erase /\ b.text = jobs[j].text /\ b.trigger = jobs[j].trigger
        /\ b.blame = jobs[j].blame /\ b.aborted = jobs[j].aborted
        /\ b.right = jobs[j].right /\ b.pc = "begun"
    BY <1>1 DEF JobType
  <1> HIDE DEF b
  <1>5. OnlyMoves(j) /\ SameBlame /\ Inherits /\ jobs'[j] = b
    BY <1>2, <1>3, <1>4, StepMoves
  <1> QED  BY <1>4, <1>5 DEF Taken, Begin, Take

LEMMA ReplaceMoves ==
    ASSUME jobs \in Seq(JobType), NEW j \in Index, Replace(j)
    PROVE  /\ OnlyMoves(j) /\ SameBlame /\ Inherits
           /\ Injects(j) /\ jobs'[j].pc \in {"ending", "done"}
           /\ jobs'[j].right = (Erased(j) = jobs[j].span)
  <1> DEFINE b == [jobs[j] EXCEPT !.pc = After(j), !.made = TRUE,
                                     !.right = (Erased(j) = jobs[j].span)]
  <1>1. jobs[j] \in JobType
    BY ElementOfSeq DEF Index
  <1>2. b \in JobType
    BY <1>1 DEF JobType, Stages, After
  <1>3. jobs' = [jobs EXCEPT ![j] = b]
    BY DEF Replace
  <1>4. /\ b.kind = jobs[j].kind /\ b.of = jobs[j].of /\ b.span = jobs[j].span
        /\ b.erase = jobs[j].erase /\ b.text = jobs[j].text /\ b.trigger = jobs[j].trigger
        /\ b.blame = jobs[j].blame /\ b.aborted = jobs[j].aborted
        /\ b.right = (Erased(j) = jobs[j].span) /\ b.pc = After(j)
    BY <1>1 DEF JobType
  <1> HIDE DEF b
  <1>5. OnlyMoves(j) /\ SameBlame /\ Inherits /\ jobs'[j] = b
    BY <1>2, <1>3, <1>4, StepMoves
  <1> QED  BY <1>4, <1>5 DEF Replace, Injects, Holding, After

LEMMA EraseMoves ==
    ASSUME jobs \in Seq(JobType), NEW j \in Index, Erase(j)
    PROVE  /\ OnlyMoves(j) /\ SameBlame /\ Inherits
           /\ Injects(j) /\ jobs'[j].pc = "erased"
           /\ jobs'[j].right = (Erased(j) = jobs[j].span)
  <1> DEFINE b == [jobs[j] EXCEPT !.pc = "erased",
                                     !.right = (Erased(j) = jobs[j].span)]
  <1>1. jobs[j] \in JobType
    BY ElementOfSeq DEF Index
  <1>2. b \in JobType
    BY <1>1 DEF JobType, Stages
  <1>3. jobs' = [jobs EXCEPT ![j] = b]
    BY DEF Erase
  <1>4. /\ b.kind = jobs[j].kind /\ b.of = jobs[j].of /\ b.span = jobs[j].span
        /\ b.erase = jobs[j].erase /\ b.text = jobs[j].text /\ b.trigger = jobs[j].trigger
        /\ b.blame = jobs[j].blame /\ b.aborted = jobs[j].aborted
        /\ b.right = (Erased(j) = jobs[j].span) /\ b.pc = "erased"
    BY <1>1 DEF JobType
  <1> HIDE DEF b
  <1>5. OnlyMoves(j) /\ SameBlame /\ Inherits /\ jobs'[j] = b
    BY <1>2, <1>3, <1>4, StepMoves
  <1> QED  BY <1>4, <1>5 DEF Erase, Injects, Holding

LEMMA CheckAbortMoves ==
    ASSUME jobs \in Seq(JobType), NEW j \in Index, CheckAbort(j)
    PROVE  /\ OnlyMoves(j) /\ SameBlame /\ Inherits
           /\ Injects(j) /\ jobs'[j].pc = "pasting"
           /\ jobs'[j].right = jobs[j].right
  <1> DEFINE b == [jobs[j] EXCEPT !.pc = "pasting"]
  <1>1. jobs[j] \in JobType
    BY ElementOfSeq DEF Index
  <1>2. b \in JobType
    BY <1>1 DEF JobType, Stages
  <1>3. jobs' = [jobs EXCEPT ![j] = b]
    BY DEF CheckAbort, Step
  <1>4. /\ b.kind = jobs[j].kind /\ b.of = jobs[j].of /\ b.span = jobs[j].span
        /\ b.erase = jobs[j].erase /\ b.text = jobs[j].text /\ b.trigger = jobs[j].trigger
        /\ b.blame = jobs[j].blame /\ b.aborted = jobs[j].aborted
        /\ b.right = jobs[j].right /\ b.pc = "pasting"
    BY <1>1 DEF JobType
  <1> HIDE DEF b
  <1>5. OnlyMoves(j) /\ SameBlame /\ Inherits /\ jobs'[j] = b
    BY <1>2, <1>3, <1>4, StepMoves
  <1> QED  BY <1>4, <1>5 DEF CheckAbort, Injects, Holding

LEMMA PasteMoves ==
    ASSUME jobs \in Seq(JobType), NEW j \in Index, Paste(j)
    PROVE  /\ OnlyMoves(j) /\ SameBlame /\ Inherits
           /\ Injects(j) /\ jobs'[j].pc \in {"ending", "done"}
           /\ jobs'[j].right = jobs[j].right
  <1> DEFINE b == [jobs[j] EXCEPT !.pc = After(j), !.made = TRUE]
  <1>1. jobs[j] \in JobType
    BY ElementOfSeq DEF Index
  <1>2. b \in JobType
    BY <1>1 DEF JobType, Stages, After
  <1>3. jobs' = [jobs EXCEPT ![j] = b]
    BY DEF Paste
  <1>4. /\ b.kind = jobs[j].kind /\ b.of = jobs[j].of /\ b.span = jobs[j].span
        /\ b.erase = jobs[j].erase /\ b.text = jobs[j].text /\ b.trigger = jobs[j].trigger
        /\ b.blame = jobs[j].blame /\ b.aborted = jobs[j].aborted
        /\ b.right = jobs[j].right /\ b.pc = After(j)
    BY <1>1 DEF JobType
  <1> HIDE DEF b
  <1>5. OnlyMoves(j) /\ SameBlame /\ Inherits /\ jobs'[j] = b
    BY <1>2, <1>3, <1>4, StepMoves
  <1> QED  BY <1>4, <1>5 DEF Paste, Injects, Holding, After

LEMMA RefreshMoves ==
    ASSUME jobs \in Seq(JobType), NEW j \in Index, Refresh(j)
    PROVE  /\ OnlyMoves(j) /\ SameBlame /\ Inherits
           /\ Ends(j)
           /\ jobs'[j].right = jobs[j].right
  <1> DEFINE b == [jobs[j] EXCEPT !.pc = "done"]
  <1>1. jobs[j] \in JobType
    BY ElementOfSeq DEF Index
  <1>2. b \in JobType
    BY <1>1 DEF JobType, Stages
  <1>3. jobs' = [jobs EXCEPT ![j] = b]
    BY DEF Refresh, Step
  <1>4. /\ b.kind = jobs[j].kind /\ b.of = jobs[j].of /\ b.span = jobs[j].span
        /\ b.erase = jobs[j].erase /\ b.text = jobs[j].text /\ b.trigger = jobs[j].trigger
        /\ b.blame = jobs[j].blame /\ b.aborted = jobs[j].aborted
        /\ b.right = jobs[j].right /\ b.pc = "done"
    BY <1>1 DEF JobType
  <1> HIDE DEF b
  <1>5. OnlyMoves(j) /\ SameBlame /\ Inherits /\ jobs'[j] = b
    BY <1>2, <1>3, <1>4, StepMoves
  <1> QED  BY <1>4, <1>5 DEF Refresh, Ends

LEMMA LockMoves ==
    ASSUME jobs \in Seq(JobType), NEW j \in Index, Lock(j)
    PROVE  /\ OnlyMoves(j) /\ Inherits
           /\ Locked(j) /\ jobs'[j].right = jobs[j].right
           /\ \/ undo' = undo /\ SameBlame
              \/ undo' = Tainted("overtaken")
  <1> DEFINE b == [jobs[j] EXCEPT !.pc = "locked"]
             passed == {k \in 1..j-1 : jobs[k].pc = "begun"}
             since  == {k \in DOMAIN jobs : \E p \in passed : p <= k}
  <1>1. jobs[j] \in JobType /\ DOMAIN jobs = Index
    BY ElementOfSeq, LenProperties DEF Index
  <1>2. b \in JobType
    BY <1>1 DEF JobType, Stages
  <1>3. /\ jobs' = Blame([jobs EXCEPT ![j] = b], since, "overtaken")
        /\ undo' = IF passed = {} THEN undo ELSE Tainted("overtaken")
    BY DEF Lock
  <1>4. /\ b.kind = jobs[j].kind /\ b.of = jobs[j].of /\ b.span = jobs[j].span
        /\ b.erase = jobs[j].erase /\ b.text = jobs[j].text /\ b.trigger = jobs[j].trigger
        /\ b.blame = jobs[j].blame /\ b.aborted = jobs[j].aborted
        /\ b.right = jobs[j].right /\ b.pc = "locked"
    BY <1>1 DEF JobType
  <1> HIDE DEF b
  <1>5. since = {k \in Index : \E p \in passed : p <= k}
    BY <1>1
  <1>6. "overtaken" \in Causes
    BY DEF Causes
  <1> HIDE DEF since
  <1>7. /\ OnlyMoves(j) /\ jobs'[j].pc = "locked" /\ jobs'[j].right = jobs[j].right
        /\ \A k \in Index :
              /\ k \in since => jobs'[k].blame = jobs[k].blame \cup {"overtaken"}
              /\ k \notin since => jobs'[k].blame = jobs[k].blame
    <2> DEFINE bs == [jobs EXCEPT ![j] = b]
    <2>1. jobs' = Blame(bs, since, "overtaken")
      BY <1>3
    <2>2. /\ bs \in Seq(JobType) /\ Len(bs) = Len(jobs)
          /\ \A k \in Index : bs[k] = IF k = j THEN b ELSE jobs[k]
      BY <1>2, ExceptSeq DEF Index
    <2> HIDE DEF bs
    <2>3. OnlyMoves(j) /\ jobs'[j].pc = b.pc /\ jobs'[j].right = b.right
      BY <1>2, <1>4, <1>6, <2>1, <2>2, StepBlames
    <2>4. \A k \in Index :
              /\ k \in since => jobs'[k].blame = jobs[k].blame \cup {"overtaken"}
              /\ k \notin since => jobs'[k].blame = jobs[k].blame
      BY <1>2, <1>4, <1>6, <2>1, <2>2, StepBlames
    <2> QED  BY <1>4, <2>3, <2>4
  <1>8. Inherits
    <2> SUFFICES ASSUME NEW p \in Index, NEW k \in Index, p <= k, Clean(p), Clean(k)'
                 PROVE  Clean(p)'
      BY DEF Inherits
    <2>1. k \notin since
      <3>1. k \in since => jobs'[k].blame = jobs[k].blame \cup {"overtaken"}
        BY <1>7
      <3>2. "overtaken" \notin jobs'[k].blame
        BY DEF Clean, InOrder
      <3> QED  BY <3>1, <3>2
    <2>2. p \notin since
      BY <1>5, <2>1 DEF Index
    <2> QED  BY <2>2, <1>7 DEF Clean
  <1>9. Locked(j)
    <2>1. jobs[j].pc = "begun" /\ \A k \in Index : ~Holding(k)
      BY <1>1 DEF Lock
    <2>2. ASSUME NEW i \in 1..j-1, NEW k \in Index, jobs[i].pc = "begun", i <= k
          PROVE  "overtaken" \in jobs'[k].blame
      BY <2>2, <1>5, <1>7
    <2> QED  BY <2>1, <2>2, <1>7 DEF Locked
  <1>10. passed = {} => SameBlame
    BY <1>5, <1>7 DEF SameBlame
  <1> QED  BY <1>3, <1>7, <1>8, <1>9, <1>10

LEMMA CutShortMoves ==
    ASSUME jobs \in Seq(JobType), NEW j \in Index, CutShort(j)
    PROVE  /\ OnlyMoves(j) /\ Inherits /\ Injects(j)
           /\ jobs'[j].pc \in {"ending", "done"} /\ jobs'[j].right = jobs[j].right
           /\ \A k \in Index :
                 jobs'[k].blame = IF k # j /\ jobs[k].of = jobs[j].of
                                  THEN jobs[k].blame \cup {"cut"} ELSE jobs[k].blame
  <1> DEFINE b == [jobs[j] EXCEPT !.pc = After(j)]
             same == {k \in DOMAIN jobs : k # j /\ jobs[k].of = jobs[j].of}
  <1>1. jobs[j] \in JobType /\ DOMAIN jobs = Index
    BY ElementOfSeq, LenProperties DEF Index
  <1>2. b \in JobType
    BY <1>1 DEF JobType, Stages, After
  <1>3. jobs' = Blame([jobs EXCEPT ![j] = b], same, "cut")
    BY DEF CutShort
  <1>4. /\ b.kind = jobs[j].kind /\ b.of = jobs[j].of /\ b.span = jobs[j].span
        /\ b.erase = jobs[j].erase /\ b.text = jobs[j].text /\ b.trigger = jobs[j].trigger
        /\ b.blame = jobs[j].blame /\ b.aborted = jobs[j].aborted
        /\ b.right = jobs[j].right /\ b.pc = After(j)
    BY <1>1 DEF JobType
  <1> HIDE DEF b
  <1>5. same = {k \in Index : k # j /\ jobs[k].of = jobs[j].of}
    BY <1>1
  <1>6. "cut" \in Causes
    BY DEF Causes
  <1> HIDE DEF same
  <1>7. /\ OnlyMoves(j) /\ jobs'[j].pc = After(j) /\ jobs'[j].right = jobs[j].right
        /\ \A k \in Index :
              /\ k \in same => jobs'[k].blame = jobs[k].blame \cup {"cut"}
              /\ k \notin same => jobs'[k].blame = jobs[k].blame
    <2> DEFINE bs == [jobs EXCEPT ![j] = b]
    <2>1. jobs' = Blame(bs, same, "cut")
      BY <1>3
    <2>2. /\ bs \in Seq(JobType) /\ Len(bs) = Len(jobs)
          /\ \A k \in Index : bs[k] = IF k = j THEN b ELSE jobs[k]
      BY <1>2, ExceptSeq DEF Index
    <2> HIDE DEF bs
    <2>3. OnlyMoves(j) /\ jobs'[j].pc = b.pc /\ jobs'[j].right = b.right
      BY <1>2, <1>4, <1>6, <2>1, <2>2, StepBlames
    <2>4. \A k \in Index :
              /\ k \in same => jobs'[k].blame = jobs[k].blame \cup {"cut"}
              /\ k \notin same => jobs'[k].blame = jobs[k].blame
      BY <1>2, <1>4, <1>6, <2>1, <2>2, StepBlames
    <2> QED  BY <1>4, <2>3, <2>4
  <1>8. Inherits
    BY <1>7 DEF Inherits, Clean, InOrder
  <1>9. Injects(j) /\ jobs'[j].pc \in {"ending", "done"}
    BY <1>7 DEF CutShort, Injects, Holding, After
  <1>10. \A k \in Index :
            jobs'[k].blame = IF k # j /\ jobs[k].of = jobs[j].of
                             THEN jobs[k].blame \cup {"cut"} ELSE jobs[k].blame
    BY <1>5, <1>7
  <1> QED  BY <1>7, <1>8, <1>9, <1>10

Moves(j) ==
    /\ OnlyMoves(j) /\ Inherits
    /\ Taken(j) \/ Locked(j) \/ Injects(j) \/ Ends(j)

LEMMA WorkMoves ==
    ASSUME jobs \in Seq(JobType), NEW j \in Index, Work(j)
    PROVE  Moves(j)
  <1>1. CASE Begin(j)
    BY <1>1, BeginMoves DEF Moves
  <1>2. CASE Lock(j)
    BY <1>2, LockMoves DEF Moves
  <1>3. CASE Replace(j)
    BY <1>3, ReplaceMoves DEF Moves
  <1>4. CASE Erase(j)
    BY <1>4, EraseMoves DEF Moves
  <1>5. CASE CheckAbort(j)
    BY <1>5, CheckAbortMoves DEF Moves
  <1>6. CASE CutShort(j)
    BY <1>6, CutShortMoves DEF Moves
  <1>7. CASE Paste(j)
    BY <1>7, PasteMoves DEF Moves
  <1>8. CASE Refresh(j)
    BY <1>8, RefreshMoves DEF Moves
  <1> QED  BY <1>1, <1>2, <1>3, <1>4, <1>5, <1>6, <1>7, <1>8 DEF Work

-----------------------------------------------------------------------------
(* The line under a worker's step *)

(* A job once over, settled, or no longer waiting remains so, and a clean  *)
(* job was clean before.                                                   *)
LEMMA MovesMonotonic ==
    ASSUME jobs \in Seq(JobType), NEW j \in Index, Moves(j), NEW k \in Index
    PROVE  /\ Clean(k)' => Clean(k)
           /\ Over(k) => Over(k)'
           /\ Settled(k) => Settled(k)' \/ (k = j /\ jobs[k].pc = "erased" /\ ~Over(k)')
           /\ Waiting(k)' => Waiting(k)
           /\ jobs'[k].kind = jobs[k].kind /\ jobs'[k].of = jobs[k].of
           /\ k # j => jobs'[k].pc = jobs[k].pc
  <1>1. /\ Fixed(jobs', k) /\ jobs'[k].aborted = jobs[k].aborted
        /\ k # j => jobs'[k].pc = jobs[k].pc
    BY DEF Moves, OnlyMoves
  <1>2. Taken(j) \/ Locked(j) \/ Injects(j) \/ Ends(j)
    BY DEF Moves
  <1>3. Clean(k)' => Clean(k)
    BY <1>1 DEF Fixed, Clean
  <1>4. CASE k # j
    BY <1>1, <1>3, <1>4 DEF Fixed, Over, Settled, Waiting
  <1>5. CASE k = j
    BY <1>1, <1>2, <1>3, <1>5
       DEF Fixed, Over, Settled, Waiting, Taken, Locked, Injects, Ends, Holding
  <1> QED  BY <1>4, <1>5

LEMMA ServedMoves ==
    ASSUME jobs \in Seq(JobType), NEW j \in Index, Moves(j), Served
    PROVE  Served'
  <1>1. Index' = Index /\ \A k \in Index : k # j => jobs'[k].pc = jobs[k].pc
    BY DEF Moves, OnlyMoves, Index
  <1>2. Taken(j) \/ Locked(j) \/ Injects(j) \/ Ends(j)
    BY DEF Moves
  <1>3. jobs'[j].pc # "queued"
    BY <1>2 DEF Taken, Locked, Injects, Ends
  <1>4. ASSUME NEW i \in Index, NEW k \in Index, i < k, jobs'[i].pc = "queued"
        PROVE  jobs'[k].pc = "queued"
    <2>1. i # j /\ jobs[i].pc = "queued" /\ jobs[k].pc = "queued"
      BY <1>1, <1>3, <1>4 DEF Served
    <2>2. CASE k = j
      <3>1. Taken(j)
        BY <2>1, <2>2, <1>2 DEF Locked, Injects, Ends, Holding
      <3>2. i \in 1..j-1
        BY <1>4, <2>2 DEF Index
      <3> QED  BY <2>1, <3>1, <3>2 DEF Taken
    <2> QED  BY <2>1, <2>2, <1>1
  <1>5. ASSUME NEW i \in Index, NEW k \in Index, Holding(i)', Holding(k)'
        PROVE  i = k
    <2>1. CASE Locked(j)
      BY <2>1, <1>1, <1>5 DEF Locked, Holding
    <2>2. CASE Injects(j)
      <3>1. \A l \in Index : Holding(l)' => Holding(l)
        BY <2>2, <1>1 DEF Injects, Holding
      <3> QED  BY <3>1, <1>5 DEF Served
    <2>3. CASE Taken(j) \/ Ends(j)
      <3>1. \A l \in Index : Holding(l)' => Holding(l)
        BY <2>3, <1>1 DEF Taken, Ends, Holding
      <3> QED  BY <3>1, <1>5 DEF Served
    <2> QED  BY <1>2, <2>1, <2>2, <2>3
  <1> QED  BY <1>1, <1>4, <1>5 DEF Served

LEMMA PassedMoves ==
    ASSUME jobs \in Seq(JobType), NEW j \in Index, Moves(j), Served, Passed
    PROVE  Passed'
  <1> SUFFICES ASSUME NEW k \in Index, Clean(k)', ~Waiting(k)', NEW i \in 1..k-1
               PROVE  Over(i)'
    BY DEF Passed, Moves, OnlyMoves, Index
  <1>1. i \in Index /\ i < k
    BY DEF Index
  <1>2. Clean(k) /\ (Over(i) => Over(i)')
    BY <1>1, MovesMonotonic
  <1>3. CASE ~Waiting(k)
    BY <1>2, <1>3 DEF Passed
  <1>4. CASE Waiting(k)
    <2>1. k = j /\ Locked(j)
      BY <1>4, MovesMonotonic
         DEF Moves, Taken, Locked, Injects, Ends, Waiting, Holding
    <2>2. jobs[i].pc # "begun"
      <3>1. i \in 1..j-1 /\ i <= k
        BY <1>1, <2>1 DEF Index
      <3>2. jobs[i].pc = "begun" => "overtaken" \in jobs'[k].blame
        BY <2>1, <3>1 DEF Locked
      <3>3. "overtaken" \notin jobs'[k].blame
        BY DEF Clean, InOrder
      <3> QED  BY <3>2, <3>3
    <2>3. jobs[i].pc # "queued"
      BY <1>1, <2>1 DEF Served, Locked
    <2>4. ~Holding(i)
      BY <1>1, <2>1 DEF Locked
    <2>5. jobs[i].pc \in Stages
      <3>1. jobs[i] \in JobType
        BY <1>1, ElementOfSeq DEF Index
      <3> QED  BY <3>1 DEF JobType
    <2>6. Over(i)
      BY <2>2, <2>3, <2>4, <2>5 DEF Over, Holding, Stages
    <2> QED  BY <2>6, <1>2
  <1> QED  BY <1>3, <1>4

LEMMA OrderedMoves ==
    ASSUME jobs \in Seq(JobType), NEW j \in Index, Moves(j), Served, Ordered
    PROVE  Ordered'
  <1> SUFFICES ASSUME NEW k \in Index, Clean(k)', Waiting(k)', NEW i \in Index, k < i
               PROVE  Waiting(i)'
    BY DEF Ordered, Moves, OnlyMoves, Index
  <1>1. Clean(k) /\ Waiting(k)
    BY MovesMonotonic
  <1>2. Waiting(i)
    BY <1>1 DEF Ordered
  <1>3. CASE i # j
    BY <1>2, <1>3, MovesMonotonic DEF Waiting
  <1>4. CASE i = j
    <2>1. Taken(j) \/ Locked(j)
      BY <1>2, <1>4 DEF Moves, Injects, Ends, Waiting, Holding
    <2>2. CASE Taken(j)
      BY <1>4, <2>2 DEF Taken, Waiting
    <2>3. CASE Locked(j)
      <3>1. jobs[k].pc # "begun"
        <4>1. jobs[k].pc = "begun" => "overtaken" \in jobs'[k].blame
          BY <1>4, <2>3 DEF Locked, Index
        <4> QED  BY <4>1 DEF Clean, InOrder
      <3>2. jobs[k].pc # "queued"
        BY <1>4, <2>3 DEF Served, Locked
      <3> QED  BY <3>1, <3>2, <1>1 DEF Waiting
    <2> QED  BY <2>1, <2>2, <2>3
  <1> QED  BY <1>3, <1>4

LEMMA BeforeMoves ==
    ASSUME jobs \in Seq(JobType), NEW j \in Index, Moves(j), Before,
           jobs[j].pc = "erased" /\ jobs[j].aborted => Over(j)'
    PROVE  Before'
  <1> SUFFICES ASSUME NEW k \in Index, jobs'[k].kind = "expand", Clean(k)', NEW i \in 1..k-1
               PROVE  Settled(i)'
    BY DEF Before, Moves, OnlyMoves, Index
  <1>1. i \in Index
    BY DEF Index
  <1>2. jobs[k].kind = "expand" /\ Clean(k)
    BY MovesMonotonic
  <1>3. Settled(i)
    BY <1>2 DEF Before
  <1>4. Settled(i)' \/ (i = j /\ jobs[i].pc = "erased" /\ ~Over(i)')
    BY <1>1, <1>3, MovesMonotonic
  <1>5. CASE i = j /\ jobs[i].pc = "erased" /\ ~Over(i)'
    BY <1>3, <1>5 DEF Settled, Over
  <1> QED  BY <1>4, <1>5

(* The chain behind a follow-up is not disturbed. *)
LEMMA ChainKept ==
    ASSUME jobs \in Seq(JobType), jobs' \in Seq(JobType), Len(jobs) <= Len(jobs'),
           \A p \in Index : jobs'[p].kind = jobs[p].kind /\ jobs'[p].of = jobs[p].of,
           NEW of \in Index, NEW last \in Nat, last <= Len(jobs), Chain(of, last),
           \A p \in of..last : Clean(p)'
    PROVE  Chain(of, last)'
  <1>1. Len(jobs) \in Nat /\ Len(jobs') \in Nat
    BY LenProperties
  <1>2. of \in Index' /\ \A p \in of..last : p \in Index
    BY <1>1 DEF Index
  <1>3. jobs'[of].kind = "expand"
    BY DEF Chain
  <1>4. \A p \in of..last :
            Clean(p)' /\ (p = of \/ (jobs'[p].of = of /\ jobs'[p].kind = "recase"))
    BY <1>2 DEF Chain
  <1> QED  BY <1>2, <1>3, <1>4 DEF Chain

LEMMA ChainedMoves ==
    ASSUME jobs \in Seq(JobType), NEW j \in Index, Moves(j), Chained
    PROVE  Chained'
  <1>1. Index' = Index /\ Len(jobs) \in Nat
    BY LenProperties DEF Moves, OnlyMoves, Index
  <1>2. SUFFICES ASSUME NEW k \in Index, jobs'[k].kind # "expand", Clean(k)'
                 PROVE  (jobs[k].of < k /\ Chain(jobs[k].of, k - 1))'
    BY <1>1 DEF Chained
  <1>3. jobs[k].kind # "expand" /\ Clean(k) /\ jobs'[k].of = jobs[k].of
    BY <1>2, MovesMonotonic
  <1>4. jobs[k].of < k /\ Chain(jobs[k].of, k - 1) /\ jobs[k].of \in Index
    BY <1>3 DEF Chained, Chain
  <1>5. PICK of \in Index : of = jobs[k].of
    BY <1>4
  <1>6. \A p \in of..k-1 : p \in Index /\ p <= k /\ Clean(p)
    BY <1>1, <1>4, <1>5 DEF Index, Chain
  <1>7. \A p \in of..k-1 : Clean(p)'
    BY <1>2, <1>6 DEF Moves, Inherits
  <1>8. k - 1 \in Nat /\ k - 1 <= Len(jobs)
    BY <1>1 DEF Index
  <1>9. Chain(of, k - 1)'
    <2>1. /\ jobs' \in Seq(JobType) /\ Len(jobs) <= Len(jobs')
          /\ \A p \in Index : jobs'[p].kind = jobs[p].kind /\ jobs'[p].of = jobs[p].of
      BY <1>1 DEF Moves, OnlyMoves, Fixed
    <2>2. Chain(of, k - 1)
      BY <1>4, <1>5
    <2> QED  BY <1>7, <1>8, <2>1, <2>2, ChainKept
  <1> QED  BY <1>3, <1>4, <1>5, <1>9

-----------------------------------------------------------------------------
(* The line under a key *)

(* A job that a key sends: an expansion is clean only if nothing was at    *)
(* work, and a follow-up continues the undo state.                         *)
Sent(k) ==
    /\ jobs'[k].pc = "queued"
    /\ \/ /\ jobs'[k].kind = "expand"
          /\ Clean(k)' => Unsettled(jobs) = {}
       \/ /\ jobs'[k].kind \in {"undo", "recase"}
          /\ undo # None /\ jobs'[k].of = undo.of /\ jobs'[k].blame = undo.blame
          /\ SameBlame

Keyed ==
    /\ jobs' \in Seq(JobType)
    /\ \A k \in Index : Kept(jobs', k)
    /\ SameBlame \/ \A k \in Index : Ahead(jobs', k)
    /\ \/ Len(jobs') = Len(jobs)
       \/ \E k \in Nat : k = Len(jobs) + 1 /\ Len(jobs') = k /\ Sent(k)

LEMMA KeyedMonotonic ==
    ASSUME jobs \in Seq(JobType), Keyed, NEW k \in Index
    PROVE  /\ Clean(k)' => Clean(k)
           /\ Settled(k) => Settled(k)'
           /\ k \notin Unsettled(jobs) => Settled(k)'
           /\ jobs'[k].pc = jobs[k].pc
           /\ jobs'[k].kind = jobs[k].kind /\ jobs'[k].of = jobs[k].of
  <1>1. Kept(jobs', k)
    BY DEF Keyed
  <1>2. jobs[k].pc \in Stages /\ DOMAIN jobs = Index
    <2>1. jobs[k] \in JobType
      BY ElementOfSeq DEF Index
    <2> QED  BY <2>1, LenProperties DEF JobType, Index
  <1>3. Clean(k)' => Clean(k)
    BY <1>1 DEF Kept, Fixed, Clean
  <1>4. k \notin Unsettled(jobs) => Over(k) \/ jobs[k].pc = "erased"
    BY <1>2 DEF Unsettled, Over, Stages
  <1> QED  BY <1>1, <1>3, <1>4 DEF Kept, Fixed, Settled, Over

LEMMA KeyedIndex ==
    ASSUME jobs \in Seq(JobType), Keyed, NEW k \in Index'
    PROVE  k \in Index \/ (k = Len(jobs) + 1 /\ Len(jobs') = Len(jobs) + 1 /\ Sent(k))
  BY LenProperties DEF Keyed, Index

LEMMA ServedKeyed ==
    ASSUME jobs \in Seq(JobType), Keyed, Served
    PROVE  Served'
  <1>1. ASSUME NEW i \in Index', NEW k \in Index', i < k, jobs'[i].pc = "queued"
        PROVE  jobs'[k].pc = "queued"
    <2>1. CASE k \in Index
      <3>1. i \in Index
        BY <1>1, <2>1 DEF Index
      <3> QED  BY <1>1, <2>1, <3>1, KeyedMonotonic DEF Served
    <2>2. CASE k \notin Index
      BY <2>2, KeyedIndex DEF Sent
    <2> QED  BY <2>1, <2>2
  <1>2. ASSUME NEW k \in Index', Holding(k)'
        PROVE  k \in Index /\ Holding(k)
    <2>1. k \in Index
      BY <1>2, KeyedIndex DEF Sent, Holding
    <2> QED  BY <1>2, <2>1, KeyedMonotonic DEF Holding
  <1> QED  BY <1>1, <1>2 DEF Served

LEMMA BeforeKeyed ==
    ASSUME jobs \in Seq(JobType), Keyed, Before
    PROVE  Before'
  <1> SUFFICES ASSUME NEW k \in Index', jobs'[k].kind = "expand", Clean(k)', NEW i \in 1..k-1
               PROVE  Settled(i)'
    BY DEF Before
  <1>1. CASE k \in Index
    <2>1. i \in Index
      BY <1>1 DEF Index
    <2>2. Settled(i)
      BY <1>1, KeyedMonotonic DEF Before
    <2> QED  BY <2>1, <2>2, KeyedMonotonic
  <1>2. CASE k \notin Index
    <2>1. k = Len(jobs) + 1 /\ Unsettled(jobs) = {}
      BY <1>2, KeyedIndex DEF Sent
    <2>2. i \in Index
      BY <2>1, LenProperties DEF Index
    <2> QED  BY <2>1, <2>2, KeyedMonotonic
  <1> QED  BY <1>1, <1>2

LEMMA PassedKeyed ==
    ASSUME jobs \in Seq(JobType), Keyed, Passed
    PROVE  Passed'
  <1> SUFFICES ASSUME NEW k \in Index', Clean(k)', ~Waiting(k)', NEW i \in 1..k-1
               PROVE  Over(i)'
    BY DEF Passed
  <1>1. k \in Index
    BY KeyedIndex DEF Sent, Waiting
  <1>2. i \in Index
    BY <1>1 DEF Index
  <1>3. Clean(k) /\ ~Waiting(k)
    BY <1>1, KeyedMonotonic DEF Waiting
  <1>4. Over(i)
    BY <1>1, <1>3 DEF Passed
  <1> QED  BY <1>2, <1>4, KeyedMonotonic DEF Over

LEMMA OrderedKeyed ==
    ASSUME jobs \in Seq(JobType), Keyed, Ordered
    PROVE  Ordered'
  <1> SUFFICES ASSUME NEW k \in Index', Clean(k)', Waiting(k)', NEW i \in Index', k < i
               PROVE  Waiting(i)'
    BY DEF Ordered
  <1>1. CASE i \in Index
    <2>1. k \in Index
      BY <1>1 DEF Index
    <2>2. Clean(k) /\ Waiting(k)
      BY <2>1, KeyedMonotonic DEF Waiting
    <2>3. Waiting(i)
      BY <1>1, <2>1, <2>2 DEF Ordered
    <2> QED  BY <1>1, <2>3, KeyedMonotonic DEF Waiting
  <1>2. CASE i \notin Index
    BY <1>2, KeyedIndex DEF Sent, Waiting
  <1> QED  BY <1>1, <1>2

(* Who stands before a clean job stays clean under a key, too. *)
LEMMA KeyedInherits ==
    ASSUME jobs \in Seq(JobType), Keyed, Passed
    PROVE  Inherits
  <1> SUFFICES ASSUME NEW p \in Index, NEW k \in Index, p <= k, Clean(p), Clean(k)'
               PROVE  Clean(p)'
    BY DEF Inherits
  <1>1. CASE SameBlame
    BY <1>1 DEF SameBlame, Clean
  <1>2. CASE p = k
    BY <1>2
  <1>3. CASE p # k /\ \A l \in Index : Ahead(jobs', l)
    <2>1. DOMAIN jobs = Index /\ Clean(k)
      BY LenProperties, KeyedMonotonic DEF Index
    <2>2. k \notin Unsettled(jobs)
      <3>1. "ahead" \notin jobs'[k].blame
        BY DEF Clean, InOrder
      <3> QED  BY <1>3, <3>1 DEF Ahead
    <2>3. ~Waiting(k)
      BY <2>1, <2>2 DEF Unsettled, Waiting
    <2>4. Over(p)
      <3>1. p \in 1..k-1
        BY <1>3 DEF Index
      <3> QED  BY <2>1, <2>3, <3>1 DEF Passed
    <2>5. p \notin Unsettled(jobs)
      BY <2>4 DEF Unsettled, Over
    <2>6. jobs'[p].blame = jobs[p].blame
      BY <1>3, <2>5 DEF Ahead
    <2> QED  BY <2>6 DEF Clean
  <1> QED  BY <1>1, <1>2, <1>3 DEF Keyed

LEMMA ChainedKeyed ==
    ASSUME jobs \in Seq(JobType), Keyed, Passed, Chained, UndoChained
    PROVE  Chained'
  <1>1. Len(jobs) \in Nat /\ Len(jobs') \in Nat /\ Len(jobs) <= Len(jobs')
    BY LenProperties DEF Keyed
  <1>2. /\ jobs' \in Seq(JobType)
        /\ \A p \in Index : jobs'[p].kind = jobs[p].kind /\ jobs'[p].of = jobs[p].of
    BY KeyedMonotonic DEF Keyed
  <1>3. SUFFICES ASSUME NEW k \in Index', jobs'[k].kind # "expand", Clean(k)'
                 PROVE  (jobs[k].of < k /\ Chain(jobs[k].of, k - 1))'
    BY DEF Chained
  <1>4. CASE k \in Index
    <2>1. jobs[k].kind # "expand" /\ Clean(k) /\ jobs'[k].of = jobs[k].of
      BY <1>3, <1>4, KeyedMonotonic
    <2>2. jobs[k].of < k /\ Chain(jobs[k].of, k - 1) /\ jobs[k].of \in Index
      BY <1>4, <2>1 DEF Chained, Chain
    <2>3. PICK of \in Index : of = jobs[k].of
      BY <2>2
    <2>4. \A p \in of..k-1 : p \in Index /\ p <= k /\ Clean(p)
      BY <1>1, <1>4, <2>2, <2>3 DEF Index, Chain
    <2>5. \A p \in of..k-1 : Clean(p)'
      BY <1>3, <1>4, <2>4, KeyedInherits DEF Inherits
    <2>6. k - 1 \in Nat /\ k - 1 <= Len(jobs) /\ Chain(of, k - 1)
      BY <1>1, <1>4, <2>2, <2>3 DEF Index
    <2>7. Chain(of, k - 1)'
      BY <1>1, <1>2, <2>5, <2>6, ChainKept
    <2> QED  BY <2>1, <2>2, <2>3, <2>7
  <1>5. CASE k \notin Index
    <2>1. /\ k = Len(jobs) + 1 /\ jobs'[k].of = undo.of /\ jobs'[k].blame = undo.blame
          /\ undo # None /\ SameBlame
      BY <1>3, <1>5, KeyedIndex DEF Sent
    <2>2. UndoClean
      BY <1>3, <2>1 DEF UndoClean, Clean
    <2>3. Chain(undo.of, Len(jobs)) /\ undo.of \in Index
      BY <2>2 DEF UndoChained, Chain
    <2>4. PICK of \in Index : of = undo.of
      BY <2>3
    <2>5. PICK last \in Nat : last = Len(jobs)
      BY <1>1
    <2>6. \A p \in of..last : p \in Index /\ Clean(p)
      BY <1>1, <2>3, <2>4, <2>5 DEF Index, Chain
    <2>7. \A p \in of..last : Clean(p)'
      BY <2>1, <2>6 DEF SameBlame, Clean
    <2>8. Chain(of, last)'
      BY <1>1, <1>2, <2>3, <2>4, <2>5, <2>7, ChainKept
    <2>9. k - 1 = last /\ of < k
      BY <1>1, <2>1, <2>5 DEF Index
    <2> QED  BY <2>1, <2>4, <2>8, <2>9
  <1> QED  BY <1>4, <1>5

-----------------------------------------------------------------------------
(* What the keys do *)

JobOf(kind, of, span, erase, text, trigger, blame) ==
    /\ kind \in JobKinds /\ of \in Nat \ {0} /\ span \in Seq(Characters) /\ erase \in Nat
    /\ text \in Seq(Characters) /\ trigger \in Triggers /\ blame \in SUBSET Causes

LEMMA JobTyped ==
    ASSUME NEW kind, NEW of, NEW span, NEW erase, NEW text, NEW trigger, NEW blame,
           JobOf(kind, of, span, erase, text, trigger, blame)
    PROVE  Job(kind, of, span, erase, text, trigger, blame) \in JobType
  BY DEF JobOf, Job, JobType, JobKinds, Stages

LEMMA AppendJob ==
    ASSUME jobs \in Seq(JobType), NEW js \in Seq(JobType), Len(js) = Len(jobs),
           NEW b \in JobType, jobs' = Append(js, b)
    PROVE  /\ jobs' \in Seq(JobType) /\ Len(jobs') = Len(jobs) + 1
           /\ \A k \in Index : jobs'[k] = js[k]
           /\ jobs'[Len(jobs) + 1] = b
  BY AppendProperties DEF Index

(* The jobs a key may leave before it adds one. *)
KeyLeaves(js) ==
    /\ js \in Seq(JobType) /\ Len(js) = Len(jobs)
    /\ \A k \in Index : Kept(js, k)
    /\ \/ \A k \in Index : js[k].blame = jobs[k].blame
       \/ \A k \in Index : Ahead(js, k)

LEMMA PressedLeaves ==
    ASSUME jobs \in Seq(JobType)
    PROVE  KeyLeaves(Pressed(jobs)) /\ KeyLeaves(Disturbed)
  BY PressedJobs, DisturbedJobs DEF KeyLeaves

LEMMA LeavesKeyed ==
    ASSUME jobs \in Seq(JobType), NEW js, KeyLeaves(js), jobs' = js
    PROVE  Keyed /\ Len(jobs') = Len(jobs)
  BY DEF KeyLeaves, Keyed, SameBlame

LEMMA UnsettledLeaves ==
    ASSUME jobs \in Seq(JobType), NEW js, KeyLeaves(js)
    PROVE  Unsettled(js) = Unsettled(jobs) /\ Unsettled(jobs) \subseteq Index
  <1>1. DOMAIN js = Index /\ DOMAIN jobs = Index
    BY LenProperties DEF KeyLeaves, Index
  <1> QED  BY <1>1 DEF Unsettled, KeyLeaves, Kept

(* A key that sends no job. *)
LEMMA DisturbedKeyed ==
    ASSUME jobs \in Seq(JobType), jobs' = Disturbed
    PROVE  /\ Keyed /\ Len(jobs') = Len(jobs)
           /\ \A k \in Index : Ahead(jobs', k)
  BY PressedLeaves, LeavesKeyed, DisturbedJobs

(* A match. *)
LEMMA ExpandKeyed ==
    ASSUME jobs \in Seq(JobType), drift \subseteq Causes, TextsAssumption,
           NEW js, KeyLeaves(js), NEW m, m.trigger \in Triggers, m.span \in Seq(Characters),
           Expand(m, js)
    PROVE  /\ Keyed /\ Len(jobs') = Len(jobs) + 1
           /\ \A k \in Index : jobs'[k] = js[k]
           /\ LET b == jobs'[Len(jobs) + 1] IN
                 /\ b.kind = "expand" /\ b.of = Len(jobs) + 1 /\ b.pc = "queued"
                 /\ b.span = m.span /\ b.erase = Len(m.trigger) /\ b.trigger = m.trigger
                 /\ b.text = Expansion[m.trigger].text /\ b.right = TRUE
                 /\ b.blame = {} => drift = {} /\ Len(m.span) = Len(m.trigger)
                 /\ drift \subseteq b.blame
  <1> DEFINE blame == drift \cup (IF Unsettled(js) = {} THEN {} ELSE {"ahead"})
                            \cup (IF Len(m.span) = Len(m.trigger) THEN {} ELSE {"blanks"})
             text == Expansion[m.trigger].text
             b == Job("expand", Len(js) + 1, m.span, Len(m.trigger), text, m.trigger, blame)
  <1>1. jobs' = Append(js, b)
    BY DEF Expand
  <1>2. Len(js) = Len(jobs) /\ js \in Seq(JobType) /\ Len(jobs) \in Nat
    BY LenProperties DEF KeyLeaves
  <1>3. blame \in SUBSET Causes
    BY DEF Causes
  <1>4. text \in Seq(Characters) /\ Len(m.trigger) \in Nat
    BY LenProperties DEF TextsAssumption
  <1>5. /\ b.kind = "expand" /\ b.of = Len(jobs) + 1 /\ b.pc = "queued"
        /\ b.span = m.span /\ b.erase = Len(m.trigger) /\ b.trigger = m.trigger
        /\ b.text = text /\ b.right = TRUE /\ b.blame = blame
    BY <1>2 DEF Job
  <1>6. b \in JobType
    <2> HIDE DEF text, blame
    <2>1. JobOf("expand", Len(js) + 1, m.span, Len(m.trigger), text, m.trigger, blame)
      BY <1>2, <1>3, <1>4 DEF JobOf, JobKinds
    <2> QED  BY <2>1, JobTyped
  <1>7. blame = {} => drift = {} /\ Len(m.span) = Len(m.trigger)
    OBVIOUS
  <1>8. "ahead" \notin blame => Unsettled(jobs) = {}
    BY UnsettledLeaves
  <1>9. drift \subseteq blame
    OBVIOUS
  <1> HIDE DEF b, blame
  <1>10. /\ jobs' \in Seq(JobType) /\ Len(jobs') = Len(jobs) + 1
         /\ \A k \in Index : jobs'[k] = js[k]
         /\ jobs'[Len(jobs) + 1] = b
    BY <1>1, <1>2, <1>6, AppendJob
  <1>11. Keyed
    <2>1. PICK n \in Nat : n = Len(jobs) + 1
      BY <1>2
    <2>2. Sent(n)
      <3>1. jobs'[n].blame = blame /\ jobs'[n].pc = "queued" /\ jobs'[n].kind = "expand"
        BY <1>5, <1>10, <2>1
      <3>2. Clean(n)' => "ahead" \notin blame
        BY <3>1 DEF Clean, InOrder
      <3> QED  BY <1>8, <3>1, <3>2 DEF Sent
    <2>3. \A k \in Index : Kept(jobs', k)
      BY <1>10 DEF KeyLeaves, Kept, Fixed
    <2>4. SameBlame \/ \A k \in Index : Ahead(jobs', k)
      BY <1>10 DEF KeyLeaves, SameBlame, Ahead
    <2> QED  BY <1>10, <2>1, <2>3, <2>4, <2>2 DEF Keyed
  <1> QED  BY <1>5, <1>7, <1>9, <1>10, <1>11

(* An undo or a change of case. *)
FollowUp(kind, erase, text) ==
    /\ undo # None
    /\ jobs' = Append(Pressed(jobs), Job(kind, undo.of, undo.current, erase, text,
                                         undo.trigger, undo.blame))

LEMMA FollowUpKeyed ==
    ASSUME jobs \in Seq(JobType), undo \in UndoType, NEW kind \in {"undo", "recase"},
           NEW erase \in Nat, NEW text \in Seq(Characters), FollowUp(kind, erase, text)
    PROVE  /\ Keyed /\ SameBlame /\ Len(jobs') = Len(jobs) + 1
           /\ LET b == jobs'[Len(jobs) + 1] IN
                 /\ b.kind = kind /\ b.of = undo.of /\ b.pc = "queued"
                 /\ b.span = undo.current /\ b.erase = erase /\ b.trigger = undo.trigger
                 /\ b.text = text /\ b.right = TRUE /\ b.blame = undo.blame
  <1> DEFINE js == Pressed(jobs)
             b == Job(kind, undo.of, undo.current, erase, text, undo.trigger, undo.blame)
  <1>1. jobs' = Append(js, b) /\ undo # None
    BY DEF FollowUp
  <1>2. /\ js \in Seq(JobType) /\ Len(js) = Len(jobs) /\ Len(jobs) \in Nat
        /\ \A k \in Index : Kept(js, k) /\ js[k].blame = jobs[k].blame
    BY PressedJobs, LenProperties
  <1>3. /\ b.kind = kind /\ b.of = undo.of /\ b.pc = "queued"
        /\ b.span = undo.current /\ b.erase = erase /\ b.trigger = undo.trigger
        /\ b.text = text /\ b.right = TRUE /\ b.blame = undo.blame
    BY DEF Job
  <1>4. b \in JobType
    <2>1. JobOf(kind, undo.of, undo.current, erase, text, undo.trigger, undo.blame)
      BY DEF JobOf, JobKinds, UndoType
    <2> QED  BY <2>1, JobTyped
  <1> HIDE DEF b, js
  <1>5. /\ jobs' \in Seq(JobType) /\ Len(jobs') = Len(jobs) + 1
        /\ \A k \in Index : jobs'[k] = js[k]
        /\ jobs'[Len(jobs) + 1] = b
    BY <1>1, <1>2, <1>4, AppendJob
  <1>6. SameBlame
    BY <1>2, <1>5 DEF SameBlame
  <1>7. Keyed
    <2>1. PICK k \in Nat : k = Len(jobs) + 1
      BY <1>2
    <2>2. Sent(k)
      BY <1>1, <1>3, <1>5, <1>6, <2>1 DEF Sent
    <2>3. \A l \in Index : Kept(jobs', l)
      BY <1>2, <1>5 DEF Kept, Fixed
    <2> QED  BY <1>5, <1>6, <2>1, <2>2, <2>3 DEF Keyed
  <1> QED  BY <1>3, <1>5, <1>6, <1>7

(* What is found stands at the end of the buffer. *)
LEMMA MatchFound ==
    ASSUME TextsAssumption, NEW s \in Seq(Characters), NEW m \in Matches(s)
    PROVE  /\ m.trigger \in Triggers /\ s # <<>>
           /\ \E n \in Nat : m.span = LastN(s, n)
           /\ m.span \in Seq(Characters)
  <1>1. PICK f \in (1..Len(s)) \X Triggers : m = Found(f[1], s, f[2])
    BY Zenon DEF Matches, Triggers
  <1>2. Len(s) \in Nat /\ f[1] \in 1..Len(s) /\ f[2] \in Triggers
    BY LenProperties
  <1>3. m.trigger = f[2] /\ m.span = LastN(s, f[1])
    BY <1>1 DEF Found
  <1>4. s # <<>>
    BY <1>2, EmptySeq
  <1>5. LastN(s, f[1]) \in Seq(Characters)
    BY <1>2, LastNProperties
  <1> QED  BY <1>2, <1>3, <1>4, <1>5

LEMMA PrefixTyped ==
    ASSUME NEW S, NEW s \in Seq(S), NEW n \in 0..Len(s)
    PROVE  SubSeq(s, 1, n) \in Seq(S)
  BY LenProperties, ElementOfSeq, SubSeqProperties, Z3

LEMMA BufferTyped ==
    ASSUME CharsAssumption, NEW s \in Seq(Letters \cup Blanks)
    PROVE  s \in Seq(Characters)
  BY SeqMonotonic DEF CharsAssumption

LEMMA SpendTyped ==
    ASSUME used \in [Kinds -> Nat], NEW k \in Kinds, Spend(k)
    PROVE  used' \in [Kinds -> Nat]
  BY DEF Spend

LEMMA DriftsTyped ==
    ASSUME drift \subseteq Causes, NEW b, NEW S, S \subseteq Causes, Drifts(b, S)
    PROVE  drift' \subseteq Causes
  BY DEF Drifts, Causes

(* The three sorts of keys: one that disturbs what is at work and closes   *)
(* the undo window, one that completes a match, and one that goes on with  *)
(* the undo state; a held modifier only aborts.                            *)
Disturbs ==
    /\ jobs' = Disturbed /\ undo' = None
    /\ buffer' # <<>> => Unsettled(jobs) = {} \/ "ahead" \in drift'
    /\ BufferIsSuffix => BufferIsSuffix'

Completed(m, js) ==
    /\ js = Disturbed \/ (js = Pressed(jobs) /\ buffer # <<>>)
    /\ m.trigger \in Triggers /\ m.span \in Seq(Characters)
    /\ Expand(m, js)
    /\ undo' = None /\ buffer' = <<>> /\ drift' = {}
    /\ EndsIn(window, buffer) => EndsIn(window', m.span)
Completes == \E m, js : Completed(m, js)

GoesOn ==
    /\ \E kind \in {"undo", "recase"}, erase \in Nat, text \in Seq(Characters) :
          /\ FollowUp(kind, erase, text)
          /\ kind = "undo" => undo' = None /\ erase = undo.length
          /\ kind = "recase" =>
                /\ erase = Len(undo.current)
                /\ undo' # None => undo' = [undo EXCEPT !.engaged = TRUE, !.current = text,
                                                        !.length = Len(text)]
    /\ UNCHANGED <<window, buffer, drift>>

Holds == jobs' = Pressed(jobs) /\ UNCHANGED <<window, buffer, undo, drift>>

LEMMA DisturbTyped ==
    ASSUME Typed, jobs' = Disturbed, undo' = None,
           window' \in Seq(Characters), buffer' \in Seq(Letters \cup Blanks),
           instant' = instant, used' \in [Kinds -> Nat],
           NEW b, b = buffer', NEW S, S \subseteq Causes, Drifts(b, S),
           S = {} /\ b # <<>> /\ EndsIn(window, buffer) => EndsIn(window', buffer')
    PROVE  Typed' /\ Disturbs
  <1>1. jobs' \in Seq(JobType)
    BY DisturbedJobs DEF Typed
  <1>2. drift' \subseteq Causes
    BY DriftsTyped DEF Typed
  <1>3. BufferIsSuffix => BufferIsSuffix'
    <2>1. SUFFICES ASSUME BufferIsSuffix, drift' = {} PROVE EndsIn(window', buffer')
      BY DEF BufferIsSuffix
    <2>2. CASE b = <<>>
      BY <2>2, EndsInEmpty
    <2>3. CASE b # <<>>
      <3>1. drift = {} /\ S = {}
        BY <2>1, <2>3 DEF Drifts
      <3> QED  BY <2>1, <2>3, <3>1 DEF BufferIsSuffix
    <2> QED  BY <2>2, <2>3
  <1>4. Disturbs
    BY <1>3 DEF Disturbs, Drifts
  <1> QED  BY <1>1, <1>2, <1>4 DEF Typed

LEMMA TypeCharStep ==
    ASSUME Typed, CharsAssumption, TextsAssumption,
           NEW c \in Letters \cup {" "}, TypeChar(c)
    PROVE  Typed' /\ (Disturbs \/ Completes)
  <1>1. Spend("type") /\ undo' = None /\ window' = Append(window, c) /\ instant' = instant
    BY DEF TypeChar
  <1> DEFINE next == Append(buffer, c)
  <1>2. next \in Seq(Letters \cup Blanks) /\ window' \in Seq(Characters)
    BY <1>1, AppendProperties DEF Typed, CharsAssumption, Blanks
  <1>3. used' \in [Kinds -> Nat]
    BY <1>1, SpendTyped DEF Typed, Kinds
  <1>4. next \in Seq(Characters)
    BY <1>2, BufferTyped
  <1>5. EndsIn(window, buffer) => EndsIn(window', next)
    <2>1. window \in Seq(Characters) /\ buffer \in Seq(Characters) /\ c \in Characters
      BY BufferTyped DEF Typed, CharsAssumption, Blanks
    <2> QED  BY <1>1, <2>1, EndsInAppend
  <1>6. \/ buffer' = next /\ jobs' = Disturbed /\ Drifts(next, {})
        \/ \E m \in Matches(next) :
              buffer' = <<>> /\ Expand(m, Disturbed) /\ Drifts(<<>>, {})
    BY Zenon DEF TypeChar
  <1> HIDE DEF next
  <1>7. CASE buffer' = next /\ jobs' = Disturbed /\ Drifts(next, {})
    <2>1. PICK b : b = buffer'
      OBVIOUS
    <2>2. Drifts(b, {}) /\ buffer' \in Seq(Letters \cup Blanks)
      BY <1>2, <1>7, <2>1
    <2>3. EndsIn(window, buffer) => EndsIn(window', buffer')
      BY <1>7, <1>5
    <2> QED  BY <1>1, <1>2, <1>3, <1>7, <2>1, <2>2, <2>3, DisturbTyped
  <1>8. ASSUME NEW m \in Matches(next),
               buffer' = <<>>, Expand(m, Disturbed), Drifts(<<>>, {})
        PROVE  Typed' /\ Completes
    <2>1. m.trigger \in Triggers /\ m.span \in Seq(Characters)
      BY <1>4, MatchFound
    <2>2. jobs' \in Seq(JobType)
      BY <1>8, <2>1, ExpandKeyed, PressedLeaves DEF Typed, Keyed
    <2>3. drift' = {}
      BY <1>8 DEF Drifts
    <2>4. EndsIn(window, buffer) => EndsIn(window', m.span)
      <3>1. PICK n \in Nat : m.span = LastN(next, n)
        BY <1>4, MatchFound
      <3>2. EndsIn(window', next) => EndsIn(window', LastN(next, n))
        BY <1>2, <1>4, EndsInLastN
      <3> QED  BY <1>5, <3>1, <3>2
    <2>5. Completes
      BY <1>1, <1>8, <2>1, <2>3, <2>4 DEF Completes, Completed
    <2>6. <<>> \in Seq(Letters \cup Blanks)
      BY EmptySeq
    <2> QED  BY <1>1, <1>2, <1>3, <1>8, <2>2, <2>3, <2>5, <2>6 DEF Typed
  <1> QED  BY <1>6, <1>7, <1>8

LEMMA KeyMissedStep ==
    ASSUME Typed, CharsAssumption, KeyMissed
    PROVE  Typed' /\ Disturbs
  <1>1. used' \in [Kinds -> Nat]
    BY SpendTyped DEF KeyMissed, Happens, Typed, Kinds
  <1>2. window' \in Seq(Characters)
    <2>1. CASE \E c \in Letters \cup Blanks : window' = Append(window, c)
      BY <2>1, AppendProperties DEF Typed, CharsAssumption
    <2>2. CASE window' = DropLast(window, 1)
      BY <2>2, DropLastProperties DEF Typed
    <2>3. CASE \E n \in 0..Len(window) : window' = SubSeq(window, 1, n)
      BY <2>3, PrefixTyped DEF Typed
    <2> QED  BY <2>1, <2>2, <2>3 DEF KeyMissed
  <1>3. {"missed"} \subseteq Causes
    BY DEF Causes
  <1>4. /\ undo' = None /\ jobs' = Disturbed /\ Drifts(buffer, {"missed"})
        /\ buffer' = buffer /\ instant' = instant
    BY DEF KeyMissed
  <1>5. buffer' \in Seq(Letters \cup Blanks)
    BY <1>4 DEF Typed
  <1> QED  BY <1>1, <1>2, <1>3, <1>4, <1>5, DisturbTyped

LEMMA PressReturnStep ==
    ASSUME Typed, CharsAssumption, TextsAssumption, PressReturn
    PROVE  Typed' /\ (Disturbs \/ Completes)
  <1>1. undo' = None /\ instant' = instant
    BY DEF PressReturn
  <1>2. CASE /\ Spend("type") /\ window' = Append(window, "\n")
             /\ buffer' = Append(buffer, "\n") /\ jobs' = Disturbed /\ Drifts(buffer', {})
    <2>1. window' \in Seq(Characters) /\ buffer' \in Seq(Letters \cup Blanks)
      BY <1>2, AppendProperties DEF Typed, CharsAssumption, Blanks
    <2>2. used' \in [Kinds -> Nat]
      BY <1>2, SpendTyped DEF Typed, Kinds
    <2>3. PICK b : b = buffer'
      OBVIOUS
    <2>4. Drifts(b, {})
      BY <1>2, <2>3
    <2>5. EndsIn(window, buffer) => EndsIn(window', buffer')
      <3>1. /\ window \in Seq(Characters) /\ buffer \in Seq(Characters)
            /\ "\n" \in Characters
        BY BufferTyped DEF Typed, CharsAssumption, Blanks
      <3> QED  BY <1>2, <3>1, EndsInAppend
    <2> QED  BY <1>1, <1>2, <2>1, <2>2, <2>3, <2>4, <2>5, DisturbTyped
  <1>3. ASSUME NEW m \in Matches(buffer), buffer' = <<>>, Expand(m, Pressed(jobs)),
               Drifts(<<>>, {}), UNCHANGED <<window, used>>
        PROVE  Typed' /\ Completes
    <2>1. buffer \in Seq(Characters)
      BY BufferTyped DEF Typed
    <2>2. m.trigger \in Triggers /\ m.span \in Seq(Characters) /\ buffer # <<>>
      BY <2>1, MatchFound
    <2>3. jobs' \in Seq(JobType)
      BY <1>3, <2>2, ExpandKeyed, PressedLeaves DEF Typed, Keyed
    <2>4. drift' = {}
      BY <1>3 DEF Drifts
    <2>5. EndsIn(window, buffer) => EndsIn(window', m.span)
      <3>1. window \in Seq(Characters) /\ window' = window
        BY <1>3 DEF Typed
      <3> QED  BY <2>1, <3>1, MatchFound, EndsInLastN
    <2>6. Completes
      BY <1>1, <1>3, <2>2, <2>4, <2>5 DEF Completes, Completed
    <2>7. <<>> \in Seq(Letters \cup Blanks)
      BY EmptySeq
    <2> QED  BY <1>1, <1>3, <2>3, <2>4, <2>6, <2>7 DEF Typed
  <1>4. \/ /\ Spend("type") /\ window' = Append(window, "\n")
           /\ buffer' = Append(buffer, "\n") /\ jobs' = Disturbed /\ Drifts(buffer', {})
        \/ \E m \in Matches(buffer) :
              /\ buffer' = <<>> /\ Expand(m, Pressed(jobs))
              /\ Drifts(<<>>, {}) /\ UNCHANGED <<window, used>>
    BY Zenon DEF PressReturn
  <1> QED  BY <1>2, <1>3, <1>4

LEMMA BackspaceStep ==
    ASSUME Typed, CharsAssumption, Backspace
    PROVE  Typed' /\ Disturbs
  <1>1. used' \in [Kinds -> Nat]
    BY SpendTyped DEF Backspace, Typed, Kinds
  <1>2. /\ undo' = None /\ jobs' = Disturbed /\ instant' = instant
        /\ window' = DropLast(window, 1) /\ buffer' = DropLast(buffer, 1)
        /\ Drifts(buffer', {})
    BY DEF Backspace
  <1>3. window' \in Seq(Characters) /\ buffer' \in Seq(Letters \cup Blanks)
    BY <1>2, DropLastProperties DEF Typed
  <1>4. PICK b : b = buffer'
    OBVIOUS
  <1>5. Drifts(b, {})
    BY <1>2, <1>4
  <1>6. EndsIn(window, buffer) => EndsIn(window', buffer')
    <2>1. window \in Seq(Characters) /\ buffer \in Seq(Characters)
      BY BufferTyped DEF Typed
    <2> QED  BY <1>2, <2>1, EndsInDropLast
  <1> QED  BY <1>1, <1>2, <1>3, <1>4, <1>5, <1>6, DisturbTyped

LEMMA DeleteWordStep ==
    ASSUME Typed, DeleteWord
    PROVE  Typed' /\ Disturbs
  <1>1. used' \in [Kinds -> Nat]
    BY SpendTyped DEF DeleteWord, Happens, Typed, Kinds
  <1>2. window' \in Seq(Characters)
    BY PrefixTyped DEF DeleteWord, Typed
  <1>3. {"word"} \subseteq Causes
    BY DEF Causes
  <1>4. /\ undo' = None /\ jobs' = Disturbed /\ Drifts(buffer, {"word"})
        /\ buffer' = buffer /\ instant' = instant
    BY DEF DeleteWord
  <1>5. buffer' \in Seq(Letters \cup Blanks)
    BY <1>4 DEF Typed
  <1> QED  BY <1>1, <1>2, <1>3, <1>4, <1>5, DisturbTyped

LEMMA ShortcutStep ==
    ASSUME Typed, CharsAssumption, Shortcut
    PROVE  Typed' /\ Disturbs
  <1>1. used' \in [Kinds -> Nat]
    BY SpendTyped DEF Shortcut, Happens, Typed, Kinds
  <1>2. window' \in Seq(Characters)
    <2>1. CASE \E c \in Letters : window' = Append(window, c)
      BY <2>1, AppendProperties DEF Typed, CharsAssumption
    <2>2. CASE window' = DropLast(window, 1)
      BY <2>2, DropLastProperties DEF Typed
    <2> QED  BY <2>1, <2>2 DEF Shortcut
  <1>3. {"shortcut"} \subseteq Causes
    BY DEF Causes
  <1>4. /\ undo' = None /\ jobs' = Disturbed /\ Drifts(buffer, {"shortcut"})
        /\ buffer' = buffer /\ instant' = instant
    BY DEF Shortcut
  <1>5. buffer' \in Seq(Letters \cup Blanks)
    BY <1>4 DEF Typed
  <1> QED  BY <1>1, <1>2, <1>3, <1>4, <1>5, DisturbTyped

LEMMA MoveCaretStep ==
    ASSUME Typed, MoveCaret
    PROVE  Typed' /\ Disturbs
  <1>1. used' \in [Kinds -> Nat]
    BY SpendTyped DEF MoveCaret, Happens, Typed, Kinds
  <1>2. window' \in Seq(Characters)
    BY PrefixTyped DEF MoveCaret, Typed
  <1>3. /\ undo' = None /\ jobs' = Disturbed /\ Drifts(<<>>, {})
        /\ buffer' = <<>> /\ instant' = instant
    BY DEF MoveCaret
  <1>4. buffer' \in Seq(Letters \cup Blanks)
    BY <1>3, EmptySeq
  <1> QED  BY <1>1, <1>2, <1>3, <1>4, DisturbTyped

LEMMA HoldModifierStep ==
    ASSUME Typed, HoldModifier
    PROVE  Typed' /\ Holds
  <1>1. used' \in [Kinds -> Nat]
    BY SpendTyped DEF HoldModifier, Happens, Typed, Kinds
  <1>2. jobs' = Pressed(jobs) /\ UNCHANGED <<window, buffer, instant, undo, drift>>
    BY DEF HoldModifier
  <1>3. jobs' \in Seq(JobType)
    BY <1>2, PressedJobs DEF Typed
  <1> QED  BY <1>1, <1>2, <1>3 DEF Typed, Holds

LEMMA BackspaceUndoStep ==
    ASSUME Typed, TextsAssumption, BackspaceUndo
    PROVE  Typed' /\ GoesOn
  <1>1. used' \in [Kinds -> Nat]
    BY SpendTyped DEF BackspaceUndo, Typed, Kinds
  <1>2. undo # None /\ undo \in UndoType
    BY DEF BackspaceUndo, UndoActive, Typed
  <1>3. /\ jobs' = Append(Pressed(jobs), Job("undo", undo.of, undo.current, undo.length,
                                             undo.trigger, undo.trigger, undo.blame))
        /\ undo' = None /\ UNCHANGED <<window, buffer, instant, drift>>
    BY DEF BackspaceUndo
  <1>4. undo.length \in Nat /\ undo.trigger \in Seq(Characters)
    BY <1>2 DEF UndoType, TextsAssumption
  <1>5. FollowUp("undo", undo.length, undo.trigger)
    BY <1>2, <1>3 DEF FollowUp
  <1>6. jobs' \in Seq(JobType)
    <2>1. PICK length \in Nat, text \in Seq(Characters) :
              length = undo.length /\ text = undo.trigger
      BY <1>4
    <2>2. FollowUp("undo", length, text)
      BY <1>5, <2>1
    <2> QED  BY <1>2, <2>2, FollowUpKeyed DEF Typed, Keyed
  <1>7. GoesOn
    BY <1>3, <1>4, <1>5 DEF GoesOn
  <1> QED  BY <1>1, <1>3, <1>6, <1>7 DEF Typed

LEMMA CycleCaseStep ==
    ASSUME Typed, Sources, TextsAssumption, CycleCase
    PROVE  Typed' /\ GoesOn
  <1>1. used' \in [Kinds -> Nat]
    BY SpendTyped DEF CycleCase, Happens, Typed, Kinds
  <1>2. undo # None /\ undo \in UndoType
    BY DEF CycleCase, CaseReady, Typed
  <1> DEFINE text == IF undo.current = undo.original THEN Recased[undo.original]
                                                     ELSE undo.original
  <1>3. text \in Seq(Characters)
    BY <1>2 DEF UndoType, Sources, TextsAssumption
  <1>4. /\ undo' = [undo EXCEPT !.engaged = TRUE, !.current = text, !.length = Len(text)]
        /\ jobs' = Append(Pressed(jobs), Job("recase", undo.of, undo.current,
                                             Len(undo.current), text, undo.trigger, undo.blame))
        /\ UNCHANGED <<window, buffer, instant, drift>>
    BY DEF CycleCase
  <1> HIDE DEF text
  <1>5. Len(undo.current) \in Nat /\ Len(text) \in Nat
    BY <1>2, <1>3, LenProperties DEF UndoType
  <1>6. FollowUp("recase", Len(undo.current), text)
    BY <1>2, <1>4 DEF FollowUp
  <1>7. PICK erase \in Nat, t \in Seq(Characters) : erase = Len(undo.current) /\ t = text
    BY <1>3, <1>5
  <1>8. FollowUp("recase", erase, t)
    BY <1>6, <1>7
  <1>9. jobs' \in Seq(JobType)
    BY <1>2, <1>8, FollowUpKeyed DEF Typed, Keyed
  <1>10. undo' \in UndoType
    BY <1>2, <1>3, <1>4, <1>5 DEF UndoType
  <1>11. GoesOn
    BY <1>4, <1>7, <1>8 DEF GoesOn
  <1> QED  BY <1>1, <1>4, <1>9, <1>10, <1>11 DEF Typed

(* Every key is of one of the sorts. *)
LEMMA HookStep ==
    ASSUME Typed, Sources, CharsAssumption, TextsAssumption, Hook
    PROVE  Typed' /\ (Disturbs \/ Completes \/ GoesOn \/ Holds)
  BY TypeCharStep, KeyMissedStep, PressReturnStep, BackspaceStep, BackspaceUndoStep,
     DeleteWordStep, ShortcutStep, MoveCaretStep, CycleCaseStep, HoldModifierStep
     DEF Hook

LEMMA HookKeyed ==
    ASSUME Typed, TextsAssumption, Disturbs \/ Completes \/ GoesOn \/ Holds
    PROVE  Keyed
  <1>1. CASE Disturbs
    BY <1>1, DisturbedKeyed DEF Typed, Disturbs
  <1>2. CASE Completes
    <2>1. PICK m, js : Completed(m, js)
      BY <1>2 DEF Completes
    <2> QED  BY <2>1, ExpandKeyed, PressedLeaves DEF Typed, Completed
  <1>3. CASE GoesOn
    BY <1>3, FollowUpKeyed DEF Typed, GoesOn, FollowUp
  <1>4. CASE Holds
    BY <1>4, PressedLeaves, LeavesKeyed DEF Typed, Holds
  <1> QED  BY <1>1, <1>2, <1>3, <1>4

(* What remains of the undo state. *)
SameSource ==
    undo' # None =>
        /\ undo # None /\ undo'.of = undo.of /\ undo'.trigger = undo.trigger
        /\ undo'.original = undo.original

(* What a key that goes on has sent. *)
LEMMA GoesOnSends ==
    ASSUME Typed, GoesOn
    PROVE  /\ undo # None /\ SameBlame /\ Keyed /\ Len(jobs') = Len(jobs) + 1
           /\ \E b \in JobType :
                 /\ b = jobs'[Len(jobs) + 1] /\ b.pc = "queued" /\ b.right = TRUE
                 /\ b.kind \in {"undo", "recase"} /\ b.of = undo.of
                 /\ b.span = undo.current /\ b.blame = undo.blame
                 /\ b.erase = IF b.kind = "undo" THEN undo.length ELSE Len(undo.current)
                 /\ undo' # None =>
                       /\ b.kind = "recase" /\ undo'.current = b.text
                       /\ undo'.length = Len(b.text)
           /\ SameSource
           /\ undo' # None => undo'.blame = undo.blame
  <1>1. PICK kind \in {"undo", "recase"}, erase \in Nat, text \in Seq(Characters) :
            /\ FollowUp(kind, erase, text)
            /\ kind = "undo" => undo' = None /\ erase = undo.length
            /\ kind = "recase" =>
                  /\ erase = Len(undo.current)
                  /\ undo' # None => undo' = [undo EXCEPT !.engaged = TRUE, !.current = text,
                                                          !.length = Len(text)]
    BY DEF GoesOn
  <1>2. undo # None /\ undo \in UndoType
    BY <1>1 DEF FollowUp, Typed
  <1>3. /\ Keyed /\ SameBlame /\ Len(jobs') = Len(jobs) + 1
        /\ LET b == jobs'[Len(jobs) + 1] IN
              /\ b.kind = kind /\ b.of = undo.of /\ b.pc = "queued"
              /\ b.span = undo.current /\ b.erase = erase /\ b.trigger = undo.trigger
              /\ b.text = text /\ b.right = TRUE /\ b.blame = undo.blame
    BY <1>1, <1>2, FollowUpKeyed DEF Typed
  <1>4. PICK b \in JobType : b = jobs'[Len(jobs) + 1]
    <2>1. jobs' \in Seq(JobType) /\ Len(jobs) + 1 \in 1..Len(jobs')
      BY <1>3, LenProperties DEF Keyed, Typed
    <2> QED  BY <2>1, ElementOfSeq
  <1>5. undo' # None => /\ kind = "recase"
                        /\ undo' = [undo EXCEPT !.engaged = TRUE, !.current = text,
                                                !.length = Len(text)]
    BY <1>1
  <1>6. undo' # None =>
            /\ undo'.current = text /\ undo'.length = Len(text) /\ undo'.blame = undo.blame
            /\ undo'.of = undo.of /\ undo'.trigger = undo.trigger
            /\ undo'.original = undo.original
    BY <1>2, <1>5 DEF UndoType
  <1>7. /\ b.pc = "queued" /\ b.right = TRUE /\ b.kind = kind /\ b.of = undo.of
        /\ b.span = undo.current /\ b.blame = undo.blame /\ b.erase = erase /\ b.text = text
    BY <1>3, <1>4
  <1>8. b.erase = IF b.kind = "undo" THEN undo.length ELSE Len(undo.current)
    BY <1>1, <1>7
  <1> QED  BY <1>2, <1>3, <1>4, <1>5, <1>6, <1>7, <1>8 DEF SameSource

(* The undo state under a key: closed, or gone on with. *)
LEMMA HookUndo ==
    ASSUME Typed, Disturbs \/ Completes \/ GoesOn \/ Holds
    PROVE  SameSource /\ (undo' # None => undo'.blame = undo.blame /\ (GoesOn \/ Holds))
  <1>1. CASE Disturbs \/ Completes
    BY <1>1 DEF Disturbs, Completes, Completed, SameSource
  <1>2. CASE GoesOn
    BY <1>2, GoesOnSends
  <1>3. CASE Holds
    BY <1>3 DEF Holds, SameSource
  <1> QED  BY <1>1, <1>2, <1>3

LEMMA CompletesSends ==
    ASSUME Typed, TextsAssumption, Completes
    PROVE  /\ Keyed /\ Len(jobs') = Len(jobs) + 1
           /\ undo' = None /\ buffer' = <<>> /\ drift' = {}
           /\ buffer # <<>> \/ \A k \in Index : Ahead(jobs', k)
           /\ \E b \in JobType :
                 /\ b = jobs'[Len(jobs) + 1] /\ b.pc = "queued" /\ b.right = TRUE
                 /\ b.kind = "expand" /\ b.of = Len(jobs) + 1
                 /\ b.text = Expansion[b.trigger].text
                 /\ b.blame = {} =>
                       /\ drift = {} /\ b.erase = Len(b.span)
                       /\ EndsIn(window, buffer) => EndsIn(window', b.span)
  <1>1. PICK m, js : Completed(m, js)
    BY DEF Completes
  <1>2. KeyLeaves(js)
    BY <1>1, PressedLeaves DEF Completed, Typed
  <1>3. /\ Keyed /\ Len(jobs') = Len(jobs) + 1
        /\ \A k \in Index : jobs'[k] = js[k]
        /\ LET b == jobs'[Len(jobs) + 1] IN
              /\ b.kind = "expand" /\ b.of = Len(jobs) + 1 /\ b.pc = "queued"
              /\ b.span = m.span /\ b.erase = Len(m.trigger) /\ b.trigger = m.trigger
              /\ b.text = Expansion[m.trigger].text /\ b.right = TRUE
              /\ b.blame = {} => drift = {} /\ Len(m.span) = Len(m.trigger)
    BY <1>1, <1>2, ExpandKeyed DEF Completed, Typed
  <1>4. PICK b \in JobType : b = jobs'[Len(jobs) + 1]
    <2>1. jobs' \in Seq(JobType) /\ Len(jobs) + 1 \in 1..Len(jobs')
      BY <1>3, LenProperties DEF Keyed, Typed
    <2> QED  BY <2>1, ElementOfSeq
  <1>5. buffer # <<>> \/ \A k \in Index : Ahead(jobs', k)
    <2>1. buffer # <<>> \/ \A k \in Index : Ahead(js, k)
      BY <1>1, DisturbedJobs DEF Completed, Typed
    <2> QED  BY <1>3, <2>1 DEF Ahead
  <1>6. undo' = None /\ buffer' = <<>> /\ drift' = {}
    BY <1>1 DEF Completed
  <1>7. /\ b.kind = "expand" /\ b.of = Len(jobs) + 1 /\ b.pc = "queued" /\ b.right = TRUE
        /\ b.text = Expansion[b.trigger].text
        /\ b.blame = {} => drift = {} /\ b.erase = Len(b.span)
        /\ EndsIn(window, buffer) => EndsIn(window', b.span)
    BY <1>1, <1>3, <1>4 DEF Completed
  <1> QED  BY <1>3, <1>4, <1>5, <1>6, <1>7

LEMMA NewJob ==
    ASSUME Typed, TextsAssumption, Disturbs \/ Completes \/ GoesOn \/ Holds,
           NEW k \in Index', k \notin Index
    PROVE  k = Len(jobs) + 1 /\ Len(jobs') = Len(jobs) + 1 /\ (Completes \/ GoesOn)
  <1>1. Len(jobs) \in Nat /\ Len(jobs') # Len(jobs)
    BY LenProperties DEF Typed, Index
  <1>2. Completes \/ GoesOn
    BY <1>1, DisturbedKeyed, PressedLeaves, LeavesKeyed DEF Typed, Disturbs, Holds
  <1>3. Len(jobs') = Len(jobs) + 1
    BY <1>2, CompletesSends, GoesOnSends
  <1> QED  BY <1>1, <1>2, <1>3 DEF Index

LEMMA SourcesHook ==
    ASSUME Typed, Sources, TextsAssumption, Disturbs \/ Completes \/ GoesOn \/ Holds
    PROVE  Sources'
  <1>1. Keyed /\ Len(jobs) \in Nat /\ Index \subseteq Index'
    BY HookKeyed, LenProperties DEF Typed, Keyed, Index
  <1>2. \A k \in Index : Kept(jobs', k)
    BY <1>1 DEF Keyed
  <1>3. ASSUME NEW k \in Index'
        PROVE  /\ jobs'[k].of \in 1..k
               /\ jobs'[k].kind = "expand" =>
                     jobs'[k].of = k /\ jobs'[k].text = Expansion[jobs'[k].trigger].text
    <2>1. CASE k \in Index
      BY <1>2, <2>1 DEF Sources, Kept, Fixed
    <2>2. CASE k \notin Index
      <3>1. k = Len(jobs) + 1 /\ (Completes \/ GoesOn)
        BY <2>2, NewJob
      <3>2. CASE Completes
        <4>1. /\ jobs'[k].kind = "expand" /\ jobs'[k].of = k
              /\ jobs'[k].text = Expansion[jobs'[k].trigger].text
          BY <3>1, <3>2, CompletesSends
        <4> QED  BY <1>1, <3>1, <4>1
      <3>3. CASE GoesOn
        <4>1. undo # None /\ undo.of \in 1..Len(jobs)
          BY <3>3, GoesOnSends DEF Sources, Index
        <4>2. jobs'[k].of = undo.of /\ jobs'[k].kind # "expand"
          BY <3>1, <3>3, GoesOnSends
        <4> QED  BY <1>1, <3>1, <4>1, <4>2
      <3> QED  BY <3>1, <3>2, <3>3
    <2> QED  BY <2>1, <2>2
  <1>4. ASSUME undo' # None
        PROVE  /\ undo'.of \in Index'
               /\ jobs'[undo'.of].kind = "expand" /\ jobs'[undo'.of].pc # "queued"
               /\ undo'.trigger = jobs'[undo'.of].trigger
               /\ undo'.original = Expansion[undo'.trigger].text
    <2>1. /\ undo # None /\ undo'.of = undo.of /\ undo'.trigger = undo.trigger
          /\ undo'.original = undo.original
      BY <1>4, HookUndo DEF SameSource
    <2>2. PICK o \in Index : o = undo.of
      BY <2>1 DEF Sources
    <2>3. /\ jobs'[o].kind = jobs[o].kind /\ jobs'[o].pc = jobs[o].pc
          /\ jobs'[o].trigger = jobs[o].trigger
      BY <1>2 DEF Kept, Fixed
    <2> QED  BY <1>1, <2>1, <2>2, <2>3 DEF Sources
  <1> QED  BY <1>3, <1>4 DEF Sources

LEMMA UndoChainedHook ==
    ASSUME Typed, Sources, TextsAssumption, UndoChained,
           Disturbs \/ Completes \/ GoesOn \/ Holds
    PROVE  UndoChained'
  <1>1. SUFFICES ASSUME UndoClean' PROVE (Chain(undo.of, Len(jobs)))'
    BY DEF UndoChained
  <1>2. /\ undo # None /\ undo'.of = undo.of /\ undo'.blame = undo.blame
        /\ GoesOn \/ Holds
    BY <1>1, HookUndo DEF UndoClean, SameSource
  <1>3. UndoClean /\ Chain(undo.of, Len(jobs)) /\ undo.of \in Index
    BY <1>1, <1>2 DEF UndoClean, UndoChained, Chain
  <1>4. PICK of \in Index, last \in Nat : of = undo.of /\ last = Len(jobs)
    BY <1>3, LenProperties DEF Typed
  <1>5. Keyed /\ SameBlame
    <2>1. CASE GoesOn
      BY <2>1, GoesOnSends
    <2>2. CASE Holds
      BY <2>2, PressedJobs, PressedLeaves, LeavesKeyed DEF Typed, Holds, SameBlame
    <2> QED  BY <1>2, <2>1, <2>2
  <1>6. Chain(of, last)'
    <2>1. \A p \in of..last : p \in Index /\ Clean(p)
      BY <1>3, <1>4 DEF Chain, Index
    <2>2. \A p \in of..last : Clean(p)'
      BY <1>5, <2>1 DEF SameBlame, Clean
    <2>3. /\ Len(jobs) <= Len(jobs') /\ jobs' \in Seq(JobType)
          /\ \A p \in Index : jobs'[p].kind = jobs[p].kind /\ jobs'[p].of = jobs[p].of
      BY <1>4, <1>5 DEF Keyed, Kept, Fixed
    <2>4. Chain(of, last) /\ last <= Len(jobs)
      BY <1>3, <1>4
    <2> QED  BY <2>2, <2>3, <2>4, ChainKept DEF Typed
  <1>7. CASE Holds
    <2>1. Len(jobs') = last
      BY <1>4, <1>7, PressedJobs DEF Holds, Typed
    <2> QED  BY <1>2, <1>4, <1>6, <2>1
  <1>8. CASE GoesOn
    <2>1. PICK n \in Nat : n = last + 1
      OBVIOUS
    <2>2. Len(jobs') = n
      BY <1>4, <1>8, <2>1, GoesOnSends
    <2>3. jobs'[n].of = of /\ jobs'[n].kind = "recase" /\ jobs'[n].blame = undo.blame
      BY <1>1, <1>2, <1>4, <1>8, <2>1, GoesOnSends DEF UndoClean
    <2>4. Clean(n)'
      BY <1>3, <2>3 DEF UndoClean, Clean
    <2>5. \A p \in of..n : p = n \/ p \in of..last
      BY <2>1 DEF Index
    <2>6. Chain(of, n)'
      BY <1>6, <2>3, <2>4, <2>5 DEF Chain
    <2> QED  BY <1>2, <1>4, <2>2, <2>6
  <1> QED  BY <1>2, <1>7, <1>8

LEMMA QuietHook ==
    ASSUME Typed, TextsAssumption, Quiet, Disturbs \/ Completes \/ GoesOn \/ Holds
    PROVE  Quiet'
  <1>1. Keyed
    BY HookKeyed
  <1>2. SUFFICES ASSUME buffer' # <<>>, "ahead" \notin drift'
                 PROVE  undo' = None /\ \A k \in Index' : Settled(k)'
    BY DEF Quiet
  <1>3. CASE Disturbs
    <2>1. undo' = None /\ Unsettled(jobs) = {} /\ Index' = Index
      BY <1>2, <1>3, DisturbedKeyed DEF Disturbs, Typed, Index
    <2> QED  BY <1>1, <2>1, KeyedMonotonic DEF Typed
  <1>4. CASE Completes
    BY <1>2, <1>4, CompletesSends
  <1>5. CASE GoesOn \/ Holds
    <2>1. undo = None /\ \A k \in Index : Settled(k)
      BY <1>2, <1>5 DEF Quiet, GoesOn, Holds
    <2>2. Holds
      BY <1>5, <2>1, GoesOnSends
    <2>3. Index' = Index /\ undo' = None
      BY <2>1, <2>2, PressedLeaves, LeavesKeyed DEF Holds, Typed, Index
    <2> QED  BY <1>1, <2>1, <2>3, KeyedMonotonic DEF Typed
  <1> QED  BY <1>3, <1>4, <1>5

LEMMA TypedAheadHook ==
    ASSUME Typed, TextsAssumption, TypedAhead, Disturbs \/ Completes \/ GoesOn \/ Holds
    PROVE  TypedAhead'
  <1>1. Keyed /\ \A k \in Index : Kept(jobs', k)
    BY HookKeyed DEF Keyed
  <1>2. SUFFICES ASSUME buffer' # <<>>
                 PROVE  /\ undo' # None => "ahead" \in undo'.blame
                        /\ \A k \in Index' : Settled(k)' \/ "ahead" \in jobs'[k].blame
    BY DEF TypedAhead
  <1>3. CASE Disturbs
    <2>1. undo' = None /\ Index' = Index /\ \A k \in Index : Ahead(jobs', k)
      BY <1>3, DisturbedKeyed DEF Disturbs, Typed, Index
    <2>2. ASSUME NEW k \in Index
          PROVE  Settled(k)' \/ "ahead" \in jobs'[k].blame
      BY <1>1, <2>1, KeyedMonotonic DEF Typed, Ahead
    <2> QED  BY <2>1, <2>2
  <1>4. CASE Completes
    BY <1>2, <1>4, CompletesSends
  <1>5. CASE GoesOn \/ Holds
    <2>1. buffer # <<>>
      BY <1>2, <1>5 DEF GoesOn, Holds
    <2>2. undo' # None => "ahead" \in undo'.blame
      BY <1>5, <2>1, HookUndo DEF TypedAhead, SameSource
    <2>3. ASSUME NEW k \in Index'
          PROVE  Settled(k)' \/ "ahead" \in jobs'[k].blame
      <3>1. CASE k \in Index
        <4>1. Settled(k) \/ "ahead" \in jobs[k].blame
          BY <2>1, <3>1 DEF TypedAhead
        <4>2. Settled(k) => Settled(k)'
          BY <1>1, <3>1, KeyedMonotonic DEF Typed
        <4>3. jobs[k].blame \subseteq jobs'[k].blame
          BY <1>1, <3>1 DEF Kept, Fixed
        <4> QED  BY <4>1, <4>2, <4>3
      <3>2. CASE k \notin Index
        <4>1. GoesOn /\ k = Len(jobs) + 1
          <5>1. k = Len(jobs) + 1 /\ (Completes \/ GoesOn)
            BY <3>2, NewJob
          <5> QED  BY <1>2, <5>1, CompletesSends
        <4>2. undo # None /\ jobs'[k].blame = undo.blame
          BY <4>1, GoesOnSends
        <4> QED  BY <2>1, <4>2 DEF TypedAhead
      <3> QED  BY <3>1, <3>2
    <2> QED  BY <2>2, <2>3
  <1> QED  BY <1>3, <1>4, <1>5

LEMMA NewestHook ==
    ASSUME Typed, TextsAssumption, TypedAhead, Newest,
           Disturbs \/ Completes \/ GoesOn \/ Holds
    PROVE  Newest'
  <1>1. Keyed /\ Len(jobs) \in Nat
    BY HookKeyed, LenProperties DEF Typed
  <1>2. SUFFICES ASSUME NEW k \in Index', jobs'[k].kind = "expand", Clean(k)',
                        jobs'[k].pc = "queued"
                 PROVE  undo' = None /\ k = Len(jobs')
    BY DEF Newest
  <1>3. CASE k \notin Index
    <2>1. k = Len(jobs) + 1 /\ Len(jobs') = Len(jobs) + 1 /\ (Completes \/ GoesOn)
      BY <1>3, NewJob
    <2>2. Completes
      BY <1>2, <2>1, GoesOnSends
    <2> QED  BY <2>1, <2>2, CompletesSends
  <1>4. CASE k \in Index
    <2>1. jobs[k].kind = "expand" /\ Clean(k) /\ jobs[k].pc = "queued"
      BY <1>1, <1>2, <1>4, KeyedMonotonic DEF Typed
    <2>2. undo = None /\ k = Len(jobs)
      BY <1>4, <2>1 DEF Newest
    <2>3. DOMAIN jobs = Index
      BY LenProperties DEF Typed, Index
    <2>4. ~\A l \in Index : Ahead(jobs', l)
      <3>1. k \in Unsettled(jobs)
        BY <1>4, <2>1, <2>3 DEF Unsettled
      <3>2. Ahead(jobs', k) => "ahead" \in jobs'[k].blame
        BY <3>1 DEF Ahead
      <3>3. "ahead" \notin jobs'[k].blame
        BY <1>2 DEF Clean, InOrder
      <3> QED  BY <1>4, <3>2, <3>3
    <2>5. ~Completes
      <3>1. Completes => buffer # <<>>
        BY <2>4, CompletesSends
      <3>2. buffer # <<>> => "ahead" \in jobs[k].blame
        BY <1>4, <2>1 DEF TypedAhead, Settled, Over
      <3> QED  BY <2>1, <3>1, <3>2 DEF Clean, InOrder
    <2>6. Holds
      BY <2>2, <2>4, <2>5, GoesOnSends, DisturbedKeyed DEF Disturbs, Typed
    <2> QED  BY <2>2, <2>6, PressedJobs DEF Holds, Typed
  <1> QED  BY <1>3, <1>4

-----------------------------------------------------------------------------
(* What the workers do to the undo state, and to the text *)

Registers(j) ==
    /\ Taken(j) /\ SameBlame /\ jobs[j].kind = "expand" /\ UNCHANGED <<window, buffer, drift>>
    /\ undo' # None =>
          /\ undo' \in UndoType /\ undo'.of = j /\ undo'.trigger = jobs[j].trigger
          /\ undo'.original = jobs[j].text /\ undo'.current = jobs[j].text
          /\ undo'.length = Len(jobs[j].text)
          /\ undo'.blame = jobs[j].blame \cap InOrder

Reblamed ==
    /\ undo # None /\ undo' \in UndoType
    /\ undo'.of = undo.of /\ undo'.trigger = undo.trigger
    /\ undo'.original = undo.original /\ undo'.current = undo.current
    /\ undo.blame \subseteq undo'.blame
    /\ undo.length = Len(undo.current) /\ undo'.blame = {} => undo'.length = undo.length

LEMMA BeginUndo ==
    ASSUME Typed, TextsAssumption, NEW j \in Index, Begin(j)
    PROVE  undo' = undo \/ Registers(j)
  <1>1. Taken(j) /\ SameBlame /\ UNCHANGED <<window, buffer, drift>>
    BY BeginMoves DEF Typed, Begin, Take
  <1>2. jobs[j] \in JobType
    BY ElementOfSeq DEF Typed, Index
  <1>3. CASE jobs[j].kind = "expand" /\ ~Expansion[jobs[j].trigger].undoable
    BY <1>1, <1>3 DEF Begin, Registers, Registered
  <1>4. CASE jobs[j].kind = "expand" /\ Expansion[jobs[j].trigger].undoable
    <2>1. undo' = [trigger |-> jobs[j].trigger, of |-> j, length |-> Len(jobs[j].text),
                   fresh |-> TRUE, original |-> jobs[j].text, current |-> jobs[j].text,
                   caseFresh |-> TRUE, engaged |-> FALSE,
                   blame |-> jobs[j].blame \cap {"ahead", "overtaken"}]
      BY <1>4 DEF Begin, Registered
    <2>2. Len(jobs[j].text) \in Nat /\ j \in Nat \ {0}
      BY <1>2, LenProperties DEF JobType, Index
    <2>3. undo' \in UndoType
      BY <1>2, <2>1, <2>2 DEF JobType, UndoType
    <2>4. /\ undo'.of = j /\ undo'.trigger = jobs[j].trigger
          /\ undo'.original = jobs[j].text /\ undo'.current = jobs[j].text
          /\ undo'.length = Len(jobs[j].text)
          /\ undo'.blame = jobs[j].blame \cap InOrder
      BY <2>1 DEF InOrder
    <2> QED  BY <1>1, <1>4, <2>3, <2>4 DEF Registers
  <1>5. CASE jobs[j].kind # "expand"
    BY <1>5 DEF Begin
  <1> QED  BY <1>3, <1>4, <1>5

LEMMA TaintedUndo ==
    ASSUME Typed, NEW cause \in Causes, undo' = Tainted(cause)
    PROVE  /\ undo' = undo \/ Reblamed
           /\ undo # None => undo'.blame = undo.blame \cup {cause}
  <1>1. CASE undo = None
    BY <1>1 DEF Tainted
  <1>2. CASE undo # None
    <2>1. undo \in UndoType /\ undo' = [undo EXCEPT !.blame = @ \cup {cause}]
      BY <1>2 DEF Typed, Tainted
    <2>2. /\ undo' \in UndoType
          /\ undo'.of = undo.of /\ undo'.trigger = undo.trigger /\ undo'.length = undo.length
          /\ undo'.original = undo.original /\ undo'.current = undo.current
          /\ undo'.blame = undo.blame \cup {cause}
      BY <2>1 DEF UndoType
    <2> QED  BY <1>2, <2>2 DEF Reblamed
  <1> QED  BY <1>1, <1>2

LEMMA RefreshUndo ==
    ASSUME Typed, NEW j \in Index, Refresh(j)
    PROVE  undo' = undo \/ Reblamed
  <1>1. CASE undo' = undo
    BY <1>1
  <1>2. CASE undo' # undo
    <2> DEFINE l == Len(jobs[j].text)
               bl == IF l = Len(undo.current) THEN undo.blame ELSE undo.blame \cup {"resized"}
    <2>1. /\ undo # None
          /\ undo' = [undo EXCEPT !.length = l, !.fresh = TRUE, !.blame = bl]
      BY <1>2 DEF Refresh
    <2>2. jobs[j] \in JobType /\ undo \in UndoType
      BY <2>1, ElementOfSeq DEF Typed, Index
    <2>3. l \in Nat
      BY <2>2, LenProperties DEF JobType
    <2>4. bl \in SUBSET Causes /\ undo.blame \subseteq bl /\ (bl = {} => l = Len(undo.current))
      BY <2>2 DEF UndoType, Causes
    <2> HIDE DEF l, bl
    <2>5. /\ undo' \in UndoType
          /\ undo'.of = undo.of /\ undo'.trigger = undo.trigger /\ undo'.length = l
          /\ undo'.original = undo.original /\ undo'.current = undo.current
          /\ undo'.blame = bl
      BY <2>1, <2>2, <2>3, <2>4 DEF UndoType
    <2> QED  BY <2>1, <2>4, <2>5 DEF Reblamed
  <1> QED  BY <1>1, <1>2

LEMMA WorkUndo ==
    ASSUME Typed, TextsAssumption, NEW j \in Index, Work(j)
    PROVE  undo' = undo \/ Registers(j) \/ Reblamed
  <1>1. CASE Begin(j)
    BY <1>1, BeginUndo
  <1>2. CASE Lock(j)
    <2>1. "overtaken" \in Causes
      BY DEF Causes
    <2> QED  BY <1>2, <2>1, LockMoves, TaintedUndo DEF Typed
  <1>3. CASE Refresh(j)
    BY <1>3, RefreshUndo
  <1>4. CASE CutShort(j)
    <2>1. "cut" \in Causes /\ (undo' = undo \/ undo' = Tainted("cut"))
      BY <1>4 DEF Causes, CutShort
    <2> QED  BY <2>1, TaintedUndo
  <1>5. CASE Replace(j) \/ Erase(j) \/ CheckAbort(j) \/ Paste(j)
    BY <1>5 DEF Replace, Erase, CheckAbort, Paste
  <1> QED  BY <1>1, <1>2, <1>3, <1>4, <1>5 DEF Work

(* Only the job that injects changes the text. *)
Writes(j) ==
    \/ Injects(j) /\ jobs[j].pc = "locked" /\ jobs'[j].pc = "erased"
    \/ Injects(j) /\ jobs[j].pc # "erased" /\ Over(j)' /\ EndsIn(window', jobs[j].text)

LEMMA WorkWrites ==
    ASSUME Typed, NEW j \in Index, Work(j)
    PROVE  /\ window' \in Seq(Characters)
           /\ window' = window \/ Writes(j)
           /\ ~Over(j) /\ Over(j)' => Writes(j) \/ CutShort(j)
           /\ UNCHANGED <<buffer, drift, instant>>
  <1>1. jobs[j] \in JobType
    BY ElementOfSeq DEF Typed, Index
  <1>2. jobs[j].erase \in Nat /\ jobs[j].text \in Seq(Characters) /\ window \in Seq(Characters)
    BY <1>1 DEF JobType, Typed
  <1>3. CASE Replace(j)
    <2>1. DropLast(window, jobs[j].erase) \in Seq(Characters)
      BY <1>2, DropLastProperties
    <2>2. window' = DropLast(window, jobs[j].erase) \o jobs[j].text
      BY <1>3 DEF Replace
    <2>3. window' \in Seq(Characters) /\ EndsIn(window', jobs[j].text)
      BY <1>2, <2>1, <2>2, ConcatProperties, EndsInConcat
    <2>4. Injects(j) /\ jobs'[j].pc \in {"ending", "done"}
      BY <1>3, ReplaceMoves DEF Typed
    <2>5. jobs[j].pc = "locked" /\ UNCHANGED <<buffer, drift, instant>>
      BY <1>3 DEF Replace
    <2>6. Writes(j)
      BY <2>3, <2>4, <2>5 DEF Writes, Over
    <2> QED  BY <2>3, <2>5, <2>6
  <1>4. CASE Erase(j)
    <2>1. window' \in Seq(Characters)
      BY <1>2, <1>4, DropLastProperties DEF Erase
    <2> QED  BY <1>4, <2>1, EraseMoves DEF Writes, Erase, Typed, Over
  <1>5. CASE Paste(j)
    <2>1. window' \in Seq(Characters) /\ EndsIn(window', jobs[j].text)
      BY <1>2, <1>5, ConcatProperties, EndsInConcat DEF Paste
    <2> QED  BY <1>5, <2>1, PasteMoves DEF Writes, Paste, Over, Typed
  <1>6. CASE Begin(j) \/ Lock(j) \/ CheckAbort(j) \/ CutShort(j) \/ Refresh(j)
    <2>1. window' = window /\ UNCHANGED <<buffer, drift, instant>>
      BY <1>6 DEF Begin, Take, Lock, CheckAbort, CutShort, Refresh
    <2>2. ~Over(j) /\ Over(j)' => CutShort(j)
      BY <1>6, BeginMoves, LockMoves, CheckAbortMoves, RefreshMoves
         DEF Taken, Locked, Ends, Over, Typed
    <2> QED  BY <1>2, <2>1, <2>2
  <1> QED  BY <1>3, <1>4, <1>5, <1>6 DEF Work

LEMMA TypedWork ==
    ASSUME Typed, TextsAssumption, NEW j \in Index, Work(j)
    PROVE  Typed'
  <1>1. jobs' \in Seq(JobType)
    BY WorkMoves DEF Typed, Moves, OnlyMoves
  <1>2. undo' # None => undo' \in UndoType
    BY WorkUndo DEF Typed, Registers, Reblamed
  <1>3. used' \in [Kinds -> Nat]
    <2>1. CASE CutShort(j)
      BY <2>1, SpendTyped DEF CutShort, Happens, Typed, Kinds
    <2>2. CASE ~CutShort(j)
      BY <2>2 DEF Work, Typed, Begin, Take, Lock, Replace, Erase, CheckAbort, Paste, Refresh
    <2> QED  BY <2>1, <2>2
  <1> QED  BY <1>1, <1>2, <1>3, WorkWrites DEF Typed

-----------------------------------------------------------------------------
(* The rest of the invariant under a worker's step *)

(* What was aborted is never pasted. *)
LEMMA SettledWork ==
    ASSUME Typed, NEW j \in Index, Work(j), NEW k \in Index, Settled(k)
    PROVE  Settled(k)' /\ (k = j /\ jobs[j].pc = "erased" => Over(j)')
  <1>1. jobs[j].pc = "erased" /\ jobs[j].aborted => Over(j)'
    <2>1. CASE CutShort(j)
      BY <2>1, CutShortMoves DEF Over, Typed
    <2>2. CASE ~CutShort(j)
      BY <2>2 DEF Work, Begin, Take, Lock, Replace, Erase, CheckAbort, Paste, Refresh
    <2> QED  BY <2>1, <2>2
  <1>2. Settled(k)' \/ (k = j /\ jobs[k].pc = "erased" /\ ~Over(k)')
    BY WorkMoves, MovesMonotonic DEF Typed
  <1>3. jobs[k].pc = "erased" => jobs[k].aborted
    BY DEF Settled, Over
  <1> QED  BY <1>1, <1>2, <1>3

LEMMA SourcesWork ==
    ASSUME Typed, Sources, TextsAssumption, NEW j \in Index, Work(j)
    PROVE  Sources'
  <1>1. Moves(j) /\ Index' = Index /\ \A k \in Index : Fixed(jobs', k)
    BY WorkMoves DEF Typed, Moves, OnlyMoves, Index
  <1>2. ASSUME NEW k \in Index, jobs[k].pc # "queued" \/ k = j
        PROVE  jobs'[k].pc # "queued"
    BY <1>1, <1>2 DEF Moves, OnlyMoves, Taken, Locked, Injects, Ends
  <1>3. ASSUME NEW k \in Index
        PROVE  /\ jobs'[k].of \in 1..k
               /\ jobs'[k].kind = "expand" =>
                     jobs'[k].of = k /\ jobs'[k].text = Expansion[jobs'[k].trigger].text
    BY <1>1 DEF Sources, Fixed
  <1>4. ASSUME undo' # None
        PROVE  /\ undo'.of \in Index
               /\ jobs'[undo'.of].kind = "expand" /\ jobs'[undo'.of].pc # "queued"
               /\ undo'.trigger = jobs'[undo'.of].trigger
               /\ undo'.original = Expansion[undo'.trigger].text
    <2>1. CASE Registers(j)
      BY <1>1, <1>2, <1>4, <2>1 DEF Registers, Sources, Fixed
    <2>2. CASE undo' = undo \/ Reblamed
      <3>1. /\ undo # None /\ undo'.of = undo.of /\ undo'.trigger = undo.trigger
            /\ undo'.original = undo.original
        BY <1>4, <2>2 DEF Reblamed
      <3>2. PICK o \in Index : o = undo.of
        BY <3>1 DEF Sources
      <3>3. /\ jobs'[o].kind = jobs[o].kind /\ jobs'[o].trigger = jobs[o].trigger
            /\ jobs'[o].pc # "queued"
        BY <1>1, <1>2, <3>1, <3>2 DEF Sources, Fixed
      <3> QED  BY <3>1, <3>2, <3>3 DEF Sources
    <2> QED  BY <2>1, <2>2, WorkUndo
  <1> QED  BY <1>1, <1>3, <1>4 DEF Sources

(* Who is overtaken taints the undo state. *)
LEMMA WorkTaints ==
    ASSUME Typed, NEW j \in Index, Work(j)
    PROVE  \/ \A k \in Index : Clean(k) => Clean(k)'
           \/ undo # None => "overtaken" \in undo'.blame
  <1>1. CASE SameBlame
    BY <1>1 DEF SameBlame, Clean
  <1>2. CASE CutShort(j)
    BY <1>2, CutShortMoves DEF Clean, InOrder, Typed
  <1>3. CASE Lock(j)
    <2>1. (undo' = undo /\ SameBlame) \/ undo' = Tainted("overtaken")
      BY <1>3, LockMoves DEF Typed
    <2>2. "overtaken" \in Causes
      BY DEF Causes
    <2> QED  BY <1>1, <2>1, <2>2, TaintedUndo
  <1>4. CASE Begin(j) \/ Replace(j) \/ Erase(j) \/ CheckAbort(j) \/ Paste(j) \/ Refresh(j)
    BY <1>1, <1>4, BeginMoves, ReplaceMoves, EraseMoves, CheckAbortMoves, PasteMoves,
       RefreshMoves DEF Typed
  <1> QED  BY <1>2, <1>3, <1>4 DEF Work

LEMMA UndoChainedWork ==
    ASSUME Typed, Sources, TextsAssumption, UndoChained, Newest, NEW j \in Index, Work(j)
    PROVE  UndoChained'
  <1>1. /\ Moves(j) /\ Index' = Index /\ Len(jobs') = Len(jobs) /\ jobs' \in Seq(JobType)
        /\ \A k \in Index : Fixed(jobs', k)
    BY WorkMoves DEF Typed, Moves, OnlyMoves, Index
  <1>2. SUFFICES ASSUME UndoClean' PROVE (Chain(undo.of, Len(jobs)))'
    BY DEF UndoChained
  <1>3. PICK last \in Nat : last = Len(jobs)
    BY LenProperties DEF Typed
  <1>4. CASE Registers(j)
    <2>1. undo'.of = j /\ Clean(j) /\ jobs[j].kind = "expand" /\ jobs[j].pc = "queued"
      <3>1. undo'.of = j /\ undo'.blame = jobs[j].blame \cap InOrder
            /\ undo'.blame \cap InOrder = {}
        BY <1>2, <1>4 DEF Registers, UndoClean
      <3> QED  BY <1>4, <3>1 DEF Registers, Taken, Clean
    <2>2. j = last
      BY <1>3, <2>1 DEF Newest
    <2>3. Clean(j)' /\ jobs'[j].kind = "expand"
      BY <1>1, <1>4, <2>1 DEF Registers, SameBlame, Clean, Fixed
    <2>4. \A p \in j..last : p = j
      BY <2>2 DEF Index
    <2>5. Chain(j, last)'
      BY <1>1, <2>3, <2>4 DEF Chain
    <2> QED  BY <1>1, <1>3, <2>1, <2>5
  <1>5. CASE undo' = undo \/ Reblamed
    <2>1. undo # None /\ undo'.of = undo.of /\ undo.blame \subseteq undo'.blame
      BY <1>2, <1>5 DEF UndoClean, Reblamed
    <2>2. Chain(undo.of, Len(jobs)) /\ undo.of \in Index
      BY <1>2, <2>1 DEF UndoClean, UndoChained, Chain
    <2>3. PICK of \in Index : of = undo.of
      BY <2>2
    <2>4. \A k \in Index : Clean(k) => Clean(k)'
      BY <1>2, <2>1, WorkTaints DEF UndoClean, InOrder
    <2>5. \A p \in of..last : p \in Index /\ Clean(p)
      BY <1>3, <2>2, <2>3 DEF Chain, Index
    <2>6. Chain(of, last)'
      <3>1. Chain(of, last) /\ last <= Len(jobs) /\ Len(jobs) <= Len(jobs')
        BY <1>1, <1>3, <2>2, <2>3
      <3>2. \A p \in Index : jobs'[p].kind = jobs[p].kind /\ jobs'[p].of = jobs[p].of
        BY <1>1 DEF Fixed
      <3>3. \A p \in of..last : Clean(p)'
        BY <2>4, <2>5
      <3> QED  BY <1>1, <3>1, <3>2, <3>3, ChainKept DEF Typed
    <2> QED  BY <1>1, <1>3, <2>1, <2>3, <2>6
  <1> QED  BY <1>4, <1>5, WorkUndo

LEMMA NewestWork ==
    ASSUME Typed, TextsAssumption, Before, Newest, NEW j \in Index, Work(j)
    PROVE  Newest'
  <1>1. Moves(j) /\ Index' = Index /\ Len(jobs') = Len(jobs)
    BY WorkMoves DEF Typed, Moves, OnlyMoves, Index
  <1>2. SUFFICES ASSUME NEW k \in Index, jobs'[k].kind = "expand", Clean(k)',
                        jobs'[k].pc = "queued"
                 PROVE  undo' = None /\ k = Len(jobs)
    BY <1>1 DEF Newest
  <1>3. jobs[k].kind = "expand" /\ Clean(k) /\ k # j /\ jobs[k].pc = "queued"
    BY <1>1, <1>2, MovesMonotonic DEF Typed, Moves, Taken, Locked, Injects, Ends
  <1>4. undo = None /\ k = Len(jobs)
    BY <1>3 DEF Newest
  <1>5. ~Registers(j)
    <2>1. j \in 1..k-1
      BY <1>3, <1>4 DEF Index
    <2>2. Settled(j)
      BY <1>3, <2>1 DEF Before
    <2> QED  BY <2>2 DEF Registers, Taken, Settled, Over
  <1>6. undo' = undo
    BY <1>4, <1>5, WorkUndo DEF Reblamed
  <1> QED  BY <1>4, <1>6

LEMMA KeysWork ==
    ASSUME Typed, TextsAssumption, Quiet, TypedAhead, NEW j \in Index, Work(j)
    PROVE  Quiet' /\ TypedAhead'
  <1>1. /\ Index' = Index /\ buffer' = buffer /\ drift' = drift
        /\ \A k \in Index : Fixed(jobs', k)
    BY WorkMoves, WorkWrites DEF Typed, Moves, OnlyMoves, Index
  <1>2. Settled(j) => ~Registers(j)
    BY DEF Registers, Taken, Settled, Over
  <1>3. Quiet'
    <2>1. SUFFICES ASSUME buffer # <<>>, "ahead" \notin drift
                   PROVE  undo' = None /\ \A k \in Index : Settled(k)'
      BY <1>1 DEF Quiet
    <2>2. undo = None /\ \A k \in Index : Settled(k)
      BY <2>1 DEF Quiet
    <2>3. undo' = None
      BY <1>2, <2>2, WorkUndo DEF Reblamed
    <2> QED  BY <2>2, <2>3, SettledWork
  <1>4. TypedAhead'
    <2>1. SUFFICES ASSUME buffer # <<>>
                   PROVE  /\ undo' # None => "ahead" \in undo'.blame
                          /\ \A k \in Index : Settled(k)' \/ "ahead" \in jobs'[k].blame
      BY <1>1 DEF TypedAhead
    <2>2. undo' # None => "ahead" \in undo'.blame
      <3>1. CASE Registers(j)
        <4>1. "ahead" \in jobs[j].blame
          BY <1>2, <2>1, <3>1 DEF TypedAhead
        <4> QED  BY <3>1, <4>1 DEF Registers, InOrder
      <3>2. CASE undo' = undo \/ Reblamed
        BY <2>1, <3>2 DEF TypedAhead, Reblamed
      <3> QED  BY <3>1, <3>2, WorkUndo
    <2>3. ASSUME NEW k \in Index
          PROVE  Settled(k)' \/ "ahead" \in jobs'[k].blame
      BY <1>1, <2>1, SettledWork DEF TypedAhead, Fixed
    <2> QED  BY <2>2, <2>3
  <1> QED  BY <1>3, <1>4

LEMMA LineWork ==
    ASSUME Typed, Sources, TextsAssumption, Line, NEW j \in Index, Work(j)
    PROVE  Line'
  <1>1. jobs \in Seq(JobType) /\ Moves(j)
    BY WorkMoves DEF Typed
  <1>2. Served' /\ Passed' /\ Ordered' /\ Chained'
    BY <1>1, ServedMoves, PassedMoves, OrderedMoves, ChainedMoves DEF Line
  <1>3. Before'
    <2>1. jobs[j].pc = "erased" /\ jobs[j].aborted => Over(j)'
      BY SettledWork DEF Settled
    <2> QED  BY <1>1, <2>1, BeforeMoves DEF Line
  <1>4. UndoChained' /\ Newest'
    BY UndoChainedWork, NewestWork DEF Line
  <1> QED  BY <1>2, <1>3, <1>4 DEF Line

LEMMA LineHook ==
    ASSUME Typed, Sources, TextsAssumption, Line, Keys,
           Disturbs \/ Completes \/ GoesOn \/ Holds
    PROVE  Line' /\ Keys'
  <1>1. jobs \in Seq(JobType) /\ Keyed
    BY HookKeyed DEF Typed
  <1>2. Served' /\ Before' /\ Passed' /\ Ordered' /\ Chained'
    BY <1>1, ServedKeyed, BeforeKeyed, PassedKeyed, OrderedKeyed, ChainedKeyed DEF Line
  <1>3. UndoChained' /\ Newest' /\ Quiet' /\ TypedAhead'
    BY UndoChainedHook, NewestHook, QuietHook, TypedAheadHook DEF Line, Keys
  <1> QED  BY <1>2, <1>3 DEF Line, Keys

-----------------------------------------------------------------------------
(* The text under a key *)

LEMMA TriggerStandsHook ==
    ASSUME Typed, TextsAssumption, TypedAhead, TriggerStands, BufferIsSuffix,
           Disturbs \/ Completes \/ GoesOn \/ Holds
    PROVE  TriggerStands'
  <1>1. Keyed /\ DOMAIN jobs = Index /\ \A k \in Index : Kept(jobs', k)
    BY HookKeyed, LenProperties DEF Keyed, Typed, Index
  <1>2. SUFFICES ASSUME NEW k \in Index', jobs'[k].kind = "expand", jobs'[k].blame = {},
                        ToInject(k)'
                 PROVE  jobs'[k].erase = Len(jobs'[k].span) /\ EndsIn(window', jobs'[k].span)
    BY DEF TriggerStands
  <1>3. CASE k \in Index
    <2>1. /\ jobs[k].kind = "expand" /\ jobs[k].blame = {} /\ ToInject(k)
          /\ jobs'[k].erase = jobs[k].erase /\ jobs'[k].span = jobs[k].span
      BY <1>1, <1>2, <1>3 DEF Kept, Fixed, ToInject
    <2>2. jobs[k].erase = Len(jobs[k].span) /\ EndsIn(window, jobs[k].span)
      BY <1>3, <2>1 DEF TriggerStands
    <2>3. ~\A l \in Index : Ahead(jobs', l)
      BY <1>1, <1>2, <1>3, <2>1 DEF Ahead, Unsettled, ToInject
    <2>4. ~Completes
      <3>1. Completes => buffer # <<>>
        BY <2>3, CompletesSends
      <3>2. buffer = <<>>
        BY <1>3, <2>1 DEF TypedAhead, Settled, Over, ToInject
      <3> QED  BY <3>1, <3>2
    <2>5. ~Disturbs
      BY <2>3, DisturbedKeyed DEF Disturbs, Typed
    <2>6. window' = window
      BY <2>4, <2>5 DEF GoesOn, Holds
    <2> QED  BY <2>1, <2>2, <2>6
  <1>4. CASE k \notin Index
    <2>1. k = Len(jobs) + 1 /\ (Completes \/ GoesOn)
      BY <1>4, NewJob
    <2>2. Completes
      BY <1>2, <2>1, GoesOnSends
    <2>3. /\ drift = {} /\ jobs'[k].erase = Len(jobs'[k].span)
          /\ EndsIn(window, buffer) => EndsIn(window', jobs'[k].span)
      BY <1>2, <2>1, <2>2, CompletesSends
    <2> QED  BY <2>3 DEF BufferIsSuffix
  <1> QED  BY <1>3, <1>4

(* Where a clean follow-up has its predecessor. *)
LEMMA Predecessor ==
    ASSUME Typed, Sources, Chained, NEW k \in Index, jobs[k].kind # "expand", Clean(k)
    PROVE  /\ k - 1 \in Index /\ Clean(k - 1)
           /\ jobs[k - 1].of = jobs[k].of
  <1>1. jobs[k].of < k /\ Chain(jobs[k].of, k - 1)
    BY DEF Chained
  <1>2. jobs[k].of \in Index /\ jobs[jobs[k].of].of = jobs[k].of
    BY <1>1 DEF Chain, Sources
  <1>3. k - 1 \in Index /\ k - 1 \in jobs[k].of..k-1
    BY <1>1, <1>2, LenProperties DEF Index, Typed
  <1>4. Clean(k - 1) /\ (k - 1 = jobs[k].of \/ jobs[k - 1].of = jobs[k].of)
    BY <1>1, <1>3 DEF Chain
  <1> QED  BY <1>2, <1>3, <1>4

LEMMA OutputStandsHook ==
    ASSUME Typed, Sources, TextsAssumption, TypedAhead, Chained, OutputStands, UndoStands,
           Disturbs \/ Completes \/ GoesOn \/ Holds
    PROVE  OutputStands'
  <1>1. Keyed /\ DOMAIN jobs = Index /\ \A k \in Index : Kept(jobs', k)
    BY HookKeyed, LenProperties DEF Keyed, Typed, Index
  <1>2. SUFFICES ASSUME NEW k \in Index', jobs'[k].kind # "expand", jobs'[k].blame = {},
                        ToInject(k)'
                 PROVE  /\ jobs'[k].erase = Len(jobs'[k].span)
                        /\ IF Over(k - 1)' THEN EndsIn(window', jobs'[k].span)
                                           ELSE jobs'[k].span = jobs'[k-1].text
    BY DEF OutputStands
  <1>3. CASE k \in Index
    <2>1. /\ jobs[k].kind # "expand" /\ jobs[k].blame = {} /\ ToInject(k)
          /\ jobs'[k].erase = jobs[k].erase /\ jobs'[k].span = jobs[k].span
      BY <1>1, <1>2, <1>3 DEF Kept, Fixed, ToInject
    <2>2. /\ jobs[k].erase = Len(jobs[k].span)
          /\ IF Over(k - 1) THEN EndsIn(window, jobs[k].span)
                            ELSE jobs[k].span = jobs[k-1].text
      BY <1>3, <2>1 DEF OutputStands
    <2>3. ~\A l \in Index : Ahead(jobs', l)
      BY <1>1, <1>2, <1>3, <2>1 DEF Ahead, Unsettled, ToInject
    <2>4. ~Completes
      <3>1. Completes => buffer # <<>>
        BY <2>3, CompletesSends
      <3>2. buffer = <<>>
        BY <1>3, <2>1 DEF TypedAhead, Settled, Over, ToInject
      <3> QED  BY <3>1, <3>2
    <2>5. ~Disturbs
      BY <2>3, DisturbedKeyed DEF Disturbs, Typed
    <2>6. window' = window
      BY <2>4, <2>5 DEF GoesOn, Holds
    <2>7. k - 1 \in Index
      BY <1>3, <2>1, Predecessor DEF Clean
    <2>8. jobs'[k-1].text = jobs[k-1].text /\ (Over(k - 1)' <=> Over(k - 1))
      BY <1>1, <2>7 DEF Kept, Fixed, Over
    <2> QED  BY <2>1, <2>2, <2>6, <2>8
  <1>4. CASE k \notin Index
    <2>1. k = Len(jobs) + 1 /\ (Completes \/ GoesOn)
      BY <1>4, NewJob
    <2>2. GoesOn
      BY <1>2, <2>1, CompletesSends
    <2>3. /\ undo # None /\ jobs'[k].span = undo.current /\ jobs'[k].blame = undo.blame
          /\ jobs'[k].erase = undo.length \/ jobs'[k].erase = Len(undo.current)
      BY <2>1, <2>2, GoesOnSends
    <2>4. /\ undo.length = Len(undo.current)
          /\ IF Over(Len(jobs)) THEN EndsIn(window, undo.current)
                                ELSE undo.current = jobs[Len(jobs)].text
      BY <1>2, <2>3 DEF UndoStands
    <2>5. PICK p \in Index : p = Len(jobs) /\ p = k - 1
      <3>1. undo.of \in Index /\ Len(jobs) \in Nat
        BY <2>3, LenProperties DEF Sources, Typed
      <3> QED  BY <2>1, <3>1 DEF Index
    <2>6. jobs'[p].text = jobs[p].text /\ (Over(p)' <=> Over(p)) /\ window' = window
      BY <1>1, <2>2 DEF Kept, Fixed, Over, GoesOn
    <2> QED  BY <2>3, <2>4, <2>5, <2>6
  <1> QED  BY <1>3, <1>4

LEMMA UndoStandsHook ==
    ASSUME Typed, Sources, TextsAssumption, UndoStands,
           Disturbs \/ Completes \/ GoesOn \/ Holds
    PROVE  UndoStands'
  <1>1. SUFFICES ASSUME undo' # None, undo'.blame = {}
                 PROVE  /\ undo'.length = Len(undo'.current)
                        /\ IF Over(Len(jobs))' THEN EndsIn(window', undo'.current)
                                              ELSE undo'.current = jobs'[Len(jobs')].text
    BY DEF UndoStands
  <1>2. undo # None /\ undo.blame = {} /\ (GoesOn \/ Holds)
    BY <1>1, HookUndo DEF SameSource
  <1>3. CASE GoesOn
    <2>1. PICK b \in JobType :
              /\ b = jobs'[Len(jobs) + 1] /\ b.pc = "queued"
              /\ undo'.current = b.text /\ undo'.length = Len(b.text)
      BY <1>1, <1>3, GoesOnSends
    <2>2. Len(jobs') = Len(jobs) + 1
      BY <1>3, GoesOnSends
    <2> QED  BY <2>1, <2>2 DEF Over
  <1>4. CASE Holds
    <2>1. /\ undo' = undo /\ window' = window /\ Len(jobs') = Len(jobs)
          /\ \A k \in Index : Kept(jobs', k)
      BY <1>4, PressedJobs DEF Holds, Typed
    <2>2. PICK n \in Index : n = Len(jobs)
      BY <1>2, LenProperties DEF Sources, Typed, Index
    <2>3. jobs'[n].text = jobs[n].text /\ (Over(n)' <=> Over(n))
      BY <2>1 DEF Kept, Fixed, Over
    <2>4. Over(Len(jobs))' <=> Over(n)'
      BY <2>1, <2>2 DEF Over
    <2> QED  BY <1>2, <2>1, <2>2, <2>3, <2>4 DEF UndoStands
  <1> QED  BY <1>2, <1>3, <1>4

LEMMA ErasesHook ==
    ASSUME Typed, TextsAssumption, ErasesOwnTrigger, ErasesOwnOutput,
           Disturbs \/ Completes \/ GoesOn \/ Holds
    PROVE  ErasesOwnTrigger' /\ ErasesOwnOutput'
  <1>1. /\ jobs' \in Seq(JobType) /\ DOMAIN jobs' = Index' /\ DOMAIN jobs = Index
        /\ \A k \in Index : Kept(jobs', k)
    BY HookKeyed, LenProperties DEF Keyed, Typed, Index
  <1>2. ASSUME NEW k \in Index', jobs'[k].blame = {}
        PROVE  jobs'[k].right
    <2>1. CASE k \in Index
      <3>1. /\ jobs[k].blame = {} /\ jobs'[k].right = jobs[k].right
        BY <1>1, <1>2, <2>1 DEF Kept, Fixed
      <3>2. jobs[k].kind \in {"expand", "undo", "recase"}
        <4>1. jobs[k] \in JobType
          BY <2>1, ElementOfSeq DEF Typed, Index
        <4> QED  BY <4>1 DEF JobType, JobKinds
      <3> QED  BY <1>1, <2>1, <3>1, <3>2 DEF ErasesOwnTrigger, ErasesOwnOutput
    <2>2. CASE k \notin Index
      <3>1. k = Len(jobs) + 1 /\ (Completes \/ GoesOn)
        BY <2>2, NewJob
      <3> QED  BY <3>1, CompletesSends, GoesOnSends
    <2> QED  BY <2>1, <2>2
  <1> QED  BY <1>1, <1>2 DEF ErasesOwnTrigger, ErasesOwnOutput

LEMMA TextHook ==
    ASSUME Typed, Sources, TextsAssumption, Line, Keys, Text, Typed',
           Disturbs \/ Completes \/ GoesOn \/ Holds
    PROVE  Text'
  <1>1. TriggerStands' /\ OutputStands' /\ UndoStands'
    BY TriggerStandsHook, OutputStandsHook, UndoStandsHook DEF Text, Line, Keys
  <1>2. ErasesOwnTrigger' /\ ErasesOwnOutput'
    BY ErasesHook DEF Text
  <1>3. BufferIsSuffix'
    <2>1. CASE Disturbs
      BY <2>1 DEF Disturbs, Text
    <2>2. CASE GoesOn \/ Holds
      <3>1. window' = window /\ buffer' = buffer /\ drift' = drift
        <4>1. CASE GoesOn
          BY <4>1, Zenon DEF GoesOn
        <4>2. CASE Holds
          BY <4>2 DEF Holds
        <4> QED  BY <2>2, <4>1, <4>2
      <3>2. BufferIsSuffix
        BY DEF Text
      <3> QED  BY <3>1, <3>2 DEF BufferIsSuffix
    <2>3. CASE Completes
      <3>1. buffer' = <<>>
        BY <2>3, CompletesSends
      <3>2. EndsIn(window', <<>>)
        BY EndsInEmpty DEF Typed
      <3> QED  BY <3>1, <3>2 DEF BufferIsSuffix
    <2> QED  BY <2>1, <2>2, <2>3
  <1> QED  BY <1>1, <1>2, <1>3 DEF Text

-----------------------------------------------------------------------------
(* The text under a worker's step *)

(* Who writes is neither waiting nor settled, and has then injected. *)
LEMMA WriterStands ==
    ASSUME jobs \in Seq(JobType), NEW j \in Index, Writes(j)
    PROVE  Holding(j) /\ ~Waiting(j) /\ ~Settled(j) /\ ~Over(j) /\ ~ToInject(j)'
  BY DEF Writes, Injects, Holding, Waiting, Settled, Over, ToInject

(* While a clean job stands at the front, nobody behind it writes. *)
LEMMA NoneBehind ==
    ASSUME jobs \in Seq(JobType), Served, Ordered, NEW j \in Index, Writes(j),
           NEW k \in Index, Clean(k), ToInject(k), j # k
    PROVE  j \in 1..k-1
  <1>1. Holding(j) /\ ~Waiting(j)
    BY WriterStands
  <1>2. ~(k < j)
    <2>1. CASE Waiting(k)
      BY <1>1, <2>1 DEF Ordered
    <2>2. CASE jobs[k].pc = "locked"
      BY <1>1, <2>2 DEF Served, Holding
    <2> QED  BY <2>1, <2>2 DEF ToInject, Waiting
  <1> QED  BY <1>2 DEF Index

(* A job still to inject was still to inject before. *)
LEMMA ToInjectMoves ==
    ASSUME jobs \in Seq(JobType), NEW j \in Index, Moves(j),
           NEW k \in Index, jobs'[k].blame = {}, ToInject(k)'
    PROVE  /\ jobs[k].kind = jobs'[k].kind /\ jobs[k].blame = {} /\ ToInject(k)
           /\ jobs'[k].erase = jobs[k].erase /\ jobs'[k].span = jobs[k].span
           /\ Clean(k)
  <1>1. Fixed(jobs', k) /\ (k # j => jobs'[k].pc = jobs[k].pc)
    BY DEF Moves, OnlyMoves
  <1>2. ToInject(k)
    BY <1>1 DEF Moves, Taken, Locked, Injects, Ends, ToInject
  <1> QED  BY <1>1, <1>2 DEF Fixed, Clean

LEMMA TriggerStandsWork ==
    ASSUME Typed, Served, Before, Ordered, TriggerStands, NEW j \in Index, Work(j)
    PROVE  TriggerStands'
  <1>1. Moves(j) /\ Index' = Index
    BY WorkMoves DEF Typed, Moves, OnlyMoves, Index
  <1>2. SUFFICES ASSUME NEW k \in Index, jobs'[k].kind = "expand", jobs'[k].blame = {},
                        ToInject(k)'
                 PROVE  jobs'[k].erase = Len(jobs'[k].span) /\ EndsIn(window', jobs'[k].span)
    BY <1>1 DEF TriggerStands
  <1>3. /\ jobs[k].kind = "expand" /\ jobs[k].blame = {} /\ ToInject(k) /\ Clean(k)
        /\ jobs'[k].erase = jobs[k].erase /\ jobs'[k].span = jobs[k].span
    BY <1>1, <1>2, ToInjectMoves DEF Typed
  <1>4. jobs[k].erase = Len(jobs[k].span) /\ EndsIn(window, jobs[k].span)
    BY <1>3 DEF TriggerStands
  <1>5. ~Writes(j)
    <2>1. SUFFICES ASSUME Writes(j) PROVE FALSE
      OBVIOUS
    <2>2. ~Settled(j) /\ j # k
      BY <1>2, <2>1, WriterStands DEF Typed
    <2>3. j \in 1..k-1
      BY <1>3, <2>1, <2>2, NoneBehind DEF Typed
    <2> QED  BY <1>3, <2>2, <2>3 DEF Before
  <1>6. window' = window
    BY <1>5, WorkWrites
  <1> QED  BY <1>3, <1>4, <1>6

(* What a job put there stands before the caret, unless it was cut short.  *)
LEMMA Delivered ==
    ASSUME Typed, NEW j \in Index, Work(j), NEW p \in Index, ~Over(p), Over(p)',
           ~CutShort(j)
    PROVE  EndsIn(window', jobs[p].text)
  <1>1. p = j
    BY WorkMoves, MovesMonotonic DEF Typed, Over
  <1>2. Writes(j)
    BY <1>1, WorkWrites
  <1> QED  BY <1>1, <1>2 DEF Writes, Over

LEMMA OutputStandsWork ==
    ASSUME Typed, Sources, Served, Passed, Ordered, Chained, OutputStands,
           NEW j \in Index, Work(j)
    PROVE  OutputStands'
  <1>1. Moves(j) /\ Index' = Index /\ \A k \in Index : Fixed(jobs', k)
    BY WorkMoves DEF Typed, Moves, OnlyMoves, Index
  <1>2. SUFFICES ASSUME NEW k \in Index, jobs'[k].kind # "expand", jobs'[k].blame = {},
                        ToInject(k)'
                 PROVE  /\ jobs'[k].erase = Len(jobs'[k].span)
                        /\ IF Over(k - 1)' THEN EndsIn(window', jobs'[k].span)
                                           ELSE jobs'[k].span = jobs'[k-1].text
    BY <1>1 DEF OutputStands
  <1>3. /\ jobs[k].kind # "expand" /\ jobs[k].blame = {} /\ ToInject(k) /\ Clean(k)
        /\ jobs'[k].erase = jobs[k].erase /\ jobs'[k].span = jobs[k].span
    BY <1>1, <1>2, ToInjectMoves DEF Typed
  <1>4. PICK p \in Index : p = k - 1 /\ Clean(p) /\ jobs[p].of = jobs[k].of
    BY <1>3, Predecessor
  <1>5. /\ jobs[k].erase = Len(jobs[k].span)
        /\ IF Over(p) THEN EndsIn(window, jobs[k].span) ELSE jobs[k].span = jobs[p].text
    BY <1>3, <1>4 DEF OutputStands
  <1>6. jobs'[p].text = jobs[p].text /\ (Over(p) => Over(p)')
    BY <1>1, MovesMonotonic DEF Fixed, Typed
  <1>7. CASE Over(p)
    <2>1. ~Writes(j)
      <3>1. SUFFICES ASSUME Writes(j) PROVE FALSE
        OBVIOUS
      <3>2. ~Over(j) /\ j # k
        BY <1>2, <3>1, WriterStands DEF Typed
      <3>3. j \in 1..k-1
        BY <1>3, <3>1, <3>2, NoneBehind DEF Typed
      <3>4. j \in 1..p-1
        BY <1>4, <1>7, <3>2, <3>3 DEF Index
      <3>5. Over(j)
        BY <1>4, <1>7, <3>4 DEF Passed, Over, Waiting
      <3> QED  BY <3>2, <3>5
    <2>2. window' = window
      BY <2>1, WorkWrites
    <2> QED  BY <1>3, <1>4, <1>5, <1>6, <1>7, <2>2
  <1>8. CASE ~Over(p)
    <2>1. CASE Over(p)'
      <3>1. ~CutShort(j)
        <4>1. SUFFICES ASSUME CutShort(j) PROVE FALSE
          OBVIOUS
        <4>2. p = j
          BY <1>1, <1>8, <2>1, MovesMonotonic DEF Over, Typed
        <4>3. k # j
          BY <1>4, <4>2 DEF Index
        <4>4. "cut" \in jobs'[k].blame
          BY <1>4, <4>1, <4>2, <4>3, CutShortMoves DEF Typed
        <4> QED  BY <1>2, <4>4
      <3>2. EndsIn(window', jobs[p].text)
        BY <1>8, <2>1, <3>1, Delivered
      <3> QED  BY <1>3, <1>4, <1>5, <1>8, <2>1, <3>2
    <2>2. CASE ~Over(p)'
      BY <1>3, <1>4, <1>5, <1>6, <1>8, <2>2
    <2> QED  BY <2>1, <2>2
  <1> QED  BY <1>7, <1>8

LEMMA UndoStandsWork ==
    ASSUME Typed, Sources, TextsAssumption, Passed, UndoChained, Newest, UndoStands,
           NEW j \in Index, Work(j)
    PROVE  UndoStands'
  <1>1. /\ Moves(j) /\ Index' = Index /\ Len(jobs') = Len(jobs)
        /\ \A k \in Index : Fixed(jobs', k)
    BY WorkMoves DEF Typed, Moves, OnlyMoves, Index
  <1>2. SUFFICES ASSUME undo' # None, undo'.blame = {}, NEW n \in Nat, n = Len(jobs)
                 PROVE  /\ undo'.length = Len(undo'.current)
                        /\ IF Over(n)' THEN EndsIn(window', undo'.current)
                                       ELSE undo'.current = jobs'[n].text
    <2>1. Len(jobs) \in Nat
      BY LenProperties DEF Typed
    <2> QED  BY <1>1, <2>1 DEF UndoStands, Over
  <1>3. CASE Registers(j)
    <2>1. Clean(j) /\ jobs[j].kind = "expand" /\ jobs[j].pc = "queued"
      BY <1>2, <1>3 DEF Registers, Taken, Clean
    <2>2. j = n
      BY <1>2, <2>1 DEF Newest
    <2>3. jobs'[j].pc = "begun" /\ jobs'[j].text = jobs[j].text
      BY <1>1, <1>3 DEF Registers, Taken, Fixed
    <2>4. undo'.length = Len(jobs[j].text) /\ undo'.current = jobs[j].text
      BY <1>2, <1>3 DEF Registers
    <2>5. ~Over(j)'
      BY <2>3 DEF Over
    <2> QED  BY <2>2, <2>3, <2>4, <2>5
  <1>4. CASE undo' = undo \/ Reblamed
    <2>1. /\ undo # None /\ undo.blame = {}
          /\ undo'.of = undo.of /\ undo'.current = undo.current
      BY <1>2, <1>4 DEF Reblamed
    <2>2. /\ undo.length = Len(undo.current)
          /\ IF Over(n) THEN EndsIn(window, undo.current)
                        ELSE undo.current = jobs[n].text
      BY <1>2, <2>1 DEF UndoStands
    <2>3. undo'.length = Len(undo'.current)
      BY <1>2, <1>4, <2>1, <2>2 DEF Reblamed
    <2>4. n \in Index /\ Clean(n) /\ jobs[n].of = undo.of
      <3>1. Chain(undo.of, Len(jobs))
        BY <2>1 DEF UndoClean, UndoChained
      <3>2. PICK o \in Index : o = undo.of /\ jobs[o].of = o
        BY <2>1 DEF Sources
      <3>3. n \in o..n /\ n \in Index
        BY <1>2, <3>2 DEF Index
      <3> QED  BY <1>2, <3>1, <3>2, <3>3 DEF Chain
    <2>5. jobs'[n].text = jobs[n].text /\ (Over(n) => Over(n)')
      BY <1>1, <2>4, MovesMonotonic DEF Fixed, Typed
    <2>6. CASE Over(n)
      <3>1. \A i \in Index : Over(i)
        <4>1. \A i \in 1..n-1 : Over(i)
          BY <2>4, <2>6 DEF Passed, Waiting, Over
        <4> QED  BY <1>2, <2>6, <4>1 DEF Index
      <3>2. window' = window
        BY <3>1, WorkWrites, WriterStands DEF Typed
      <3> QED  BY <2>1, <2>2, <2>3, <2>5, <2>6, <3>2
    <2>7. CASE ~Over(n)
      <3>1. CASE Over(n)'
        <4>1. ~CutShort(j)
          <5>1. SUFFICES ASSUME CutShort(j) PROVE FALSE
            OBVIOUS
          <5>2. n = j
            BY <1>1, <2>4, <2>7, <3>1, MovesMonotonic DEF Over, Typed
          <5>3. undo' = Tainted("cut") /\ "cut" \in Causes
            BY <2>1, <2>4, <5>1, <5>2 DEF CutShort, Causes
          <5>4. "cut" \in undo'.blame
            BY <2>1, <5>3, TaintedUndo
          <5> QED  BY <1>2, <5>4
        <4>2. EndsIn(window', jobs[n].text)
          BY <2>4, <2>7, <3>1, <4>1, Delivered
        <4> QED  BY <2>1, <2>2, <2>3, <2>7, <3>1, <4>2
      <3>2. CASE ~Over(n)'
        BY <2>1, <2>2, <2>3, <2>5, <2>7, <3>2
      <3> QED  BY <3>1, <3>2
    <2> QED  BY <2>6, <2>7
  <1> QED  BY <1>3, <1>4, WorkUndo

LEMMA BufferIsSuffixWork ==
    ASSUME Typed, Quiet, BufferIsSuffix, NEW j \in Index, Work(j)
    PROVE  BufferIsSuffix'
  <1>1. /\ window' \in Seq(Characters)
        /\ window' = window \/ Writes(j)
        /\ buffer' = buffer /\ drift' = drift
    BY WorkWrites
  <1>2. CASE buffer = <<>>
    BY <1>1, <1>2, EndsInEmpty DEF BufferIsSuffix
  <1>3. CASE buffer # <<>> /\ drift = {}
    <2>1. Settled(j)
      BY <1>3 DEF Quiet
    <2>2. window' = window
      BY <1>1, <2>1, WriterStands DEF Typed
    <2> QED  BY <1>1, <2>2 DEF BufferIsSuffix
  <1> QED  BY <1>1, <1>2, <1>3 DEF BufferIsSuffix

(* The erasure itself. *)
LEMMA ErasesRight ==
    ASSUME Typed, Sources, Line, Text, NEW j \in Index, jobs[j].pc = "locked",
           jobs[j].blame = {}
    PROVE  Erased(j) = jobs[j].span
  <1>1. ToInject(j) /\ Clean(j) /\ ~Waiting(j)
    BY DEF ToInject, Clean, Waiting
  <1>2. jobs[j].erase = Len(jobs[j].span) /\ EndsIn(window, jobs[j].span)
    <2>1. CASE jobs[j].kind = "expand"
      BY <1>1, <2>1 DEF Text, TriggerStands
    <2>2. CASE jobs[j].kind # "expand"
      <3>1. PICK p \in Index : p = j - 1
        BY <1>1, <2>2, Predecessor DEF Line
      <3>2. Over(p)
        BY <1>1, <3>1 DEF Line, Passed, Index
      <3> QED  BY <1>1, <2>2, <3>1, <3>2 DEF Text, OutputStands
    <2> QED  BY <2>1, <2>2
  <1> QED  BY <1>2 DEF Erased, EndsIn

LEMMA ErasesWork ==
    ASSUME Typed, Sources, Line, Text, NEW j \in Index, Work(j)
    PROVE  ErasesOwnTrigger' /\ ErasesOwnOutput'
  <1>1. /\ DOMAIN jobs' = Index /\ DOMAIN jobs = Index
        /\ \A k \in Index : Fixed(jobs', k) /\ (k # j => jobs'[k].right = jobs[k].right)
    BY WorkMoves, LenProperties DEF Typed, Moves, OnlyMoves, Index
  <1>2. ASSUME NEW k \in Index, jobs'[k].blame = {}, jobs'[k].kind \in JobKinds
        PROVE  jobs'[k].right
    <2>1. jobs[k].blame = {} /\ jobs[k].kind = jobs'[k].kind
      BY <1>1, <1>2 DEF Fixed
    <2>2. jobs[k].right
      BY <1>1, <1>2, <2>1 DEF Text, ErasesOwnTrigger, ErasesOwnOutput, JobKinds
    <2>3. CASE k # j \/ ~(Replace(j) \/ Erase(j))
      <3>1. CASE k # j
        BY <1>1, <2>2, <3>1
      <3>2. CASE Begin(j) \/ Lock(j) \/ CheckAbort(j) \/ CutShort(j) \/ Paste(j) \/ Refresh(j)
        <4>1. jobs'[j].right = jobs[j].right
          BY <3>2, BeginMoves, LockMoves, CheckAbortMoves, CutShortMoves, PasteMoves,
             RefreshMoves DEF Typed
        <4> QED  BY <1>1, <2>2, <4>1
      <3> QED  BY <2>3, <3>1, <3>2 DEF Work
    <2>4. CASE k = j /\ (Replace(j) \/ Erase(j))
      <3>1. Erased(j) = jobs[j].span
        BY <2>1, <2>4, ErasesRight DEF Replace, Erase
      <3>2. jobs'[j].right = (Erased(j) = jobs[j].span)
        BY <2>4, ReplaceMoves, EraseMoves DEF Typed
      <3> QED  BY <2>4, <3>1, <3>2
    <2> QED  BY <2>3, <2>4
  <1> QED  BY <1>1, <1>2 DEF ErasesOwnTrigger, ErasesOwnOutput, JobKinds

LEMMA TextWork ==
    ASSUME Typed, Sources, TextsAssumption, Line, Keys, Text, NEW j \in Index, Work(j)
    PROVE  Text'
  <1>1. TriggerStands' /\ OutputStands' /\ UndoStands'
    BY TriggerStandsWork, OutputStandsWork, UndoStandsWork DEF Text, Line
  <1>2. BufferIsSuffix'
    BY BufferIsSuffixWork DEF Text, Keys
  <1>3. ErasesOwnTrigger' /\ ErasesOwnOutput'
    BY ErasesWork
  <1> QED  BY <1>1, <1>2, <1>3 DEF Text

-----------------------------------------------------------------------------
(* The theorems *)

LEMMA InvInit ==
    ASSUME CharsAssumption, LimitAssumption, Init
    PROVE  IInv
  <1>1. window = <<>> /\ buffer = <<>> /\ undo = None /\ jobs = <<>> /\ drift = {}
    BY DEF Init
  <1>2. Len(<<>>) = 0 /\ Index = {} /\ DOMAIN jobs = {}
    BY <1>1, EmptySeq DEF Index
  <1>3. Typed
    BY <1>1, EmptySeq DEF Init, Typed
  <1>4. Sources /\ Line /\ Keys
    BY <1>1, <1>2 DEF Sources, Line, Served, Before, Passed, Ordered, Chained, UndoChained,
                      UndoClean, Newest, Keys, Quiet, TypedAhead
  <1>5. BufferIsSuffix
    BY <1>1, <1>3, EndsInEmpty DEF BufferIsSuffix, Typed
  <1>6. Text
    BY <1>1, <1>2, <1>5 DEF Text, TriggerStands, OutputStands, UndoStands, ErasesOwnTrigger,
                            ErasesOwnOutput
  <1> QED  BY <1>3, <1>4, <1>6 DEF IInv

LEMMA InvHook ==
    ASSUME CharsAssumption, TextsAssumption, IInv, Hook
    PROVE  IInv'
  <1>1. Typed' /\ (Disturbs \/ Completes \/ GoesOn \/ Holds)
    BY HookStep DEF IInv
  <1> QED  BY <1>1, SourcesHook, LineHook, TextHook DEF IInv

LEMMA InvWork ==
    ASSUME TextsAssumption, IInv, NEW j \in Index, Work(j)
    PROVE  IInv'
  BY TypedWork, SourcesWork, LineWork, KeysWork, TextWork DEF IInv, Keys

(* Time only closes the windows of the undo state. *)
LEMMA InvExpires ==
    ASSUME IInv, UndoExpires \/ CaseExpires
    PROVE  IInv'
  <1>1. UNCHANGED <<window, buffer, instant, jobs, drift, used>> /\ Index' = Index
    BY DEF UndoExpires, CaseExpires, Index
  <1>2. /\ undo # None /\ undo' \in UndoType
        /\ undo'.of = undo.of /\ undo'.trigger = undo.trigger
        /\ undo'.length = undo.length /\ undo'.current = undo.current
        /\ undo'.original = undo.original /\ undo'.blame = undo.blame
    <2>1. undo # None
      BY DEF UndoExpires, UndoActive, CaseExpires
    <2>2. undo \in UndoType
      BY <2>1 DEF IInv, Typed
    <2> QED  BY <2>1, <2>2 DEF UndoExpires, CaseExpires, UndoType
  <1>3. Typed'
    BY <1>1, <1>2 DEF IInv, Typed
  <1>4. Sources'
    BY <1>1, <1>2 DEF IInv, Sources
  <1>5. Line'
    <2>1. Served' /\ Before' /\ Passed' /\ Ordered' /\ Chained'
      BY <1>1 DEF IInv, Line, Served, Before, Passed, Ordered, Chained, Holding, Settled,
                  Over, Clean, Waiting, Chain
    <2>2. UndoChained'
      BY <1>1, <1>2 DEF IInv, Line, UndoChained, UndoClean, Chain, Clean
    <2>3. Newest'
      BY <1>1, <1>2 DEF IInv, Line, Newest, Clean
    <2> QED  BY <2>1, <2>2, <2>3 DEF Line
  <1>6. Keys'
    BY <1>1, <1>2 DEF IInv, Keys, Quiet, TypedAhead, Settled, Over
  <1>7. Text'
    BY <1>1, <1>2 DEF IInv, Text, TriggerStands, OutputStands, UndoStands, BufferIsSuffix,
                      ErasesOwnTrigger, ErasesOwnOutput, ToInject, Over
  <1> QED  BY <1>3, <1>4, <1>5, <1>6, <1>7 DEF IInv

LEMMA InvStutters ==
    ASSUME IInv, UNCHANGED vars
    PROVE  IInv'
  <1>1. UNCHANGED <<window, buffer, instant, undo, jobs, drift, used>> /\ Index' = Index
    BY DEF vars, Index
  <1>2. Typed' /\ Sources'
    BY <1>1 DEF IInv, Typed, Sources
  <1>3. Line'
    BY <1>1 DEF IInv, Line, Served, Before, Passed, Ordered, Chained, UndoChained, UndoClean,
                Newest, Holding, Settled, Over, Clean, Waiting, Chain
  <1>4. Keys'
    BY <1>1 DEF IInv, Keys, Quiet, TypedAhead, Settled, Over
  <1>5. Text'
    BY <1>1 DEF IInv, Text, TriggerStands, OutputStands, UndoStands, BufferIsSuffix,
                ErasesOwnTrigger, ErasesOwnOutput, ToInject, Over
  <1> QED  BY <1>2, <1>3, <1>4, <1>5 DEF IInv

LEMMA InvStep ==
    ASSUME CharsAssumption, TextsAssumption, IInv, [Next]_vars
    PROVE  IInv'
  <1>1. DOMAIN jobs = Index
    BY LenProperties DEF IInv, Typed, Index
  <1>2. CASE Hook
    BY <1>2, InvHook
  <1>3. CASE \E j \in DOMAIN jobs : Work(j)
    BY <1>1, <1>3, InvWork
  <1>4. CASE UndoExpires \/ CaseExpires
    BY <1>4, InvExpires
  <1>5. CASE UNCHANGED vars
    BY <1>5, InvStutters
  <1> QED  BY <1>2, <1>3, <1>4, <1>5 DEF Next

(* The order of the jobs and what stands before the caret, at every moment *)
(* of every behaviour.                                                     *)
THEOREM InvHolds == Spec => []IInv
  <1>1. Init => IInv
    BY InvInit, CharsAssumption, LimitAssumption
  <1>2. IInv /\ [Next]_vars => IInv'
    BY InvStep, CharsAssumption, TextsAssumption
  <1> QED  BY <1>1, <1>2, PTL DEF Spec

(* Every job continues an expansion, and the undo state belongs to one     *)
(* that a worker has begun.                                                *)
THEOREM TypesHold == Spec => []TypeOK
  <1>1. IInv => TypeOK
    <2>1. SUFFICES ASSUME IInv PROVE TypeOK
      OBVIOUS
    <2>2. DOMAIN jobs = Index
      BY <2>1, LenProperties DEF IInv, Typed, Index
    <2>3. ASSUME NEW j \in Index
          PROVE  /\ jobs[j].kind \in {"expand", "undo", "recase"}
                 /\ jobs[j].of \in 1..j /\ jobs[j].blame \subseteq Causes
      <3>1. jobs[j] \in JobType
        BY <2>1, ElementOfSeq DEF IInv, Typed, Index
      <3> QED  BY <2>1, <3>1 DEF IInv, Sources, JobType, JobKinds
    <2> QED  BY <2>1, <2>2, <2>3 DEF IInv, Typed, Sources, TypeOK
  <1> QED  BY <1>1, InvHolds, PTL

(* FastBuffer never tells the evaluator of text that is not before the     *)
(* caret, unless a key was missed, a shortcut edited, or someone typed     *)
(* under a job still at work.                                              *)
THEOREM BufferHolds == Spec => []BufferIsSuffix
  <1>1. IInv => BufferIsSuffix
    BY DEF IInv, Text
  <1> QED  BY <1>1, InvHolds, PTL

(* delete_count backspaces erase the trigger that matched, whatever the    *)
(* keys and the two workers did in between, of every job without blame.    *)
THEOREM TriggerHolds == Spec => []ErasesOwnTrigger
  <1>1. IInv => ErasesOwnTrigger
    BY DEF IInv, Text
  <1> QED  BY <1>1, InvHolds, PTL

(* An undo or a change of case erases what was put there and nothing of    *)
(* the user's, for every chain of changes of case and every order in which *)
(* the workers come to it, of every job without blame.                     *)
THEOREM OutputHolds == Spec => []ErasesOwnOutput
  <1>1. IInv => ErasesOwnOutput
    BY DEF IInv, Text
  <1> QED  BY <1>1, InvHolds, PTL

-----------------------------------------------------------------------------
(***************************************************************************)
(* The ring under the buffer.  The characters are counted from the end:    *)
(* the one j from the end is in slot At(capacity, head, j), and what the   *)
(* operations do to a ring is shown there once, with the remainders gone.  *)
(* Slots and head are data of these lemmas, so that the state and the next *)
(* one are both instances of them.                                         *)
(***************************************************************************)

(* The slot, from 0, of the character j from the end, in a ring of c slots *)
(* with its head at h                                                      *)
At(c, h, j) == IF h < j THEN h + c - j ELSE h - j

(* The head behind h *)
Behind(c, h) == IF h + 1 < c THEN h + 1 ELSE 0

LEMMA ModIs ==
    ASSUME NEW c \in Nat, c > 0, NEW x \in Nat, x < 2 * c
    PROVE  x % c = IF x < c THEN x ELSE x - c
  OBVIOUS

LEMMA AtIs ==
    ASSUME NEW c \in Nat, NEW h \in 0..c - 1, NEW j \in 0..c
    PROVE  /\ (h + c - j) % c = At(c, h, j)
           /\ At(c, h, j) \in 0..c - 1
           /\ At(c, h, j) % c = At(c, h, j)
<1>1. c > 0 /\ h + c - j \in Nat /\ h + c - j < 2 * c
  OBVIOUS
<1>2. (h + c - j) % c = IF h + c - j < c THEN h + c - j ELSE h + c - j - c
  BY <1>1, ModIs
<1>3. At(c, h, j) \in Nat /\ At(c, h, j) < c
  BY DEF At
<1>4. At(c, h, j) < 2 * c
  BY <1>3
<1>5. At(c, h, j) % c = At(c, h, j)
  BY <1>1, <1>3, <1>4, ModIs
<1> QED  BY <1>2, <1>3, <1>5 DEF At

LEMMA BehindIs ==
    ASSUME NEW c \in Nat, NEW h \in 0..c - 1
    PROVE  (h + 1) % c = Behind(c, h) /\ Behind(c, h) \in 0..c - 1
<1>1. c > 0 /\ h + 1 \in Nat /\ h + 1 < 2 * c
  OBVIOUS
<1>2. (h + 1) % c = IF h + 1 < c THEN h + 1 ELSE h + 1 - c
  BY <1>1, ModIs
<1> QED  BY <1>2 DEF Behind

(* From the oldest character on, and from the end back, is the same. *)
LEMMA PlaceIs ==
    ASSUME NEW c \in Nat, NEW h \in 0..c - 1, NEW n \in 0..c, NEW i \in 1..n
    PROVE  /\ (At(c, h, n) + i - 1) % c = At(c, h, n + 1 - i)
           /\ At(c, h, n + 1 - i) \in 0..c - 1
<1> DEFINE x == At(c, h, n) + i - 1
<1>1. c > 0 /\ x \in Nat /\ x < 2 * c
  BY DEF At
<1>2. x % c = IF x < c THEN x ELSE x - c
  <2> HIDE DEF x
  <2> QED  BY <1>1, ModIs
<1>3. At(c, h, n + 1 - i) \in 0..c - 1
  BY DEF At
<1>4. CASE h < n
  <2>1. x = h + c - n + i - 1
    BY <1>4 DEF At
  <2>2. At(c, h, n + 1 - i) = IF h + c - n + i - 1 < c THEN h + c - n + i - 1
                              ELSE h + c - n + i - 1 - c
    BY <1>4 DEF At
  <2> QED  BY <1>2, <1>3, <2>1, <2>2
<1>5. CASE h >= n
  <2>1. x = h - n + i - 1 /\ h - n + i - 1 < c
    BY <1>5 DEF At
  <2>2. At(c, h, n + 1 - i) = h - n + i - 1
    BY <1>5 DEF At
  <2> QED  BY <1>2, <1>3, <2>1, <2>2
<1> QED  BY <1>4, <1>5

LEMMA AtApart ==
    ASSUME NEW c \in Nat, NEW h \in 0..c - 1, NEW j \in 1..c, NEW k \in 0..c, j # k,
           k = 0 => j # c
    PROVE  At(c, h, j) # At(c, h, k)
  BY DEF At

LEMMA AtBack ==
    ASSUME NEW c \in Nat, NEW h \in 0..c - 1, NEW n \in 0..c, NEW j \in 0..c, n + j <= c
    PROVE  At(c, At(c, h, n), j) = At(c, h, n + j)
  BY DEF At

LEMMA AtBehind ==
    ASSUME NEW c \in Nat, NEW h \in 0..c - 1, NEW j \in 1..c
    PROVE  /\ At(c, Behind(c, h), j) = At(c, h, j - 1)
           /\ At(c, h, 0) = h
  BY DEF At, Behind

LEMMA AtAll ==
    ASSUME NEW c \in Nat, NEW h \in 0..c - 1, NEW i \in 0..c - 1
    PROVE  \E j \in 1..c : At(c, h, j) = i
<1>1. CASE i < h
  <2>1. h - i \in 1..c /\ At(c, h, h - i) = i
    BY <1>1 DEF At
  <2> QED  BY <2>1
<1>2. CASE i >= h
  <2>1. h + c - i \in 1..c /\ At(c, h, h + c - i) = i
    BY <1>2 DEF At
  <2> QED  BY <2>1
<1> QED  BY <1>1, <1>2

-----------------------------------------------------------------------------
(* What is read of a ring d whose head is at h and that holds n characters *)
Reading(d, h, n) == [i \in 1..n |-> d[At(Len(d), h, n + 1 - i) + 1]]

(* Its other slots are empty. *)
Blank(d, h, n) ==
    \A i \in 1..Len(d) : (\A j \in 1..n : i # At(Len(d), h, j) + 1) => d[i] = Nul

Ring(d, h, n) ==
    /\ CapacitiesFit
    /\ d \in Seq(Chars \cup {Nul}) /\ Len(d) \in InitialCapacity..MaxCapacity
    /\ h \in 0..Len(d) - 1 /\ n \in 0..Len(d)

LEMMA ReadingIs ==
    ASSUME NEW d, NEW h, NEW n, Ring(d, h, n)
    PROVE  /\ [i \in 1..n |-> d[((((h + Len(d) - n) % Len(d)) + i - 1) % Len(d)) + 1]]
                  = Reading(d, h, n)
           /\ Reading(d, h, n) \in Seq(Chars \cup {Nul})
           /\ Len(Reading(d, h, n)) = n
           /\ \A i \in 1..n : Reading(d, h, n)[i] = d[At(Len(d), h, n + 1 - i) + 1]
<1> DEFINE c == Len(d)
<1>1. c \in Nat /\ h \in 0..c - 1 /\ n \in 0..c
  BY DEF Ring
<1>2. (h + c - n) % c = At(c, h, n)
  BY <1>1, AtIs
<1>3. \A i \in 1..n : /\ (At(c, h, n) + i - 1) % c = At(c, h, n + 1 - i)
                      /\ At(c, h, n + 1 - i) \in 0..c - 1
  BY <1>1, PlaceIs
<1>4. \A i \in 1..n : d[At(c, h, n + 1 - i) + 1] \in Chars \cup {Nul}
  <2> SUFFICES ASSUME NEW i \in 1..n  PROVE d[At(c, h, n + 1 - i) + 1] \in Chars \cup {Nul}
    OBVIOUS
  <2>1. At(c, h, n + 1 - i) + 1 \in 1..Len(d)
    BY <1>1, <1>3
  <2> QED  BY <2>1 DEF Ring
<1>5. [i \in 1..n |-> d[((((h + c - n) % c) + i - 1) % c) + 1]] = Reading(d, h, n)
  BY <1>2, <1>3 DEF Reading
<1>6. Reading(d, h, n) \in Seq(Chars \cup {Nul}) /\ Len(Reading(d, h, n)) = n
  BY <1>1, <1>4 DEF Reading
<1> QED  BY <1>5, <1>6 DEF Reading

(* The state, and the next one, in these words *)
LEMMA NowIs ==
    ASSUME Ring(data, head, len)
    PROVE  /\ Contents = Reading(data, head, len)
           /\ Start = At(Capacity, head, len)
           /\ \A j \in 0..Capacity : /\ Back(j) = At(Capacity, head, j)
                                     /\ Back(j) \in 0..Capacity - 1
                                     /\ FromEnd(j) = data[At(Capacity, head, j) + 1]
           /\ NothingLeftBehind <=> Blank(data, head, len)
<1>1. Contents = Reading(data, head, len)
  BY ReadingIs DEF Contents, Slot, Start, Capacity
<1>2. Capacity \in Nat /\ head \in 0..Capacity - 1 /\ len \in 0..Capacity
  BY DEF Ring, Capacity
<1>3. Start = At(Capacity, head, len)
  BY <1>2, AtIs DEF Start
<1>4. \A j \in 0..Capacity : /\ Back(j) = At(Capacity, head, j)
                             /\ Back(j) \in 0..Capacity - 1
                             /\ At(Capacity, head, j) % Capacity = At(Capacity, head, j)
  BY <1>2, AtIs DEF Back
<1>5. NothingLeftBehind <=> Blank(data, head, len)
  <2>1. 1..len \subseteq 0..Capacity
    BY <1>2
  <2> QED  BY <1>4, <2>1 DEF NothingLeftBehind, Blank, Capacity
<1> QED  BY <1>1, <1>3, <1>4, <1>5 DEF FromEnd, Slot

LEMMA NextIs ==
    ASSUME Ring(data', head', len')
    PROVE  /\ Contents' = Reading(data', head', len')
           /\ Start' = At(Len(data'), head', len')
           /\ NothingLeftBehind' <=> Blank(data', head', len')
<1>1. Contents' = Reading(data', head', len')
  BY ReadingIs DEF Contents, Slot, Start, Capacity
<1>2. Len(data') \in Nat /\ head' \in 0..Len(data') - 1 /\ len' \in 0..Len(data')
  BY DEF Ring
<1>3. Start' = At(Len(data'), head', len')
  BY <1>2, AtIs DEF Start, Capacity
<1>4. \A j \in 0..Len(data') : (head' + Len(data') - j) % Len(data') = At(Len(data'), head', j)
  BY <1>2, AtIs
<1>5. NothingLeftBehind' <=> Blank(data', head', len')
  <2>1. 1..len' \subseteq 0..Len(data')
    BY <1>2
  <2> QED  BY <1>4, <2>1 DEF NothingLeftBehind, Blank, Back, Capacity
<1> QED  BY <1>1, <1>3, <1>5

-----------------------------------------------------------------------------
(* What the operations do to a ring *)

Cut(d, h, m) == [i \in 1..Len(d) |-> IF \E j \in 1..m : i = At(Len(d), h, j) + 1 THEN Nul ELSE d[i]]
Put(d, h, x) == [d EXCEPT ![h + 1] = x]
Copy(r, n, g) == [i \in 1..g |-> IF i <= n THEN r[i] ELSE Nul]
More(d, n) == IF n < Len(d) THEN n + 1 ELSE n

(* The last m characters are taken back. *)
LEMMA CutIs ==
    ASSUME NEW d, NEW h, NEW n, NEW m \in 0..n, Ring(d, h, n), Blank(d, h, n)
    PROVE  /\ Ring(Cut(d, h, m), At(Len(d), h, m), n - m) /\ Len(Cut(d, h, m)) = Len(d)
           /\ Blank(Cut(d, h, m), At(Len(d), h, m), n - m)
           /\ Reading(Cut(d, h, m), At(Len(d), h, m), n - m) = SubSeq(Reading(d, h, n), 1, n - m)
           /\ At(Len(d), At(Len(d), h, m), n - m) = At(Len(d), h, n)
<1> DEFINE c == Len(d)
           e == Cut(d, h, m)
           g == At(c, h, m)
<1>1. /\ c \in Nat /\ c > 0 /\ h \in 0..c - 1 /\ n \in 0..c /\ m \in 0..c /\ n - m \in 0..c
      /\ n \in Nat /\ m \in Nat
  BY DEF Ring, CapacitiesFit
<1>2. /\ e \in Seq(Chars \cup {Nul}) /\ Len(e) = c
      /\ \A i \in 1..c : e[i] = IF \E j \in 1..m : i = At(c, h, j) + 1 THEN Nul ELSE d[i]
  <2>1. \A i \in 1..c : d[i] \in Chars \cup {Nul}
    BY DEF Ring
  <2>2. \A i \in 1..c : (IF \E j \in 1..m : i = At(c, h, j) + 1 THEN Nul ELSE d[i]) \in Chars \cup {Nul}
    BY <2>1
  <2> HIDE DEF c
  <2> QED  BY <1>1, <2>2 DEF Cut, c
<1>3. g \in 0..c - 1
  BY <1>1, AtIs
<1>4. Ring(e, g, n - m)
  BY <1>1, <1>2, <1>3 DEF Ring
<1>5. \A j \in 0..n - m : At(c, g, j) = At(c, h, m + j)
  <2> SUFFICES ASSUME NEW j \in 0..n - m  PROVE At(c, g, j) = At(c, h, m + j)
    OBVIOUS
  <2>1. j \in 0..c /\ m + j <= c
    BY <1>1
  <2> QED  BY <1>1, <2>1, AtBack
<1>6. Blank(e, g, n - m)
  <2> SUFFICES ASSUME NEW i \in 1..c, \A j \in 1..n - m : i # At(c, g, j) + 1
               PROVE  e[i] = Nul
    BY <1>2 DEF Blank
  <2>1. CASE \E j \in 1..m : i = At(c, h, j) + 1
    BY <1>2, <2>1
  <2>2. CASE \A j \in 1..m : i # At(c, h, j) + 1
    <3>1. \A j \in 1..n : i # At(c, h, j) + 1
      <4> SUFFICES ASSUME NEW j \in 1..n, j > m  PROVE i # At(c, h, j) + 1
        BY <1>1, <2>2
      <4>1. j - m \in 1..n - m /\ j - m \in 0..n - m /\ m + (j - m) = j
        BY <1>1
      <4> QED  BY <1>5, <4>1
    <3> QED  BY <1>2, <2>2, <3>1 DEF Blank
  <2> QED  BY <2>1, <2>2
<1>7. Reading(e, g, n - m) = SubSeq(Reading(d, h, n), 1, n - m)
  <2> DEFINE r == Reading(d, h, n)
             q == Reading(e, g, n - m)
  <2>1. /\ r \in Seq(Chars \cup {Nul}) /\ Len(r) = n
        /\ \A i \in 1..n : r[i] = d[At(c, h, n + 1 - i) + 1]
    BY ReadingIs
  <2>2. /\ q \in Seq(Chars \cup {Nul}) /\ Len(q) = n - m
        /\ \A i \in 1..n - m : q[i] = e[At(c, g, n - m + 1 - i) + 1]
    <3>1. Len(e) = c
      BY <1>2
    <3> HIDE DEF e, c
    <3> QED  BY <1>4, <3>1, ReadingIs
  <2>3. ASSUME NEW i \in 1..n - m  PROVE q[i] = r[i]
    <3>1. i \in 1..n /\ n - m + 1 - i \in 0..n - m /\ m + (n - m + 1 - i) = n + 1 - i
      BY <1>1
    <3>2. q[i] = e[At(c, h, n + 1 - i) + 1]
      <4>1. At(c, g, n - m + 1 - i) = At(c, h, n + 1 - i)
        BY <1>5, <3>1
      <4> HIDE DEF q, e, c, g
      <4> QED  BY <2>2, <4>1
    <3>3. At(c, h, n + 1 - i) + 1 \in 1..c
      <4>1. At(c, h, n + 1 - i) \in 0..c - 1
        BY <1>1, <3>1, PlaceIs
      <4> QED  BY <1>1, <4>1
    <3>4. \A j \in 1..m : At(c, h, n + 1 - i) # At(c, h, j)
      <4> SUFFICES ASSUME NEW j \in 1..m  PROVE At(c, h, n + 1 - i) # At(c, h, j)
        OBVIOUS
      <4>1. j \in 0..c /\ n + 1 - i \in 1..c /\ n + 1 - i # j /\ j # 0
        BY <1>1
      <4> QED  BY <1>1, <4>1, AtApart
    <3>5. \A j \in 1..m : At(c, h, n + 1 - i) + 1 # At(c, h, j) + 1
      <4> SUFFICES ASSUME NEW j \in 1..m  PROVE At(c, h, n + 1 - i) + 1 # At(c, h, j) + 1
        OBVIOUS
      <4>1. j \in 0..c
        BY <1>1
      <4>2. At(c, h, j) \in 0..c - 1 /\ At(c, h, n + 1 - i) \in 0..c - 1
        BY <1>1, <3>1, <4>1, AtIs, PlaceIs
      <4> QED  BY <3>4, <4>2
    <3>6. e[At(c, h, n + 1 - i) + 1] = d[At(c, h, n + 1 - i) + 1]
      <4> HIDE DEF e, c
      <4> QED  BY <1>2, <3>3, <3>5
    <3> QED  BY <2>1, <3>1, <3>2, <3>6
  <2> DEFINE t == SubSeq(r, 1, n - m)
  <2>4. t \in Seq(Chars \cup {Nul}) /\ Len(t) = n - m /\ \A i \in 1..n - m : t[i] = r[i]
    BY <1>1, <2>1
  <2>5. Len(q) = Len(t) /\ \A i \in 1..Len(q) : q[i] = t[i]
    <3> HIDE DEF q, r, t
    <3> QED  BY <2>2, <2>3, <2>4
  <2> HIDE DEF q, t
  <2>6. q = t
    BY <2>2, <2>4, <2>5, SeqEqual
  <2> QED  BY <2>6 DEF q, t
<1> QED  BY <1>1, <1>2, <1>4, <1>5, <1>6, <1>7

(* A character is written at the head, over the oldest one of a full ring. *)
LEMMA PutIs ==
    ASSUME NEW d, NEW h, NEW n, NEW x \in Chars, Ring(d, h, n), Blank(d, h, n)
    PROVE  /\ Ring(Put(d, h, x), Behind(Len(d), h), More(d, n)) /\ Len(Put(d, h, x)) = Len(d)
           /\ Blank(Put(d, h, x), Behind(Len(d), h), More(d, n))
           /\ Reading(Put(d, h, x), Behind(Len(d), h), More(d, n)) =
                 IF n < Len(d) THEN Append(Reading(d, h, n), x)
                 ELSE Tail(Append(Reading(d, h, n), x))
           /\ n < Len(d) => At(Len(d), Behind(Len(d), h), More(d, n)) = At(Len(d), h, n)
<1> DEFINE c == Len(d)
           e == Put(d, h, x)
           g == Behind(c, h)
           k == More(d, n)
           r == Reading(d, h, n)
<1>1. /\ c \in Nat /\ c > 0 /\ h \in 0..c - 1 /\ n \in 0..c /\ n \in Nat
      /\ k \in 1..c /\ (n < c => k = n + 1) /\ (~(n < c) => n = c /\ k = c)
  BY DEF Ring, CapacitiesFit, More
<1>2. /\ e \in Seq(Chars \cup {Nul}) /\ Len(e) = c
      /\ \A i \in 1..c : e[i] = IF i = h + 1 THEN x ELSE d[i]
  BY <1>1 DEF Ring, Put
<1>3. g \in 0..c - 1
  BY <1>1, BehindIs
<1>4. Ring(e, g, k)
  BY <1>1, <1>2, <1>3 DEF Ring
<1>5. /\ \A j \in 1..c : At(c, g, j) = At(c, h, j - 1)
      /\ At(c, h, 0) = h
  BY <1>1, AtBehind
<1>6. Blank(e, g, k)
  <2> SUFFICES ASSUME NEW i \in 1..c, \A j \in 1..k : i # At(c, g, j) + 1
               PROVE  e[i] = Nul
    BY <1>2 DEF Blank
  <2>1. i # h + 1
    <3>1. 1 \in 1..k /\ 1 \in 1..c /\ 1 - 1 = 0
      BY <1>1
    <3> QED  BY <1>5, <3>1
  <2>2. \A j \in 1..n : i # At(c, h, j) + 1
    <3> SUFFICES ASSUME NEW j \in 1..n, i = At(c, h, j) + 1  PROVE FALSE
      OBVIOUS
    <3>1. CASE j < c
      <4>1. j + 1 \in 1..k /\ j + 1 \in 1..c /\ j + 1 - 1 = j
        BY <1>1, <3>1
      <4> QED  BY <1>5, <4>1
    <3>2. CASE j = c
      <4>1. At(c, h, j) = h
        BY <1>1, <3>2 DEF At
      <4> QED  BY <2>1, <4>1
    <3> QED  BY <1>1, <3>1, <3>2
  <2> QED  BY <1>2, <2>1, <2>2 DEF Blank
<1>7. n < c => At(c, g, k) = At(c, h, n)
  <2> SUFFICES ASSUME n < c  PROVE At(c, g, k) = At(c, h, n)
    OBVIOUS
  <2>1. k = n + 1 /\ k - 1 = n
    BY <1>1
  <2> HIDE DEF k
  <2> QED  BY <1>1, <1>5, <2>1
<1>8. /\ r \in Seq(Chars \cup {Nul}) /\ Len(r) = n
      /\ \A i \in 1..n : r[i] = d[At(c, h, n + 1 - i) + 1]
  BY ReadingIs
<1> DEFINE q == Reading(e, g, k)
           t == Append(r, x)
           u == IF n < c THEN t ELSE Tail(t)
<1>9. /\ q \in Seq(Chars \cup {Nul}) /\ Len(q) = k
      /\ \A i \in 1..k : q[i] = e[At(c, h, k - i) + 1]
  <2>1. /\ q \in Seq(Chars \cup {Nul}) /\ Len(q) = k
        /\ \A i \in 1..k : q[i] = e[At(Len(e), g, k + 1 - i) + 1]
    <3> HIDE DEF e, g, k
    <3> QED  BY <1>4, ReadingIs
  <2> HIDE DEF c, g, k, e
  <2>2. \A i \in 1..k : At(c, g, k + 1 - i) = At(c, h, k - i)
    <3> SUFFICES ASSUME NEW i \in 1..k  PROVE At(c, g, k + 1 - i) = At(c, h, k - i)
      OBVIOUS
    <3>1. k + 1 - i \in 1..c
      BY <1>1
    <3>2. PICK j \in 1..c : j = k + 1 - i
      BY <3>1
    <3>3. At(c, g, j) = At(c, h, j - 1) /\ j - 1 = k - i
      BY <1>1, <1>5, <3>2
    <3> QED  BY <3>2, <3>3
  <2> HIDE DEF q
  <2> QED  BY <1>2, <2>1, <2>2
<1>10. \A i \in 1..k : q[i] = IF i = k THEN x ELSE d[At(c, h, k - i) + 1]
  <2> SUFFICES ASSUME NEW i \in 1..k
               PROVE  q[i] = IF i = k THEN x ELSE d[At(c, h, k - i) + 1]
    OBVIOUS
  <2> HIDE DEF q, k, c, e
  <2>1. CASE i = k
    <3>1. k - i = 0 /\ h + 1 \in 1..c
      BY <1>1, <2>1
    <3>2. q[i] = e[h + 1]
      BY <1>5, <1>9, <3>1
    <3> QED  BY <1>2, <2>1, <3>1, <3>2
  <2>2. CASE i # k
    <3>1. k - i \in 1..c /\ k - i # 0 /\ k - i # c /\ 0 \in 0..c /\ k - i \in 0..c
      BY <1>1, <2>2
    <3>2. At(c, h, k - i) \in 0..c - 1
      BY <1>1, <3>1, AtIs
    <3>3. At(c, h, k - i) # h
      BY <1>1, <1>5, <3>1, AtApart
    <3>4. At(c, h, k - i) + 1 \in 1..c /\ At(c, h, k - i) + 1 # h + 1
      BY <1>1, <3>2, <3>3
    <3> QED  BY <1>2, <1>9, <2>2, <3>4
  <2> QED  BY <2>1, <2>2
<1>11. q = u
  <2>1. /\ t \in Seq(Chars \cup {Nul}) /\ Len(t) = n + 1
        /\ \A i \in 1..n + 1 : t[i] = IF i = n + 1 THEN x ELSE r[i]
    <3> HIDE DEF r
    <3> QED  BY <1>1, <1>8
  <2>2. /\ u \in Seq(Chars \cup {Nul}) /\ Len(u) = k
        /\ \A i \in 1..k : u[i] = IF n < c THEN t[i] ELSE t[i + 1]
    <3> HIDE DEF t, k, c
    <3>1. CASE n < c
      BY <1>1, <2>1, <3>1
    <3>2. CASE ~(n < c)
      <4>1. t # <<>> /\ Len(t) = k + 1
        BY <1>1, <2>1, <3>2
      <4> QED  BY <1>1, <2>1, <3>2, <4>1
    <3> QED  BY <3>1, <3>2
  <2>3. \A i \in 1..k : q[i] = u[i]
    <3> SUFFICES ASSUME NEW i \in 1..k  PROVE q[i] = u[i]
      OBVIOUS
    <3> HIDE DEF q, u, t, r, k, c
    <3>1. CASE n < c
      <4>1. k = n + 1 /\ i \in 1..n + 1 /\ (i # k => i \in 1..n) /\ k - i = n + 1 - i
        BY <1>1, <3>1
      <4> QED  BY <1>8, <1>10, <2>1, <2>2, <3>1, <4>1
    <3>2. CASE ~(n < c)
      <4>1. k = n /\ i + 1 \in 1..n + 1 /\ (i # k => i + 1 \in 1..n) /\ (i # k <=> i + 1 # n + 1)
        BY <1>1, <3>2
      <4>2. n + 1 - (i + 1) = k - i
        BY <1>1, <4>1
      <4>3. u[i] = t[i + 1]
        BY <2>2, <3>2
      <4>4. CASE i = k
        <5>1. q[i] = x /\ t[i + 1] = x
          BY <1>10, <2>1, <4>1, <4>4
        <5> QED  BY <4>3, <5>1
      <4>5. CASE i # k
        <5>1. q[i] = d[At(c, h, k - i) + 1]
          BY <1>10, <4>5
        <5>2. t[i + 1] = r[i + 1]
          BY <2>1, <4>1, <4>5
        <5>3. r[i + 1] = d[At(c, h, n + 1 - (i + 1)) + 1]
          BY <1>8, <4>1, <4>5
        <5> QED  BY <4>2, <4>3, <5>1, <5>2, <5>3
      <4> QED  BY <4>4, <4>5
    <3> QED  BY <3>1, <3>2
  <2>4. Len(q) = Len(u) /\ \A i \in 1..Len(q) : q[i] = u[i]
    <3> HIDE DEF q, u, k
    <3> QED  BY <1>9, <2>2, <2>3
  <2> HIDE DEF q, u
  <2> QED  BY <1>9, <2>2, <2>4, SeqEqual
<1> QED  BY <1>2, <1>4, <1>6, <1>7, <1>11

(* A full ring is copied into a larger one, the oldest character first. *)
LEMMA GrownIs ==
    ASSUME NEW d, NEW h, NEW n, Ring(d, h, n), n = Len(d),
           NEW g \in Nat, Len(d) < g, g <= MaxCapacity
    PROVE  LET e == Copy(Reading(d, h, n), n, g)
           IN  /\ Ring(e, n, n) /\ Len(e) = g /\ Blank(e, n, n)
               /\ Reading(e, n, n) = Reading(d, h, n)
               /\ At(g, n, n) = 0
<1> DEFINE r == Reading(d, h, n)
           e == Copy(r, n, g)
<1>1. n \in Nat /\ n < g /\ n \in 0..g - 1 /\ InitialCapacity <= n
  BY DEF Ring, CapacitiesFit
<1>2. r \in Seq(Chars \cup {Nul}) /\ Len(r) = n
  BY ReadingIs
<1>3. \A i \in 1..g : (IF i <= n THEN r[i] ELSE Nul) \in Chars \cup {Nul}
  <2> SUFFICES ASSUME NEW i \in 1..g, i <= n  PROVE r[i] \in Chars \cup {Nul}
    OBVIOUS
  <2>1. i \in 1..Len(r)
    BY <1>1, <1>2
  <2> HIDE DEF r
  <2> QED  BY <1>2, <2>1
<1>4. /\ e \in Seq(Chars \cup {Nul}) /\ Len(e) = g
      /\ \A i \in 1..g : e[i] = IF i <= n THEN r[i] ELSE Nul
  <2> HIDE DEF r
  <2>1. e = [i \in 1..g |-> IF i <= n THEN r[i] ELSE Nul]
    BY DEF Copy
  <2> HIDE DEF e
  <2> QED  BY <1>3, <2>1
<1> HIDE DEF e
<1>5. Ring(e, n, n)
  BY <1>1, <1>4 DEF Ring, CapacitiesFit
<1>6. \A j \in 1..n : At(g, n, j) = n - j
  BY <1>1 DEF At
<1>7. Blank(e, n, n)
  <2> SUFFICES ASSUME NEW i \in 1..g, \A j \in 1..n : i # At(g, n, j) + 1
               PROVE  e[i] = Nul
    BY <1>4 DEF Blank
  <2>1. ~(i <= n)
    <3> SUFFICES ASSUME i <= n  PROVE FALSE
      OBVIOUS
    <3>1. n + 1 - i \in 1..n /\ n - (n + 1 - i) + 1 = i
      BY <1>1
    <3> QED  BY <1>6, <3>1
  <2> QED  BY <1>4, <2>1
<1>8. Reading(e, n, n) = r
  <2> DEFINE q == Reading(e, n, n)
  <2>1. /\ q \in Seq(Chars \cup {Nul}) /\ Len(q) = n
        /\ \A i \in 1..n : q[i] = e[At(g, n, n + 1 - i) + 1]
    <3>1. Len(e) = g
      BY <1>4
    <3>2. /\ q \in Seq(Chars \cup {Nul}) /\ Len(q) = n
          /\ \A i \in 1..n : q[i] = e[At(Len(e), n, n + 1 - i) + 1]
      BY <1>5, ReadingIs
    <3> HIDE DEF q
    <3> QED  BY <3>1, <3>2
  <2>2. \A i \in 1..n : q[i] = r[i]
    <3> SUFFICES ASSUME NEW i \in 1..n  PROVE q[i] = r[i]
      OBVIOUS
    <3>1. n + 1 - i \in 1..n /\ n - (n + 1 - i) + 1 = i /\ i \in 1..g /\ i <= n
      BY <1>1
    <3> HIDE DEF q, r
    <3> QED  BY <1>4, <1>6, <2>1, <3>1
  <2>3. Len(q) = Len(r) /\ \A i \in 1..Len(q) : q[i] = r[i]
    <3> HIDE DEF q, r
    <3> QED  BY <1>2, <2>1, <2>2
  <2> HIDE DEF q, r
  <2>4. q = r
    BY <1>2, <2>1, <2>3, SeqEqual
  <2> QED  BY <2>4 DEF q
<1>9. At(g, n, n) = 0
  BY <1>1 DEF At
<1> QED  BY <1>4, <1>5, <1>7, <1>8, <1>9 DEF e

-----------------------------------------------------------------------------
(* The steps *)

RingInv == CapacitiesFit /\ RingTypeOK /\ NothingLeftBehind /\ WrapsOnlyWhenFull

LEMMA InvIs ==
    ASSUME RingInv
    PROVE  /\ Ring(data, head, len) /\ Blank(data, head, len)
           /\ Capacity < MaxCapacity => At(Capacity, head, len) = 0
           /\ Contents = Reading(data, head, len)
           /\ Contents \in Seq(Chars \cup {Nul}) /\ Len(Contents) = len
           /\ len \in Nat /\ Capacity \in Nat /\ MaxCapacity \in Nat
           /\ Capacity > 0 /\ Capacity <= MaxCapacity /\ len <= Capacity
<1>1. Ring(data, head, len)
  BY DEF RingInv, RingTypeOK, Ring, Capacity
<1>2. Contents \in Seq(Chars \cup {Nul}) /\ Len(Contents) = len
  BY <1>1, NowIs, ReadingIs
<1>3. /\ len \in Nat /\ Capacity \in Nat /\ MaxCapacity \in Nat
      /\ Capacity > 0 /\ Capacity <= MaxCapacity /\ len <= Capacity
  BY DEF RingInv, CapacitiesFit, RingTypeOK
<1> QED  BY <1>1, <1>2, <1>3, NowIs DEF RingInv, WrapsOnlyWhenFull

(* The walk back from the head *)
LEMMA EndIs ==
    ASSUME RingInv
    PROVE  \A j \in 1..len : FromEnd(j) = Contents[len + 1 - j]
<1> SUFFICES ASSUME NEW j \in 1..len  PROVE FromEnd(j) = Contents[len + 1 - j]
  OBVIOUS
<1> DEFINE r == Reading(data, head, len)
<1>0. Ring(data, head, len)
  BY InvIs
<1>1. /\ Ring(data, head, len) /\ len \in Nat /\ Capacity \in Nat /\ len <= Capacity
      /\ Contents = r
  BY InvIs
<1>2. PICK i \in 1..len : i = len + 1 - j
  BY <1>1
<1>3. Contents[i] = data[At(Capacity, head, len + 1 - i) + 1] /\ len + 1 - i = j
  <2>1. \A k \in 1..len : r[k] = data[At(Len(data), head, len + 1 - k) + 1]
    BY <1>0, ReadingIs
  <2> HIDE DEF r
  <2>2. len + 1 - i = j
    BY <1>1, <1>2
  <2> QED  BY <1>1, <2>1, <2>2 DEF Capacity
<1>4. FromEnd(j) = data[At(Capacity, head, j) + 1]
  BY <1>1, NowIs
<1> QED  BY <1>2, <1>3, <1>4

LEMMA InvNext ==
    ASSUME Ring(data', head', len'), Blank(data', head', len'),
           Len(data') < MaxCapacity => At(Len(data'), head', len') = 0
    PROVE  RingInv'
<1>1. RingTypeOK'
  BY DEF RingTypeOK, Ring, Capacity
<1>2. NothingLeftBehind' /\ WrapsOnlyWhenFull'
  BY NextIs DEF WrapsOnlyWhenFull, Capacity
<1>3. CapacitiesFit'
  BY DEF Ring, CapacitiesFit
<1> QED  BY <1>1, <1>2, <1>3 DEF RingInv

LEMMA StepPush ==
    ASSUME RingInv, NEW x \in Chars, Push(x)
    PROVE  RingInv' /\ TheText!Type(x)
<1>1. /\ Ring(data, head, len) /\ Blank(data, head, len)
      /\ Capacity < MaxCapacity => At(Capacity, head, len) = 0
      /\ Contents = Reading(data, head, len)
      /\ Contents \in Seq(Chars \cup {Nul}) /\ Len(Contents) = len
      /\ len \in Nat /\ Capacity \in Nat /\ MaxCapacity \in Nat
      /\ Capacity > 0 /\ Capacity <= MaxCapacity /\ len <= Capacity
  BY InvIs
<1> DEFINE t == Append(Contents, x)
<1>2. Len(t) = len + 1
  BY <1>1
<1>3. CASE len < Capacity \/ Capacity >= MaxCapacity
  <2>1. data' = Put(data, head, x) /\ head' = (head + 1) % Len(data) /\ len' = More(data, len)
    BY <1>3 DEF Push, Store, Put, More
  <2>2. (head + 1) % Len(data) = Behind(Len(data), head)
    BY <1>1, BehindIs DEF Ring, Capacity
  <2>3. /\ Ring(data', head', len') /\ Len(data') = Len(data) /\ Blank(data', head', len')
        /\ Reading(data', head', len') = IF len < Len(data) THEN t ELSE Tail(t)
        /\ len < Len(data) => At(Len(data), head', len') = At(Len(data), head, len)
    <3>1. /\ Ring(Put(data, head, x), Behind(Len(data), head), More(data, len))
          /\ Len(Put(data, head, x)) = Len(data)
          /\ Blank(Put(data, head, x), Behind(Len(data), head), More(data, len))
          /\ Reading(Put(data, head, x), Behind(Len(data), head), More(data, len)) =
                IF len < Len(data) THEN Append(Reading(data, head, len), x)
                ELSE Tail(Append(Reading(data, head, len), x))
          /\ len < Len(data) =>
                At(Len(data), Behind(Len(data), head), More(data, len)) = At(Len(data), head, len)
      BY <1>1, PutIs
    <3>2. head' = Behind(Len(data), head)
      BY <2>1, <2>2
    <3> QED  BY <1>1, <2>1, <3>1, <3>2
  <2>4. RingInv'
    <3>1. Len(data') < MaxCapacity => At(Len(data'), head', len') = 0
      BY <1>1, <1>3, <2>3 DEF Capacity
    <3> QED  BY <2>3, <3>1, InvNext
  <2>5. Contents' = IF Len(t) > MaxCapacity THEN Tail(t) ELSE t
    <3>1. len < Len(data) <=> ~(Len(t) > MaxCapacity)
      BY <1>1, <1>2, <1>3 DEF Capacity
    <3> QED  BY <2>3, <3>1, NextIs
  <2> QED  BY <2>4, <2>5 DEF TheText!Type, TheText!Recent
<1>4. CASE ~(len < Capacity \/ Capacity >= MaxCapacity)
  <2> DEFINE g == IF 2 * Capacity < MaxCapacity THEN 2 * Capacity ELSE MaxCapacity
             e == Copy(Reading(data, head, len), len, g)
  <2>1. len = Len(data) /\ g \in Nat /\ Len(data) < g /\ g <= MaxCapacity /\ len < g
    BY <1>1, <1>4 DEF Capacity
  <2>2. /\ Ring(e, len, len) /\ Len(e) = g /\ Blank(e, len, len)
        /\ Reading(e, len, len) = Contents
        /\ At(g, len, len) = 0
    <3> HIDE DEF g
    <3> QED  BY <1>1, <2>1, GrownIs
  <2>3. Grown = e
    <3>1. \A i \in 1..g : i <= len => Slot(Start + i - 1) = Contents[i]
      BY <2>1, <1>1 DEF Contents
    <3> QED  BY <1>1, <3>1 DEF Grown, Copy
  <2> HIDE DEF e, g
  <2>4. data' = Put(e, len, x) /\ head' = (len + 1) % Len(e) /\ len' = More(e, len)
    BY <1>4, <2>3 DEF Push, Store, Put, More
  <2>5. (len + 1) % Len(e) = Behind(Len(e), len)
    BY <2>1, <2>2, BehindIs DEF Ring
  <2>6. /\ Ring(data', head', len') /\ Len(data') = g /\ Blank(data', head', len')
        /\ Reading(data', head', len') = t
        /\ At(g, head', len') = 0
    BY <2>1, <2>2, <2>4, <2>5, PutIs
  <2>7. RingInv'
    BY <2>6, InvNext
  <2>8. Contents' = IF Len(t) > MaxCapacity THEN Tail(t) ELSE t
    <3>1. ~(Len(t) > MaxCapacity)
      BY <1>1, <1>2, <2>1
    <3> QED  BY <2>6, <3>1, NextIs
  <2> QED  BY <2>7, <2>8 DEF TheText!Type, TheText!Recent
<1> QED  BY <1>3, <1>4

LEMMA StepDrop ==
    ASSUME RingInv, NEW n \in 0..len, Drop(n)
    PROVE  RingInv' /\ TheText!Keep(len - n)
<1>1. /\ Ring(data, head, len) /\ Blank(data, head, len)
      /\ Capacity < MaxCapacity => At(Capacity, head, len) = 0
      /\ Contents = Reading(data, head, len)
      /\ len \in Nat /\ Capacity \in Nat /\ len <= Capacity
  BY InvIs
<1>2. /\ \A j \in 0..Capacity : Back(j) = At(Capacity, head, j)
      /\ 1..n \subseteq 0..Capacity /\ n \in 0..Capacity
  BY <1>1, NowIs
<1>3. data' = Cut(data, head, n) /\ head' = At(Len(data), head, n) /\ len' = len - n
  <2>1. \A i \in 1..Capacity :
          (\E j \in 1..n : i = Back(j) + 1) <=> (\E j \in 1..n : i = At(Capacity, head, j) + 1)
    BY <1>2
  <2> QED  BY <1>2, <2>1 DEF Drop, Cut, Capacity
<1>4. /\ Ring(data', head', len') /\ Len(data') = Len(data) /\ Blank(data', head', len')
      /\ Reading(data', head', len') = SubSeq(Contents, 1, len - n)
      /\ At(Len(data), head', len') = At(Len(data), head, len)
  BY <1>1, <1>3, CutIs
<1>5. RingInv'
  <2>1. Len(data') < MaxCapacity => At(Len(data'), head', len') = 0
    BY <1>1, <1>4 DEF Capacity
  <2> QED  BY <1>4, <2>1, InvNext
<1>6. Contents' = SubSeq(Contents, 1, len - n)
  BY <1>4, NextIs
<1> QED  BY <1>5, <1>6 DEF TheText!Keep

LEMMA StepClear ==
    ASSUME RingInv, Clear
    PROVE  RingInv' /\ TheText!Forget
<1>1. /\ Len(data) \in Nat /\ Len(data) > 0 /\ Len(data) \in InitialCapacity..MaxCapacity
      /\ data' = Empty(Len(data)) /\ head' = 0 /\ len' = 0
  BY DEF RingInv, CapacitiesFit, RingTypeOK, Clear, Capacity
<1>2. /\ data' \in Seq(Chars \cup {Nul}) /\ Len(data') = Len(data)
      /\ \A i \in 1..Len(data) : data'[i] = Nul
  BY <1>1 DEF Empty
<1>3. Ring(data', head', len') /\ Blank(data', head', len') /\ At(Len(data'), head', len') = 0
  BY <1>1, <1>2 DEF RingInv, Ring, Blank, At
<1>4. RingInv'
  BY <1>3, InvNext
<1>5. Contents' = <<>>
  <2>1. Contents' \in Seq(Chars \cup {Nul}) /\ Len(Contents') = 0
    BY <1>1, <1>3, NextIs, ReadingIs
  <2> QED  BY <2>1
<1> QED  BY <1>4, <1>5 DEF TheText!Forget

LEMMA StepPopN ==
    ASSUME RingInv, NEW n \in 1..MaxCapacity, PopN(n)
    PROVE  RingInv' /\ TheText!Erase(n)
<1> DEFINE k == IF n < len THEN n ELSE len
<1>1. len \in Nat /\ MaxCapacity \in Nat /\ Len(Contents) = len
  BY InvIs
<1>2. k \in 0..len /\ Drop(k) /\ len - k = IF n < len THEN len - n ELSE 0
  BY <1>1 DEF PopN
<1> HIDE DEF k
<1>3. RingInv' /\ TheText!Keep(len - k)
  BY <1>2, StepDrop
<1> QED  BY <1>1, <1>2, <1>3 DEF TheText!Erase

LEMMA StepPopWord ==
    ASSUME RingInv, PopWord
    PROVE  RingInv' /\ TheText!EraseWord
<1>1. PICK n \in 0..len : (\E m \in 0..n : WordIs(m, n)) /\ Drop(n)
  BY DEF PopWord
<1>2. PICK m \in 0..n : WordIs(m, n)
  BY <1>1
<1>3. len \in Nat /\ Len(Contents) = len /\ n \in Nat /\ m \in Nat /\ m <= n /\ n <= len
  BY <1>1, <1>2, InvIs
<1>4. RingInv' /\ TheText!Keep(len - n)
  BY <1>1, StepDrop
<1>5. \A j \in 1..len : FromEnd(j) = Contents[len + 1 - j]
  BY EndIs
<1> DEFINE a == len - n
           b == len - m
<1>6. a \in 0..Len(Contents) /\ b \in a..Len(Contents) /\ b \in Nat /\ a \in Nat
  BY <1>3
<1>7. \A i \in b + 1..Len(Contents) : Contents[i] \in Whitespace
  <2> SUFFICES ASSUME NEW i \in b + 1..Len(Contents)  PROVE Contents[i] \in Whitespace
    OBVIOUS
  <2>1. PICK j \in 1..m : j = len + 1 - i
    BY <1>3
  <2>2. len + 1 - j = i /\ j \in 1..len
    BY <1>3, <2>1
  <2> QED  BY <1>2, <1>5, <2>1, <2>2 DEF WordIs
<1>8. b > 0 => /\ Contents[b] \notin Whitespace /\ a < b
               /\ FromEnd(m + 1) = Contents[b]
  <2> SUFFICES ASSUME b > 0
               PROVE  /\ Contents[b] \notin Whitespace /\ a < b
                      /\ FromEnd(m + 1) = Contents[b]
    OBVIOUS
  <2>1. m < len /\ m + 1 \in 1..len /\ len + 1 - (m + 1) = b
    BY <1>3
  <2>2. FromEnd(m + 1) \notin Whitespace /\ m < n
    BY <1>2, <2>1 DEF WordIs
  <2>3. FromEnd(m + 1) = Contents[b]
    BY <1>5, <2>1
  <2> QED  BY <1>3, <2>2, <2>3
<1>9. \A i \in a + 1..b : TheText!Alike(Contents[i], Contents[b])
  <2> SUFFICES ASSUME NEW i \in a + 1..b
               PROVE  TheText!Alike(Contents[i], Contents[b])
    OBVIOUS
  <2>1. PICK j \in m + 1..n : j = len + 1 - i
    BY <1>3
  <2>2. len + 1 - j = i /\ j \in 1..len /\ b > 0
    BY <1>3, <2>1
  <2>3. /\ FromEnd(j) \notin Whitespace
        /\ FromEnd(j) \in Alphanumeric <=> FromEnd(m + 1) \in Alphanumeric
    BY <1>2, <2>1 DEF WordIs
  <2>4. FromEnd(j) = Contents[i]
    BY <1>5, <2>2
  <2> HIDE DEF b
  <2> QED  BY <1>8, <2>2, <2>3, <2>4 DEF TheText!Alike
<1>10. a > 0 => ~TheText!Alike(Contents[a], Contents[b])
  <2> SUFFICES ASSUME a > 0  PROVE ~TheText!Alike(Contents[a], Contents[b])
    OBVIOUS
  <2>1. n < len /\ n + 1 \in 1..len /\ len + 1 - (n + 1) = a /\ b > 0
    BY <1>3
  <2>2. \/ FromEnd(n + 1) \in Whitespace
        \/ ~(FromEnd(n + 1) \in Alphanumeric <=> FromEnd(m + 1) \in Alphanumeric)
    BY <1>2, <2>1 DEF WordIs
  <2>3. FromEnd(n + 1) = Contents[a]
    BY <1>5, <2>1
  <2> HIDE DEF a, b
  <2> QED  BY <1>8, <2>1, <2>2, <2>3 DEF TheText!Alike
<1>11. TheText!LastWordAfter(a)
  <2> HIDE DEF a, b
  <2> QED  BY <1>6, <1>7, <1>8, <1>9, <1>10 DEF TheText!LastWordAfter
<1>12. TheText!EraseWord
  <2>1. TheText!Keep(a)
    BY <1>4
  <2> HIDE DEF a
  <2> QED  BY <1>6, <1>11, <2>1 DEF TheText!EraseWord
<1> QED  BY <1>4, <1>12

LEMMA StepRing ==
    ASSUME RingInv, [RingNext]_ring
    PROVE  RingInv' /\ [TheText!Next]_Contents
<1>1. ASSUME NEW x \in Chars, Push(x)  PROVE RingInv' /\ TheText!Next
  BY <1>1, StepPush DEF TheText!Next
<1>2. ASSUME NEW n \in 1..MaxCapacity, PopN(n)  PROVE RingInv' /\ TheText!Next
  BY <1>2, StepPopN DEF TheText!Next
<1>3. CASE PopWord
  BY <1>3, StepPopWord DEF TheText!Next
<1>4. CASE Clear
  BY <1>4, StepClear DEF TheText!Next
<1>5. CASE UNCHANGED ring
  <2>1. RingInv'
    BY <1>5 DEF ring, RingInv, RingTypeOK, NothingLeftBehind, WrapsOnlyWhenFull, Start, Back, Capacity
  <2>2. Contents' = Contents
    BY <1>5 DEF ring, Contents, Slot, Start, Capacity
  <2> QED  BY <2>1, <2>2
<1> QED  BY <1>1, <1>2, <1>3, <1>4, <1>5 DEF RingNext

LEMMA InitRing ==
    ASSUME CapacitiesFit, RingInit
    PROVE  RingInv /\ TheText!Init
<1>1. /\ InitialCapacity \in Nat /\ InitialCapacity > 0 /\ InitialCapacity <= MaxCapacity
      /\ MaxCapacity \in Nat
  BY DEF CapacitiesFit
<1>2. /\ data \in Seq(Chars \cup {Nul}) /\ Len(data) = InitialCapacity
      /\ \A i \in 1..InitialCapacity : data[i] = Nul
      /\ head = 0 /\ len = 0
  BY <1>1 DEF RingInit, Empty
<1>3. Ring(data, head, len) /\ Blank(data, head, len)
  BY <1>1, <1>2 DEF Ring, Blank
<1>4. At(Capacity, head, len) = 0
  BY <1>2 DEF At
<1>5. RingInv
  <2>1. RingTypeOK
    BY <1>3 DEF Ring, RingTypeOK, Capacity
  <2>2. NothingLeftBehind /\ WrapsOnlyWhenFull
    BY <1>3, <1>4, NowIs DEF WrapsOnlyWhenFull
  <2> QED  BY <2>1, <2>2 DEF RingInv
<1>6. Contents = <<>>
  <2>1. Contents \in Seq(Chars \cup {Nul}) /\ Len(Contents) = 0
    BY <1>2, <1>5, InvIs
  <2> QED  BY <2>1
<1> QED  BY <1>5, <1>6 DEF TheText!Init

LEMMA RingInvariant ==
    ASSUME CapacitiesFit
    PROVE  RingSpec => []RingInv
<1>1. RingInit => RingInv
  BY InitRing
<1>2. RingInv /\ [RingNext]_ring => RingInv'
  BY StepRing
<1> QED  BY <1>1, <1>2, PTL DEF RingSpec

(* The two slices one after the other *)
LEMMA SlicesAre ==
    ASSUME RingInv
    PROVE  Slices = Contents
<1> DEFINE c == Capacity
           s == Start
<1>1. /\ Ring(data, head, len) /\ len \in Nat /\ c \in Nat /\ len <= c /\ c > 0
      /\ Contents \in Seq(Chars \cup {Nul}) /\ Len(Contents) = len
  BY InvIs
<1>2. data \in Seq(Chars \cup {Nul}) /\ Len(data) = c /\ s \in 0..c - 1
  <2>1. head \in 0..c - 1 /\ len \in 0..c
    BY <1>1 DEF Ring, Capacity
  <2>2. At(c, head, len) \in 0..c - 1
    BY <1>1, <2>1, AtIs
  <2> QED  BY <1>1, <2>2, NowIs DEF Ring, Capacity
<1>3. \A i \in 1..len : Contents[i] = IF s + i <= c THEN data[s + i] ELSE data[s + i - c]
  <2> SUFFICES ASSUME NEW i \in 1..len
               PROVE  Contents[i] = IF s + i <= c THEN data[s + i] ELSE data[s + i - c]
    OBVIOUS
  <2>1. Contents[i] = data[((s + i - 1) % c) + 1]
    BY DEF Contents, Slot
  <2> DEFINE x == s + i - 1
  <2>2. x \in Nat /\ x < 2 * c /\ (s + i <= c <=> x < c) /\ x + 1 = s + i /\ x - c + 1 = s + i - c
    <3> HIDE DEF s, c
    <3> QED  BY <1>1, <1>2
  <2> HIDE DEF x, s, c
  <2>3. x % c = IF x < c THEN x ELSE x - c
    BY <1>1, <2>2, ModIs
  <2>4. Contents[i] = data[(x % c) + 1]
    BY <2>1 DEF x
  <2> QED  BY <2>2, <2>3, <2>4
<1> HIDE DEF c, s
<1>4. CASE s + len <= c
  <2> DEFINE t == SubSeq(data, s + 1, s + len)
  <2>1. /\ t \in Seq(Chars \cup {Nul}) /\ Len(t) = len
        /\ \A i \in 1..len : t[i] = data[s + i]
    <3>1. \A i \in s + 1..s + len : data[i] \in Chars \cup {Nul}
      BY <1>1, <1>2, <1>4
    <3>2. /\ t \in Seq(Chars \cup {Nul})
          /\ Len(t) = IF s + 1 <= s + len THEN s + len - (s + 1) + 1 ELSE 0
          /\ \A i \in 1..s + len - (s + 1) + 1 : t[i] = data[s + 1 + i - 1]
      BY <1>1, <1>2, <3>1, SubSeqProperties
    <3> HIDE DEF t
    <3>3. s + len - (s + 1) + 1 = len /\ \A i \in 1..len : s + 1 + i - 1 = s + i
      BY <1>1, <1>2
    <3> QED  BY <1>1, <1>2, <3>2, <3>3
  <2> HIDE DEF t
  <2>2. Len(t) = Len(Contents) /\ \A i \in 1..Len(t) : t[i] = Contents[i]
    BY <1>1, <1>2, <1>3, <1>4, <2>1
  <2>3. t = Contents
    BY <1>1, <2>1, <2>2, SeqEqual
  <2> QED  BY <1>4, <2>3 DEF Slices, s, c, t
<1>5. CASE ~(s + len <= c)
  <2> DEFINE u == SubSeq(data, s + 1, c)
             v == SubSeq(data, 1, len - (c - s))
             t == u \o v
  <2>1. /\ u \in Seq(Chars \cup {Nul}) /\ Len(u) = c - s
        /\ \A i \in 1..c - s : u[i] = data[s + i]
    BY <1>1, <1>2
  <2>2. /\ v \in Seq(Chars \cup {Nul}) /\ Len(v) = len - (c - s)
        /\ \A i \in 1..len - (c - s) : v[i] = data[i]
    BY <1>1, <1>2, <1>5
  <2> HIDE DEF u, v
  <2>3. /\ t \in Seq(Chars \cup {Nul}) /\ Len(t) = len
        /\ \A i \in 1..len : t[i] = IF i <= c - s THEN u[i] ELSE v[i - (c - s)]
    <3>1. u \in Seq(Chars \cup {Nul}) /\ v \in Seq(Chars \cup {Nul})
      BY <2>1, <2>2
    <3>2. /\ t \in Seq(Chars \cup {Nul}) /\ Len(t) = Len(u) + Len(v)
          /\ \A i \in 1..Len(u) + Len(v) : t[i] = IF i <= Len(u) THEN u[i] ELSE v[i - Len(u)]
      BY <3>1, ConcatProperties
    <3>3. Len(u) + Len(v) = len /\ Len(u) = c - s
      BY <1>1, <1>2, <2>1, <2>2
    <3> HIDE DEF t
    <3> QED  BY <3>2, <3>3
  <2> HIDE DEF t
  <2>4. ASSUME NEW i \in 1..len  PROVE t[i] = Contents[i]
    <3>1. CASE i <= c - s
      <4>1. i \in 1..c - s /\ s + i <= c
        BY <1>1, <1>2, <3>1
      <4> QED  BY <1>3, <2>1, <2>3, <3>1, <4>1
    <3>2. CASE ~(i <= c - s)
      <4>1. i - (c - s) \in 1..len - (c - s) /\ ~(s + i <= c) /\ i - (c - s) = s + i - c
        BY <1>1, <1>2, <3>2
      <4> QED  BY <1>3, <2>2, <2>3, <3>2, <4>1
    <3> QED  BY <3>1, <3>2
  <2>5. Len(t) = Len(Contents) /\ \A i \in 1..Len(t) : t[i] = Contents[i]
    BY <1>1, <2>3, <2>4
  <2>6. t = Contents
    BY <1>1, <2>3, <2>5, SeqEqual
  <2> QED  BY <1>5, <2>6 DEF Slices, s, c, t, u, v
<1> QED  BY <1>4, <1>5

-----------------------------------------------------------------------------
(* The ring is a ring: its head is a slot, and no more characters are in   *)
(* use than there are slots.                                               *)
THEOREM RingTyped ==
    ASSUME CapacitiesFit
    PROVE  RingSpec => []RingTypeOK
<1>1. RingInv => RingTypeOK
  BY DEF RingInv
<1> QED  BY <1>1, RingInvariant, PTL

(* What a key took back is in no slot of the buffer any more. *)
THEOREM SlotsWiped ==
    ASSUME CapacitiesFit
    PROVE  RingSpec => []NothingLeftBehind
<1>1. RingInv => NothingLeftBehind
  BY DEF RingInv
<1> QED  BY <1>1, RingInvariant, PTL

(* Below its full capacity the ring is a plain array. *)
THEOREM PlainUntilFull ==
    ASSUME CapacitiesFit
    PROVE  RingSpec => []WrapsOnlyWhenFull
<1>1. RingInv => WrapsOnlyWhenFull
  BY DEF RingInv
<1> QED  BY <1>1, RingInvariant, PTL

(* The string the engine matches, the two slices of it and the walk back   *)
(* from the head are one text.                                             *)
THEOREM OneText ==
    ASSUME CapacitiesFit
    PROVE  RingSpec => []ReadersAgree
<1>1. RingInv => ReadersAgree
  BY SlicesAre, EndIs DEF ReadersAgree
<1> QED  BY <1>1, RingInvariant, PTL

(* The ring implements the text typed so far: every key does to the text   *)
(* what TypedText says, however the ring has grown and wrapped.            *)
THEOREM RingKeepsText ==
    ASSUME CapacitiesFit
    PROVE  RingSpec => KeepsText
<1>1. RingInit => TheText!Init
  BY InitRing
<1>2. RingInv /\ [RingNext]_ring => [TheText!Next]_Contents
  BY StepRing
<1> QED  BY <1>1, <1>2, RingInvariant, PTL DEF RingSpec, KeepsText, TheText!Spec
=============================================================================
