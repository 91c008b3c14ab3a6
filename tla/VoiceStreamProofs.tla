--------------------------- MODULE VoiceStreamProofs ---------------------------
(***************************************************************************)
(* Proofs about VoiceStream: the types, that a transcript is of the whole  *)
(* recording unless the worker that had its first chunks was lost or a     *)
(* chunk was taken while the buffer grew, that the worker is left with     *)
(* nothing of a session that is over but of one that was skipped, and that *)
(* streaming implements Dictation.                                         *)
(*                                                                         *)
(* The invariant has four parts: where the threads of a session are        *)
(* (SessionInv), what is in the pipe (PipeInv: one frame or reply at most  *)
(* is of the call under way, all the others are stale), what the worker    *)
(* has (Data: of a session that came to no harm, exactly the samples that  *)
(* were acknowledged or whose acknowledgement is on its way back), and     *)
(* that without a fault no audio is lost (Calm).                           *)
(***************************************************************************)
EXTENDS VoiceStream, SequenceTheorems, TLAPS

(* What session s recorded after its sample a, up to its sample b *)
Cut(s, a, b) == [i \in 1..(b - a) |-> <<s, a + i>>]

Active == {"join", "ensure", "tail", "transcribe"}

-----------------------------------------------------------------------------
FwdType == [at    : {"none", "ensure", "top", "peek", "send", "done"},
            len   : Nat,
            chunk : Seq(Samples)]

StopType == [at    : {"none", "join", "ensure", "tail", "transcribe", "done"},
             audio : Seq(Samples)]

SessionTypes ==
    /\ recording \in Sessions \cup {None}
    /\ target \in [Sessions -> Models \cup {None}]
    /\ buffer \in Seq(Samples)
    /\ captured \in [Sessions -> Nat]
    /\ forwarder \in [Sessions -> FwdType]
    /\ alive \in [Sessions -> BOOLEAN]
    /\ sent \in [Sessions -> Nat]
    /\ stop \in [Sessions -> StopType]
    /\ discard \in [Sessions -> {"none", "join", "want", "done"}]
    /\ outcome \in [Sessions -> {None, Failed, Skipped} \cup Seq(Samples)]
    /\ raced \subseteq Sessions

Numbers ==
    \A s \in Sessions :
        /\ sent[s] <= captured[s] /\ forwarder[s].len <= captured[s]
        /\ captured[s] <= MaxSamples[s]
        /\ forwarder[s].at \in {"peek", "send"} => sent[s] < forwarder[s].len
        /\ stop[s].at \in Active => captured[s] > 0
        /\ stop[s].at = "tail" => sent[s] < captured[s]

(* Where the threads of a session can be, relative to each other *)
Control ==
    \A s \in Sessions :
        /\ target[s] = None =>
               /\ forwarder[s].at = "none" /\ stop[s].at = "none" /\ discard[s] = "none"
               /\ outcome[s] = None /\ recording # s
               /\ captured[s] = 0
        /\ alive[s] <=> recording = s
        /\ recording = s => stop[s].at = "none" /\ discard[s] = "none" /\ outcome[s] = None
        /\ stop[s].at \in Active => discard[s] = "none" /\ outcome[s] = None
        /\ stop[s].at \notin {"none", "join"} => forwarder[s].at = "done"
        /\ discard[s] # "none" => stop[s].at = "none"
        /\ discard[s] = "join" => outcome[s] = None
        /\ discard[s] \in {"want", "done"} => outcome[s] = Failed
        /\ outcome[s] \notin {None, Skipped} => forwarder[s].at = "done"
        /\ target[s] # None /\ outcome[s] = None /\ discard[s] = "none" =>
               recording = s \/ stop[s].at \in Active

Busy(s) == recording = s \/ stop[s].at = "join"

(* The buffer is one session's at a time, and holds what it recorded. *)
Buffered ==
    /\ \A s \in Sessions : Busy(s) => buffer = Cut(s, 0, captured[s])
    /\ \A r, s \in Sessions : Busy(r) /\ Busy(s) => r = s
    /\ \A s \in Sessions : stop[s].at \in {"ensure", "tail"} =>
           stop[s].audio = Cut(s, 0, captured[s])
    /\ \A s \in Sessions :
           forwarder[s].at = "send" /\ s \notin raced /\ outcome[s] = None /\ discard[s] = "none"
               => forwarder[s].chunk = Cut(s, sent[s], forwarder[s].len)

-----------------------------------------------------------------------------
(* A call, with ensure_worker's frames taken for the call itself *)
Plain(c) == [c EXCEPT !.op = IF @ \in {"ping", "hello"} THEN "ensure" ELSE @]

(* The caller is where it makes this call. *)
Placed(c) ==
    \/ /\ c.by = "forwarder" /\ c.session \in Sessions
       /\ \/ c.op = "ensure" /\ forwarder[c.session].at = "ensure"
          \/ /\ c.op = "append" /\ forwarder[c.session].at = "send"
             /\ c.body = forwarder[c.session].chunk
    \/ /\ c.by = "stop" /\ c.session \in Sessions
       /\ \/ c.op = "ensure" /\ stop[c.session].at = "ensure"
          \/ /\ c.op = "append" /\ stop[c.session].at = "tail"
             /\ c.body = SubSeq(stop[c.session].audio, sent[c.session] + 1,
                                Len(stop[c.session].audio))
          \/ c.op = "transcribe" /\ stop[c.session].at = "transcribe"
    \/ /\ c.by = "discard" /\ c.session \in Sessions
       /\ c.op = "transcribe" /\ discard[c.session] = "want"
    \/ c.by = "unload" /\ c.session = None /\ c.op = "unload"
    \/ c.by = "settings" /\ c.session = None /\ c.op = "shutdown"

Caller ==
    client # None => /\ client \in CallType /\ client.op # "ensure"
                     /\ Placed(Plain(client))
                     /\ link.up

-----------------------------------------------------------------------------
Frames == [op   : {"ping", "hello", "append", "transcribe", "unload", "shutdown"},
           id   : Sessions \cup {"fresh", "stale"},
           body : Seq(Samples) \cup Models]
Answers_ == [id : Sessions \cup {"fresh", "stale"}, text : Seq(Samples) \cup {None}]

PipeTypes ==
    /\ setting \in Models /\ switching \in BOOLEAN
    /\ client \in CallType \cup {None}
    /\ link \in [up : BOOLEAN, model : Models \cup {None}]
    /\ requests \in Seq(Frames)
    /\ replies \in Seq(Answers_)
    /\ worker \in [alive : BOOLEAN, model : Models \cup {None}, audio : [Sessions -> Seq(Samples)]]
    /\ faults \in Nat
    /\ lost \subseteq Sessions

Ends ==
    /\ ~link.up => ~worker.alive /\ replies = <<>>
    /\ ~worker.alive => requests = <<>> /\ worker.audio = NoAudio

(* The call under way has its frame last in the one direction or the other; *)
(* all else is stale.                                                       *)
Outstanding(f) ==
    /\ client # None
    /\ f.op = client.op /\ f.id = IdOf(client)
    /\ client.op \in {"append", "transcribe"} => f.body = client.body
    /\ client.op = "hello" => f.body = target[client.session]

Asked ==
    \A i \in DOMAIN requests :
        IF requests[i].id = "stale" THEN requests[i].op \in {"ping", "unload"}
        ELSE i = Len(requests) /\ Outstanding(requests[i])
Replied ==
    \A i \in DOMAIN replies :
        replies[i].id # "stale" =>
            i = Len(replies) /\ requests = <<>> /\ client # None /\ replies[i].id = IdOf(client)

Served == \E i \in DOMAIN replies : replies[i].id # "stale"

-----------------------------------------------------------------------------
Sound(s) == s \notin lost \cup raced /\ outcome[s] = None /\ discard[s] = "none"

(* How much of its recording the worker has of a session *)
Stored(s) ==
    IF Served /\ client.session = s /\ client.op \in {"append", "transcribe"}
    THEN IF client.op = "transcribe" THEN 0
         ELSE IF client.by = "forwarder" THEN forwarder[s].len ELSE captured[s]
    ELSE IF stop[s].at = "transcribe" THEN captured[s] ELSE sent[s]

Heard == \A s \in Sessions : Sound(s) => worker.audio[s] = Cut(s, 0, Stored(s))

Taken ==
    \A s \in Sessions :
        client # None /\ client.session = s /\ client.op = "transcribe" /\ Served =>
            /\ worker.audio[s] = <<>>
            /\ replies[Len(replies)].text \in Seq(Samples)
            /\ Sound(s) => replies[Len(replies)].text = Recorded(s)

Forgotten ==
    \A s \in Sessions :
        outcome[s] \notin {None, Skipped} /\ discard[s] # "want" => worker.audio[s] = <<>>

Whole ==
    \A s \in Sessions :
        outcome[s] \notin {None, Failed, Skipped} =>
            outcome[s] = Recorded(s) \/ s \in lost \cup raced

(* Without a fault no worker goes that has audio. *)
Calm ==
    faults = 0 =>
        /\ lost = {} /\ ~switching
        /\ link.up <=> worker.alive
        /\ link.model \in {None, setting}
        /\ \A s \in Sessions : target[s] \in {None, setting}
        /\ \A i \in DOMAIN requests : requests[i].id # "stale"
        /\ \A i \in DOMAIN replies : replies[i].id # "stale"
        /\ client # None => client.op # "shutdown" /\ (requests # <<>> \/ replies # <<>>)

SessionInv == SessionTypes /\ Numbers /\ Control /\ Buffered
PipeInv == PipeTypes /\ Caller /\ Ends /\ Asked /\ Replied

-----------------------------------------------------------------------------
LEMMA SamplesAre ==
    ASSUME NEW s \in Sessions, NEW i \in 1..MaxSamples[s]
    PROVE  <<s, i>> \in Samples
  BY DEF Samples

LEMMA SamplesIn == Samples \subseteq Sessions \X Nat
<1>1. ASSUME NEW x \in Samples PROVE x \in Sessions \X Nat
  <2>1. PICK s \in Sessions : x \in {s} \X (1..MaxSamples[s])
    BY DEF Samples
  <2> QED  BY <2>1
<1> QED  BY <1>1

LEMMA NoText ==
    ASSUME NEW x \in Seq(Samples)
    PROVE  x # None /\ x # Failed /\ x # Skipped
  BY NoneAssumption

LEMMA CutIs ==
    ASSUME NEW s \in Sessions, NEW a \in Nat, NEW b \in Nat, a <= b, b <= MaxSamples[s]
    PROVE  /\ Cut(s, a, b) \in Seq(Samples)
           /\ Len(Cut(s, a, b)) = b - a
           /\ \A i \in 1..(b - a) : Cut(s, a, b)[i] = <<s, a + i>>
<1>0. MaxSamples[s] \in Nat
  BY StreamAssumption
<1>1. \A i \in 1..(b - a) : <<s, a + i>> \in Samples
  BY <1>0, SamplesAre
<1>2. b - a \in Nat
  OBVIOUS
<1> QED  BY <1>1, <1>2 DEF Cut

LEMMA CutFirst ==
    ASSUME NEW s \in Sessions, NEW n \in Nat, n <= MaxSamples[s]
    PROVE  /\ Cut(s, 0, n) \in Seq(Samples)
           /\ Len(Cut(s, 0, n)) = n
           /\ \A i \in 1..n : Cut(s, 0, n)[i] = <<s, i>>
<1>0. 0 \in Nat /\ 0 <= n /\ n - 0 = n /\ \A i \in 1..n : 0 + i = i
  OBVIOUS
<1>1. /\ Cut(s, 0, n) \in Seq(Samples)
      /\ Len(Cut(s, 0, n)) = n - 0
      /\ \A i \in 1..(n - 0) : Cut(s, 0, n)[i] = <<s, 0 + i>>
  BY <1>0, CutIs, Zenon
<1> QED  BY <1>0, <1>1

LEMMA CutEmpty ==
    ASSUME NEW s \in Sessions, NEW n \in Nat, n <= MaxSamples[s]
    PROVE  Cut(s, 0, n) = <<>> <=> n = 0
  BY CutFirst

LEMMA CutWithin ==
    ASSUME NEW s \in Sessions, NEW a \in Nat, NEW b \in Nat, a <= b, b <= MaxSamples[s]
    PROVE  SubSeq(Cut(s, 0, b), a + 1, b) = Cut(s, a, b)
<1> DEFINE c == Cut(s, 0, b)
           e == Cut(s, a, b)
<1>1. c \in Seq(Samples) /\ Len(c) = b /\ \A i \in 1..b : c[i] = <<s, i>>
  BY CutFirst
<1>2. e \in Seq(Samples) /\ Len(e) = b - a /\ \A i \in 1..(b - a) : e[i] = <<s, a + i>>
  BY CutIs
<1> HIDE DEF c, e
<1> DEFINE d == SubSeq(c, a + 1, b)
<1>3. d \in Seq(Samples) /\ Len(d) = b - a /\ \A i \in 1..(b - a) : d[i] = c[a + i]
  BY <1>1
<1> HIDE DEF d
<1>4. \A i \in 1..Len(d) : d[i] = e[i]
  <2> SUFFICES ASSUME NEW i \in 1..Len(d) PROVE d[i] = e[i]
    OBVIOUS
  <2>1. i \in 1..(b - a) /\ a + i \in 1..b
    BY <1>3
  <2> QED  BY <2>1, <1>1, <1>2, <1>3
<1>5. d = e
  BY <1>2, <1>3, <1>4, SeqEqual
<1> QED  BY <1>5 DEF c, d, e

LEMMA CutOn ==
    ASSUME NEW s \in Sessions, NEW a \in Nat, NEW b \in Nat, a <= b, b <= MaxSamples[s]
    PROVE  Cut(s, 0, a) \o Cut(s, a, b) = Cut(s, 0, b)
<1> DEFINE c == Cut(s, 0, a)
           d == Cut(s, a, b)
           e == Cut(s, 0, b)
<1>0. MaxSamples[s] \in Nat /\ a <= MaxSamples[s]
  BY StreamAssumption
<1>1. c \in Seq(Samples) /\ Len(c) = a /\ \A i \in 1..a : c[i] = <<s, i>>
  BY <1>0, CutFirst
<1>2. d \in Seq(Samples) /\ Len(d) = b - a /\ \A i \in 1..(b - a) : d[i] = <<s, a + i>>
  BY CutIs
<1>3. e \in Seq(Samples) /\ Len(e) = b /\ \A i \in 1..b : e[i] = <<s, i>>
  BY CutFirst
<1> HIDE DEF c, d, e
<1> DEFINE f == c \o d
<1>4. /\ f \in Seq(Samples) /\ Len(f) = Len(c) + Len(d)
      /\ \A i \in 1..(Len(c) + Len(d)) : f[i] = IF i <= Len(c) THEN c[i] ELSE d[i - Len(c)]
  BY <1>1, <1>2, ConcatProperties, Zenon
<1> HIDE DEF f
<1>5. \A i \in 1..Len(f) : f[i] = e[i]
  <2> SUFFICES ASSUME NEW i \in 1..Len(f) PROVE f[i] = e[i]
    OBVIOUS
  <2>1. Len(f) = b /\ i \in 1..b
    BY <1>1, <1>2, <1>4
  <2>2. CASE i <= a
    <3>1. i \in 1..a /\ i \in 1..(Len(c) + Len(d)) /\ i <= Len(c)
      BY <2>1, <2>2, <1>1, <1>2
    <3>2. f[i] = c[i]
      BY <3>1, <1>4, Zenon
    <3>3. c[i] = <<s, i>> /\ e[i] = <<s, i>>
      BY <2>1, <3>1, <1>1, <1>3
    <3> QED  BY <3>2, <3>3
  <2>3. CASE ~(i <= a)
    <3>1. i - a \in 1..(b - a) /\ a + (i - a) = i
      BY <2>1, <2>3
    <3>2. i \in 1..(Len(c) + Len(d)) /\ ~(i <= Len(c)) /\ i - Len(c) = i - a
      BY <2>1, <2>3, <1>1, <1>2
    <3>3. f[i] = d[i - a]
      BY <3>2, <1>4
    <3>4. d[i - a] = <<s, a + (i - a)>>
      BY <3>1, <1>2
    <3>5. e[i] = <<s, i>>
      BY <2>1, <1>3
    <3> QED  BY <3>1, <3>3, <3>4, <3>5
  <2> QED  BY <2>2, <2>3
<1>6. f \in Seq(Samples) /\ e \in Seq(Samples) /\ Len(f) = Len(e)
  BY <1>1, <1>2, <1>3, <1>4
<1>7. f = e
  BY <1>5, <1>6, SeqEqual
<1> QED  BY <1>7 DEF c, d, e, f

LEMMA CutGrows ==
    ASSUME NEW s \in Sessions, NEW n \in Nat, n < MaxSamples[s]
    PROVE  Append(Cut(s, 0, n), <<s, n + 1>>) = Cut(s, 0, n + 1)
<1> DEFINE c == Cut(s, 0, n)
           e == Cut(s, 0, n + 1)
<1>0. /\ MaxSamples[s] \in Nat /\ n <= MaxSamples[s]
      /\ n + 1 \in Nat /\ n + 1 <= MaxSamples[s] /\ <<s, n + 1>> \in Samples
  BY StreamAssumption, SamplesAre
<1>1. c \in Seq(Samples) /\ Len(c) = n /\ \A i \in 1..n : c[i] = <<s, i>>
  BY <1>0, CutFirst
<1>3. e \in Seq(Samples) /\ Len(e) = n + 1 /\ \A i \in 1..(n + 1) : e[i] = <<s, i>>
  BY <1>0, CutFirst, Zenon
<1> HIDE DEF c, e
<1> DEFINE f == Append(c, <<s, n + 1>>)
<1>4. f \in Seq(Samples) /\ Len(f) = n + 1 /\ \A i \in 1..n : f[i] = c[i]
  BY <1>0, <1>1
<1>5. f[n + 1] = <<s, n + 1>>
  BY <1>0, <1>1
<1> HIDE DEF f
<1>6. \A i \in 1..Len(f) : f[i] = e[i]
  <2> SUFFICES ASSUME NEW i \in 1..Len(f) PROVE f[i] = e[i]
    OBVIOUS
  <2>1. CASE i \in 1..n
    BY <2>1, <1>1, <1>3, <1>4
  <2>2. CASE i = n + 1
    BY <2>2, <1>3, <1>5, <1>4
  <2> QED  BY <2>1, <2>2, <1>4
<1>7. f = e
  BY <1>3, <1>4, <1>6, SeqEqual
<1> QED  BY <1>7 DEF c, e, f

LEMMA RecordedIs ==
    ASSUME NEW s \in Sessions, captured[s] \in Nat
    PROVE  Recorded(s) = Cut(s, 0, captured[s])
  BY DEF Recorded, Cut
-----------------------------------------------------------------------------
(* What the return of a call does to the threads of a session *)

(* The forwarder goes on, with n samples acknowledged. *)
FwdGoes(s, n) ==
    /\ forwarder' = [forwarder EXCEPT ![s] = Forwarding("top")]
    /\ sent' = [sent EXCEPT ![s] = n]
    /\ UNCHANGED <<alive, stop, discard, outcome>>

FwdEnds(s) ==
    /\ forwarder' = [forwarder EXCEPT ![s] = Forwarding("done")]
    /\ UNCHANGED <<alive, sent, stop, discard, outcome>>

StopGoes(s, to) ==
    /\ stop' = [stop EXCEPT ![s] = to]
    /\ UNCHANGED <<forwarder, alive, sent, discard, outcome>>

StopEnds(s, result) ==
    /\ stop' = [stop EXCEPT ![s] = Stopping("done")]
    /\ outcome' = [outcome EXCEPT ![s] = result]
    /\ UNCHANGED <<forwarder, alive, sent, discard>>

DiscardEnds(s) ==
    /\ discard' = [discard EXCEPT ![s] = "done"]
    /\ UNCHANGED <<forwarder, alive, sent, stop, outcome>>

SoundsSame == UNCHANGED <<audioVars, raced>>

LEMMA FwdTyped ==
    ASSUME NEW f \in [Sessions -> FwdType], NEW s \in Sessions
    PROVE  /\ \A at \in {"none", "ensure", "top", "peek", "send", "done"} :
                  /\ [f EXCEPT ![s].at = at] \in [Sessions -> FwdType]
                  /\ [f EXCEPT ![s] = Forwarding(at)] \in [Sessions -> FwdType]
           /\ \A n \in Nat : [f EXCEPT ![s].at = "peek", ![s].len = n] \in [Sessions -> FwdType]
           /\ \A c \in Seq(Samples) :
                  [f EXCEPT ![s].at = "send", ![s].chunk = c] \in [Sessions -> FwdType]
<1>1. /\ f[s] \in FwdType
      /\ \A x \in FwdType : [f EXCEPT ![s] = x] \in [Sessions -> FwdType]
  OBVIOUS
<1>2. ASSUME NEW at \in {"none", "ensure", "top", "peek", "send", "done"}
      PROVE  /\ [f EXCEPT ![s].at = at] \in [Sessions -> FwdType]
             /\ [f EXCEPT ![s] = Forwarding(at)] \in [Sessions -> FwdType]
  <2>1. [f[s] EXCEPT !.at = at] \in FwdType
    BY <1>1 DEF FwdType
  <2>2. Forwarding(at) \in FwdType
    BY DEF FwdType, Forwarding
  <2> QED  BY <2>1, <2>2, <1>1
<1>3. ASSUME NEW n \in Nat PROVE [f EXCEPT ![s].at = "peek", ![s].len = n] \in [Sessions -> FwdType]
  <2>1. [f[s] EXCEPT !.at = "peek", !.len = n] \in FwdType
    BY <1>1 DEF FwdType
  <2> QED  BY <2>1, <1>1
<1>4. ASSUME NEW c \in Seq(Samples)
      PROVE  [f EXCEPT ![s].at = "send", ![s].chunk = c] \in [Sessions -> FwdType]
  <2>1. [f[s] EXCEPT !.at = "send", !.chunk = c] \in FwdType
    BY <1>1 DEF FwdType
  <2> QED  BY <2>1, <1>1
<1> QED  BY <1>2, <1>3, <1>4

LEMMA StopTyped ==
    ASSUME NEW f \in [Sessions -> StopType], NEW s \in Sessions
    PROVE  /\ \A at \in {"none", "join", "ensure", "tail", "transcribe", "done"} :
                  /\ [f EXCEPT ![s].at = at] \in [Sessions -> StopType]
                  /\ [f EXCEPT ![s] = Stopping(at)] \in [Sessions -> StopType]
                  /\ [f EXCEPT ![s] = [f[s] EXCEPT !.at = at]] \in [Sessions -> StopType]
           /\ \A a \in Seq(Samples) :
                  [f EXCEPT ![s] = [at |-> "ensure", audio |-> a]] \in [Sessions -> StopType]
<1>1. /\ f[s] \in StopType
      /\ \A x \in StopType : [f EXCEPT ![s] = x] \in [Sessions -> StopType]
  OBVIOUS
<1>2. ASSUME NEW at \in {"none", "join", "ensure", "tail", "transcribe", "done"}
      PROVE  /\ [f EXCEPT ![s].at = at] \in [Sessions -> StopType]
             /\ [f EXCEPT ![s] = Stopping(at)] \in [Sessions -> StopType]
             /\ [f EXCEPT ![s] = [f[s] EXCEPT !.at = at]] \in [Sessions -> StopType]
  <2>1. [f[s] EXCEPT !.at = at] \in StopType
    BY <1>1 DEF StopType
  <2>2. Stopping(at) \in StopType
    BY DEF StopType, Stopping
  <2> QED  BY <2>1, <2>2, <1>1
<1>3. ASSUME NEW a \in Seq(Samples)
      PROVE  [f EXCEPT ![s] = [at |-> "ensure", audio |-> a]] \in [Sessions -> StopType]
  <2>1. [at |-> "ensure", audio |-> a] \in StopType
    BY DEF StopType
  <2> QED  BY <2>1, <1>1
<1> QED  BY <1>2, <1>3

LEMMA StartSession ==
    ASSUME SessionInv, NEW s \in Sessions, setting \in Models, Start(s)
    PROVE  SessionInv'
<1> USE StreamAssumption
<1>0. SessionTypes /\ Numbers /\ Control /\ Buffered
  BY DEF SessionInv
<1>e. /\ recording = None /\ target[s] = None
      /\ \A r \in Sessions : target[r] # None => (outcome[r] # None \/ discard[r] # "none")
      /\ recording' = s /\ target' = [target EXCEPT ![s] = setting] /\ buffer' = <<>>
      /\ forwarder' = [forwarder EXCEPT ![s].at = "ensure"]
      /\ alive' = [alive EXCEPT ![s] = TRUE]
      /\ UNCHANGED <<captured, sent, stop, discard, outcome, raced>>
  BY DEF Start, Ended
<1>1. SessionTypes'
  <2>1. forwarder' \in [Sessions -> FwdType]
    BY <1>0, <1>e, FwdTyped DEF SessionTypes
  <2>2. target' \in [Sessions -> Models \cup {None}] /\ alive' \in [Sessions -> BOOLEAN]
    BY <1>0, <1>e DEF SessionTypes, FwdType, StopType
  <2> QED  BY <2>1, <2>2, <1>0, <1>e DEF SessionTypes, FwdType, StopType
<1>2. Numbers'
  BY <1>0, <1>e, <1>1 DEF Numbers, Control, Buffered, SessionTypes, FwdType, StopType, Active
<1>3. Control'
  BY <1>0, <1>e, <1>1 DEF Control, SessionTypes, FwdType, StopType, Active
<1>4. Buffered'
  <2>1. \A r \in Sessions : r # s => ~Busy(r)
    BY <1>0, <1>e DEF Control, Busy, Active
  <2>2. \A r \in Sessions : r # s => ~Busy(r)'
    BY <2>1, <1>e DEF Busy
  <2>3. captured[s] = 0 /\ stop[s].at = "none"
    BY <1>0, <1>e DEF Control
  <2>4. Cut(s, 0, 0) = <<>>
    BY CutEmpty
  <2>5. \A r \in Sessions : Busy(r)' => buffer' = Cut(r, 0, captured[r])'
    BY <2>2, <2>3, <2>4, <1>e
  <2>6. \A r, q \in Sessions : Busy(r)' /\ Busy(q)' => r = q
    BY <2>2
  <2>7. \A r \in Sessions : stop'[r] = stop[r] /\ captured'[r] = captured[r] /\ sent'[r] = sent[r]
                            /\ outcome'[r] = outcome[r] /\ discard'[r] = discard[r]
    BY <1>e
  <2>8. \A r \in Sessions : forwarder'[r].at = "send" => forwarder'[r] = forwarder[r]
    BY <1>e, <1>0 DEF SessionTypes, FwdType, StopType
  <2> QED  BY <2>5, <2>6, <2>7, <2>8, <1>0, <1>e DEF Buffered
<1> QED  BY <1>1, <1>2, <1>3, <1>4 DEF SessionInv

LEMMA CaptureSession ==
    ASSUME SessionInv, NEW s \in Sessions, Capture(s)
    PROVE  SessionInv'
<1> USE StreamAssumption
<1>0. SessionTypes /\ Numbers /\ Control /\ Buffered
  BY DEF SessionInv
<1>e. /\ recording = s /\ captured[s] < MaxSamples[s]
      /\ captured' = [captured EXCEPT ![s] = @ + 1]
      /\ buffer' = Append(buffer, <<s, captured[s] + 1>>)
      /\ UNCHANGED <<recording, target, forwarder, alive, sent, stop, discard, outcome, raced>>
  BY DEF Capture, streamVars
<1>n. captured[s] \in Nat /\ MaxSamples[s] \in Nat
  BY <1>0 DEF SessionTypes
<1>m. captured' \in [Sessions -> Nat] /\ captured'[s] = captured[s] + 1
      /\ \A r \in Sessions \ {s} : captured'[r] = captured[r]
  BY <1>0, <1>e, <1>n DEF SessionTypes
<1>1. SessionTypes'
  <2>1. <<s, captured[s] + 1>> \in Samples
    BY <1>e, <1>n, SamplesAre
  <2>2. buffer' \in Seq(Samples)
    BY <2>1, <1>e, <1>0 DEF SessionTypes
  <2> QED  BY <2>2, <1>m, <1>0, <1>e DEF SessionTypes
<1>2. Numbers'
  BY <1>0, <1>e, <1>m, <1>n DEF Numbers, SessionTypes, FwdType, StopType
<1>3. Control'
  BY <1>0, <1>e, <1>m DEF Control
<1>4. Buffered'
  <2>1. Busy(s) /\ stop[s].at = "none"
    BY <1>e, <1>0 DEF Control, Busy
  <2>2. \A r \in Sessions : Busy(r)' => r = s
    BY <2>1, <1>0, <1>e DEF Buffered, Busy
  <2>3. buffer = Cut(s, 0, captured[s])
    BY <2>1, <1>0 DEF Buffered
  <2>4. buffer' = Cut(s, 0, captured[s] + 1)
    BY <2>3, <1>e, <1>n, CutGrows
  <2>5. \A r \in Sessions : Busy(r)' => buffer' = Cut(r, 0, captured'[r])
    BY <2>2, <2>4, <1>m
  <2>6. \A r, q \in Sessions : Busy(r)' /\ Busy(q)' => r = q
    BY <2>2
  <2>7. \A r \in Sessions : stop'[r].at \in {"ensure", "tail"} =>
            stop'[r].audio = Cut(r, 0, captured'[r])
    BY <2>1, <1>0, <1>e, <1>m DEF Buffered
  <2> QED  BY <2>5, <2>6, <2>7, <1>0, <1>e DEF Buffered
<1> QED  BY <1>1, <1>2, <1>3, <1>4 DEF SessionInv

(* What the forwarder sees of a session that is still to be told *)
LEMMA BufferIs ==
    ASSUME SessionInv, NEW s \in Sessions, Busy(s)
    PROVE  /\ buffer = Cut(s, 0, captured[s]) /\ Len(buffer) = captured[s]
           /\ captured[s] \in Nat /\ captured[s] <= MaxSamples[s]
<1>1. buffer = Cut(s, 0, captured[s]) /\ captured[s] \in Nat /\ captured[s] <= MaxSamples[s]
  BY DEF SessionInv, Buffered, Numbers, SessionTypes
<1> QED  BY <1>1, CutFirst

LEMMA PollSession ==
    ASSUME SessionInv, NEW s \in Sessions, Poll(s)
    PROVE  SessionInv'
<1> USE StreamAssumption
<1>0. SessionTypes /\ Numbers /\ Control /\ Buffered
  BY DEF SessionInv
<1>u. /\ forwarder[s].at = "top"
      /\ UNCHANGED <<recording, target, buffer, captured, alive, sent, stop, discard, outcome, raced>>
  BY DEF Poll, audioVars
<1>a. CASE alive[s]
  <2>e. /\ Len(buffer) > sent[s]
        /\ forwarder' = [forwarder EXCEPT ![s].at = "peek", ![s].len = Len(buffer)]
    BY <1>a DEF Poll
  <2>1. Len(buffer) = captured[s] /\ captured[s] \in Nat
    BY <1>a, <1>0, BufferIs DEF Control, Busy
  <2>2. forwarder' \in [Sessions -> FwdType]
    BY <2>e, <2>1, <1>0, FwdTyped DEF SessionTypes
  <2>3. /\ forwarder'[s].at = "peek" /\ forwarder'[s].len = captured[s] /\ sent[s] < captured[s]
        /\ \A r \in Sessions \ {s} : forwarder'[r] = forwarder[r]
    BY <2>e, <2>1, <1>0 DEF SessionTypes, FwdType
  <2>4. SessionTypes'
    BY <2>2, <1>0, <1>u DEF SessionTypes
  <2>5. Numbers'
    BY <2>3, <1>0, <1>u, <2>1 DEF Numbers
  <2>6. Control'
    BY <2>3, <1>0, <1>u DEF Control
  <2>7. Buffered'
    BY <2>3, <1>0, <1>u DEF Buffered, Busy
  <2> QED  BY <2>4, <2>5, <2>6, <2>7 DEF SessionInv
<1>b. CASE ~alive[s]
  <2>e. forwarder' = [forwarder EXCEPT ![s] = Forwarding("done")]
    BY <1>b DEF Poll
  <2>2. forwarder' \in [Sessions -> FwdType]
    BY <2>e, <1>0, FwdTyped DEF SessionTypes
  <2>3. /\ forwarder'[s].at = "done" /\ forwarder'[s].len = 0
        /\ \A r \in Sessions \ {s} : forwarder'[r] = forwarder[r]
    BY <2>e, <1>0 DEF SessionTypes, Forwarding
  <2>n. captured[s] \in Nat
    BY <1>0 DEF SessionTypes
  <2>4. SessionTypes'
    BY <2>2, <1>0, <1>u DEF SessionTypes
  <2>5. Numbers'
    BY <2>3, <1>0, <1>u, <2>n DEF Numbers
  <2>6. Control'
    BY <2>3, <1>0, <1>u DEF Control
  <2>7. Buffered'
    BY <2>3, <1>0, <1>u DEF Buffered, Busy
  <2> QED  BY <2>4, <2>5, <2>6, <2>7 DEF SessionInv
<1> QED  BY <1>a, <1>b

LEMMA PeekSession ==
    ASSUME SessionInv, NEW s \in Sessions, Peek(s)
    PROVE  SessionInv'
<1> USE StreamAssumption
<1>0. SessionTypes /\ Numbers /\ Control /\ Buffered
  BY DEF SessionInv
<1> DEFINE n == forwarder[s].len - sent[s]
           first == IF Len(buffer) > n THEN Len(buffer) - n + 1 ELSE 1
           taken == SubSeq(buffer, first, Len(buffer))
<1>e. /\ forwarder[s].at = "peek"
      /\ forwarder' = [forwarder EXCEPT ![s].at = "send", ![s].chunk = taken]
      /\ raced' = IF Len(buffer) # forwarder[s].len THEN raced \cup {s} ELSE raced
      /\ UNCHANGED <<recording, target, buffer, captured, alive, sent, stop, discard, outcome>>
  BY DEF Peek, audioVars
<1>n. /\ sent[s] \in Nat /\ forwarder[s].len \in Nat /\ sent[s] < forwarder[s].len
      /\ captured[s] \in Nat
  BY <1>0, <1>e DEF SessionTypes, Numbers, FwdType
<1>t. taken \in Seq(Samples)
  <2>1. buffer \in Seq(Samples) /\ Len(buffer) \in Nat /\ n \in Nat /\ n > 0
    BY <1>0, <1>n DEF SessionTypes
  <2>2. first \in 1..(Len(buffer) + 1)
    BY <2>1
  <2> HIDE DEF first, n
  <2> QED  BY <2>1, <2>2
<1> HIDE DEF taken
<1>2. forwarder' \in [Sessions -> FwdType]
  BY <1>e, <1>t, <1>0, FwdTyped DEF SessionTypes
<1>3. /\ forwarder'[s].at = "send" /\ forwarder'[s].len = forwarder[s].len
      /\ forwarder'[s].chunk = taken
      /\ \A r \in Sessions \ {s} : forwarder'[r] = forwarder[r]
  BY <1>e, <1>0 DEF SessionTypes, FwdType
<1>4. SessionTypes'
  BY <1>2, <1>0, <1>e DEF SessionTypes
<1>5. Numbers'
  BY <1>3, <1>0, <1>e, <1>n DEF Numbers
<1>6. Control'
  <2>1. \A r \in Sessions : /\ (forwarder'[r].at = "none") <=> (forwarder[r].at = "none")
                            /\ (forwarder'[r].at = "done") <=> (forwarder[r].at = "done")
    BY <1>3, <1>e
  <2> QED  BY <2>1, <1>0, <1>e DEF Control
<1>7. Buffered'
  <2>1. ASSUME s \notin raced', outcome[s] = None, discard[s] = "none"
        PROVE  taken = Cut(s, sent[s], forwarder[s].len)
    <3>1. Busy(s)
      BY <2>1, <1>0, <1>e DEF Control, Busy, Active
    <3>2. buffer = Cut(s, 0, captured[s]) /\ Len(buffer) = captured[s] /\ captured[s] <= MaxSamples[s]
      BY <3>1, BufferIs
    <3>3. Len(buffer) = forwarder[s].len
      BY <2>1, <1>e
    <3>4. first = sent[s] + 1
      BY <3>2, <3>3, <1>n
    <3>5. taken = SubSeq(Cut(s, 0, captured[s]), sent[s] + 1, captured[s])
      BY <3>2, <3>4 DEF taken
    <3>6. sent[s] <= captured[s] /\ forwarder[s].len = captured[s]
      BY <3>2, <3>3, <1>n
    <3>7. SubSeq(Cut(s, 0, captured[s]), sent[s] + 1, captured[s]) = Cut(s, sent[s], captured[s])
      BY <3>2, <3>6, <1>n, CutWithin, Zenon
    <3> QED  BY <3>5, <3>6, <3>7
  <2> QED  BY <2>1, <1>3, <1>0, <1>e DEF Buffered, Busy
<1> QED  BY <1>4, <1>5, <1>6, <1>7 DEF SessionInv

LEMMA StopTapSession ==
    ASSUME SessionInv, NEW s \in Sessions, StopTap(s)
    PROVE  SessionInv'
<1> USE StreamAssumption
<1>0. SessionTypes /\ Numbers /\ Control /\ Buffered
  BY DEF SessionInv
<1>e. /\ recording = s /\ recording' = None
      /\ alive' = [alive EXCEPT ![s] = FALSE]
      /\ outcome' = [outcome EXCEPT ![s] = Skipped]
      /\ UNCHANGED <<target, buffer, captured, forwarder, sent, stop, discard, raced>>
  BY DEF StopTap
<1>1. SessionTypes'
  BY <1>0, <1>e DEF SessionTypes
<1>2. Numbers'
  BY <1>0, <1>e DEF Numbers
<1>3. Control'
  BY <1>0, <1>e DEF Control, SessionTypes, Active
<1>4. Buffered'
  BY <1>0, <1>e DEF Buffered, Busy, SessionTypes
<1> QED  BY <1>1, <1>2, <1>3, <1>4 DEF SessionInv

LEMMA StopSession ==
    ASSUME SessionInv, NEW s \in Sessions, Stop(s)
    PROVE  SessionInv'
<1> USE StreamAssumption
<1>0. SessionTypes /\ Numbers /\ Control /\ Buffered
  BY DEF SessionInv
<1>e. /\ recording = s /\ recording' = None /\ buffer # <<>>
      /\ alive' = [alive EXCEPT ![s] = FALSE]
      /\ stop' = [stop EXCEPT ![s].at = "join"]
      /\ UNCHANGED <<target, buffer, captured, forwarder, sent, discard, outcome, raced>>
  BY DEF Stop
<1>m. stop' \in [Sessions -> StopType]
  BY <1>e, <1>0, StopTyped DEF SessionTypes
<1>p. stop'[s].at = "join" /\ \A r \in Sessions \ {s} : stop'[r] = stop[r]
  BY <1>e, <1>0 DEF SessionTypes, StopType
<1>n. captured[s] > 0
  <2>1. Busy(s)
    BY <1>e DEF Busy
  <2>2. buffer = Cut(s, 0, captured[s]) /\ captured[s] \in Nat /\ captured[s] <= MaxSamples[s]
    BY <2>1, BufferIs
  <2> QED  BY <2>2, <1>e, CutEmpty
<1>1. SessionTypes'
  BY <1>0, <1>e, <1>m DEF SessionTypes
<1>2. Numbers'
  BY <1>0, <1>e, <1>p, <1>n DEF Numbers
<1>3. Control'
  BY <1>0, <1>e, <1>p DEF Control, SessionTypes, Active
<1>4. Buffered'
  <2>1. Busy(s) /\ \A r \in Sessions : Busy(r)' => r = s
    BY <1>0, <1>e, <1>p DEF Buffered, Busy
  <2>2. \A r \in Sessions : Busy(r)' => Busy(r)
    BY <2>1
  <2> QED  BY <2>1, <2>2, <1>0, <1>e, <1>p DEF Buffered
<1> QED  BY <1>1, <1>2, <1>3, <1>4 DEF SessionInv

LEMMA DrainSession ==
    ASSUME SessionInv, NEW s \in Sessions, Drain(s)
    PROVE  SessionInv'
<1> USE StreamAssumption
<1>0. SessionTypes /\ Numbers /\ Control /\ Buffered
  BY DEF SessionInv
<1>u. /\ stop[s].at = "join" /\ forwarder[s].at = "done" /\ buffer' = <<>>
      /\ UNCHANGED <<recording, target, captured, forwarder, alive, sent, discard, raced>>
  BY DEF Drain
<1>b. Busy(s) /\ buffer \in Seq(Samples) /\ buffer = Cut(s, 0, captured[s])
  BY <1>u, <1>0, BufferIs DEF Busy, SessionTypes
<1>o. \A r \in Sessions \ {s} : ~Busy(r)
  BY <1>b, <1>0 DEF Buffered
<1>c. recording # s /\ captured[s] > 0 /\ discard[s] = "none" /\ outcome[s] = None /\ target[s] # None
  BY <1>u, <1>0 DEF Control, Numbers, Active
<1>x. CASE /\ stop' = [stop EXCEPT ![s] = [at |-> "ensure", audio |-> buffer]]
           /\ UNCHANGED outcome
  <2>m. stop' \in [Sessions -> StopType]
    BY <1>x, <1>b, <1>0, StopTyped DEF SessionTypes
  <2>p. /\ stop'[s].at = "ensure" /\ stop'[s].audio = buffer
        /\ \A r \in Sessions \ {s} : stop'[r] = stop[r]
    BY <1>x, <1>0 DEF SessionTypes
  <2>1. SessionTypes'
    BY <1>0, <1>u, <1>x, <2>m DEF SessionTypes
  <2>2. Numbers'
    BY <1>0, <1>u, <2>p, <1>c DEF Numbers
  <2>3. Control'
    BY <1>0, <1>u, <1>x, <2>p, <1>c DEF Control, Active
  <2>4. Buffered'
    <3>1. \A r \in Sessions : ~Busy(r)'
      BY <1>o, <1>c, <2>p, <1>u DEF Busy
    <3>2. \A r \in Sessions : stop'[r].at \in {"ensure", "tail"} =>
              stop'[r].audio = Cut(r, 0, captured'[r])
      BY <1>0, <1>b, <2>p, <1>u DEF Buffered
    <3> QED  BY <3>1, <3>2, <1>0, <1>u, <1>x DEF Buffered
  <2> QED  BY <2>1, <2>2, <2>3, <2>4 DEF SessionInv
<1>y. CASE /\ stop' = [stop EXCEPT ![s].at = "done"]
           /\ outcome' = [outcome EXCEPT ![s] = Skipped]
  <2>m. stop' \in [Sessions -> StopType]
    BY <1>y, <1>0, StopTyped DEF SessionTypes
  <2>p. stop'[s].at = "done" /\ \A r \in Sessions \ {s} : stop'[r] = stop[r]
    BY <1>y, <1>0 DEF SessionTypes, StopType
  <2>q. /\ outcome' \in [Sessions -> {None, Failed, Skipped} \cup Seq(Samples)]
        /\ outcome'[s] = Skipped /\ \A r \in Sessions \ {s} : outcome'[r] = outcome[r]
    BY <1>y, <1>0 DEF SessionTypes
  <2>1. SessionTypes'
    BY <1>0, <1>u, <2>q, <2>m DEF SessionTypes
  <2>2. Numbers'
    BY <1>0, <1>u, <2>p DEF Numbers, Active
  <2>3. Control'
    BY <1>0, <1>u, <2>q, <2>p, <1>c DEF Control, Active
  <2>4. Buffered'
    <3>1. \A r \in Sessions : ~Busy(r)'
      BY <1>o, <1>c, <2>p, <1>u DEF Busy
    <3>2. \A r \in Sessions : stop'[r].at \in {"ensure", "tail"} =>
              stop'[r].audio = Cut(r, 0, captured'[r])
      BY <1>0, <2>p, <1>u DEF Buffered
    <3>3. \A r \in Sessions : forwarder'[r].at = "send" => r # s
      BY <1>u
    <3> QED  BY <3>1, <3>2, <3>3, <1>0, <1>u, <2>q DEF Buffered
  <2> QED  BY <2>1, <2>2, <2>3, <2>4 DEF SessionInv
<1> QED  BY <1>x, <1>y DEF Drain

LEMMA CancelSession ==
    ASSUME SessionInv, NEW s \in Sessions, Cancel(s)
    PROVE  SessionInv'
<1> USE StreamAssumption
<1>0. SessionTypes /\ Numbers /\ Control /\ Buffered
  BY DEF SessionInv
<1>e. /\ recording = s /\ recording' = None /\ buffer' = <<>>
      /\ alive' = [alive EXCEPT ![s] = FALSE]
      /\ discard' = [discard EXCEPT ![s] = "join"]
      /\ UNCHANGED <<target, captured, forwarder, sent, stop, outcome, raced>>
  BY DEF Cancel
<1>1. SessionTypes'
  BY <1>0, <1>e DEF SessionTypes
<1>2. Numbers'
  BY <1>0, <1>e DEF Numbers
<1>3. Control'
  BY <1>0, <1>e DEF Control, SessionTypes, Active
<1>4. Buffered'
  <2>1. Busy(s) /\ stop[s].at = "none"
    BY <1>0, <1>e DEF Busy, Control
  <2>2. \A r \in Sessions : ~Busy(r)'
    BY <2>1, <1>0, <1>e DEF Buffered, Busy
  <2> QED  BY <2>2, <1>0, <1>e DEF Buffered, SessionTypes
<1> QED  BY <1>1, <1>2, <1>3, <1>4 DEF SessionInv

LEMMA DiscardSession ==
    ASSUME SessionInv, NEW s \in Sessions, Discard(s)
    PROVE  SessionInv'
<1> USE StreamAssumption
<1>0. SessionTypes /\ Numbers /\ Control /\ Buffered
  BY DEF SessionInv
<1>e. /\ discard[s] = "join" /\ forwarder[s].at = "done"
      /\ discard' = [discard EXCEPT ![s] = "want"]
      /\ outcome' = [outcome EXCEPT ![s] = Failed]
      /\ UNCHANGED <<recording, target, buffer, captured, forwarder, alive, sent, stop, raced>>
  BY DEF Discard, audioVars
<1>1. SessionTypes'
  BY <1>0, <1>e DEF SessionTypes
<1>2. Numbers'
  BY <1>0, <1>e DEF Numbers
<1>3. Control'
  BY <1>0, <1>e DEF Control, SessionTypes, Active
<1>4. Buffered'
  BY <1>0, <1>e DEF Buffered, Busy, SessionTypes
<1> QED  BY <1>1, <1>2, <1>3, <1>4 DEF SessionInv

-----------------------------------------------------------------------------
LEMMA FwdGoesSession ==
    ASSUME SessionInv, NEW s \in Sessions, NEW n, SoundsSame, FwdGoes(s, n),
           \/ forwarder[s].at = "ensure" /\ n = sent[s]
           \/ forwarder[s].at = "send" /\ n = forwarder[s].len
    PROVE  SessionInv'
<1> USE StreamAssumption
<1>0. SessionTypes /\ Numbers /\ Control /\ Buffered
  BY DEF SessionInv
<1>e. /\ forwarder' = [forwarder EXCEPT ![s] = Forwarding("top")]
      /\ sent' = [sent EXCEPT ![s] = n]
      /\ UNCHANGED <<recording, target, buffer, captured, alive, stop, discard, outcome, raced>>
  BY DEF FwdGoes, SoundsSame, audioVars
<1>n. n \in Nat /\ n <= captured[s] /\ captured[s] \in Nat
  BY <1>0 DEF SessionTypes, FwdType, Numbers
<1>m. forwarder' \in [Sessions -> FwdType] /\ sent' \in [Sessions -> Nat]
  BY <1>e, <1>0, <1>n, FwdTyped DEF SessionTypes
<1>p. /\ forwarder'[s].at = "top" /\ forwarder'[s].len = 0 /\ sent'[s] = n
      /\ \A r \in Sessions \ {s} : forwarder'[r] = forwarder[r] /\ sent'[r] = sent[r]
  BY <1>e, <1>0 DEF SessionTypes, Forwarding
<1>c. forwarder[s].at \in {"ensure", "send"} /\ stop[s].at \in {"none", "join"} /\ target[s] # None
  BY <1>0 DEF Control, SessionTypes, StopType
<1>1. SessionTypes'
  BY <1>0, <1>e, <1>m DEF SessionTypes
<1>2. Numbers'
  BY <1>0, <1>e, <1>p, <1>n, <1>c DEF Numbers, Active
<1>3. Control'
  BY <1>0, <1>e, <1>p, <1>c DEF Control
<1>4. Buffered'
  BY <1>0, <1>e, <1>p DEF Buffered, Busy
<1> QED  BY <1>1, <1>2, <1>3, <1>4 DEF SessionInv

LEMMA FwdEndsSession ==
    ASSUME SessionInv, NEW s \in Sessions, SoundsSame, FwdEnds(s),
           forwarder[s].at \in {"ensure", "send"}
    PROVE  SessionInv'
<1> USE StreamAssumption
<1>0. SessionTypes /\ Numbers /\ Control /\ Buffered
  BY DEF SessionInv
<1>e. /\ forwarder' = [forwarder EXCEPT ![s] = Forwarding("done")]
      /\ UNCHANGED <<recording, target, buffer, captured, alive, sent, stop, discard, outcome, raced>>
  BY DEF FwdEnds, SoundsSame, audioVars
<1>n. captured[s] \in Nat
  BY <1>0 DEF SessionTypes
<1>m. forwarder' \in [Sessions -> FwdType]
  BY <1>e, <1>0, FwdTyped DEF SessionTypes
<1>p. /\ forwarder'[s].at = "done" /\ forwarder'[s].len = 0
      /\ \A r \in Sessions \ {s} : forwarder'[r] = forwarder[r]
  BY <1>e, <1>0 DEF SessionTypes, Forwarding
<1>1. SessionTypes'
  BY <1>0, <1>e, <1>m DEF SessionTypes
<1>2. Numbers'
  BY <1>0, <1>e, <1>p, <1>n DEF Numbers
<1>3. Control'
  BY <1>0, <1>e, <1>p DEF Control
<1>4. Buffered'
  BY <1>0, <1>e, <1>p DEF Buffered, Busy
<1> QED  BY <1>1, <1>2, <1>3, <1>4 DEF SessionInv

(* The drained audio of a stop path is the whole recording. *)
LEMMA DrainedIs ==
    ASSUME SessionInv, NEW s \in Sessions, stop[s].at \in {"ensure", "tail"}
    PROVE  /\ stop[s].audio = Cut(s, 0, captured[s]) /\ Len(stop[s].audio) = captured[s]
           /\ captured[s] \in Nat /\ captured[s] <= MaxSamples[s]
<1>1. /\ stop[s].audio = Cut(s, 0, captured[s])
      /\ captured[s] \in Nat /\ captured[s] <= MaxSamples[s]
  BY DEF SessionInv, Buffered, Numbers, SessionTypes
<1> QED  BY <1>1, CutFirst

LEMMA ToTailSession ==
    ASSUME SessionInv, NEW s \in Sessions, SoundsSame,
           StopGoes(s, [stop[s] EXCEPT !.at = "tail"]),
           stop[s].at = "ensure", sent[s] < Len(stop[s].audio)
    PROVE  SessionInv'
<1> USE StreamAssumption
<1>0. SessionTypes /\ Numbers /\ Control /\ Buffered
  BY DEF SessionInv
<1>e. /\ stop' = [stop EXCEPT ![s] = [stop[s] EXCEPT !.at = "tail"]]
      /\ UNCHANGED <<recording, target, buffer, captured, forwarder, alive, sent, discard, outcome,
                     raced>>
  BY DEF StopGoes, SoundsSame, audioVars
<1>m. stop' \in [Sessions -> StopType]
  BY <1>e, <1>0, StopTyped DEF SessionTypes
<1>p. /\ stop'[s].at = "tail" /\ stop'[s].audio = stop[s].audio
      /\ \A r \in Sessions \ {s} : stop'[r] = stop[r]
  BY <1>e, <1>0 DEF SessionTypes, StopType
<1>n. sent[s] < captured[s] /\ captured[s] > 0
  BY <1>0, DrainedIs DEF Numbers, Active
<1>1. SessionTypes'
  BY <1>0, <1>e, <1>m DEF SessionTypes
<1>2. Numbers'
  BY <1>0, <1>e, <1>p, <1>n DEF Numbers
<1>3. Control'
  BY <1>0, <1>e, <1>p DEF Control, Active
<1>4. Buffered'
  BY <1>0, <1>e, <1>p DEF Buffered, Busy
<1> QED  BY <1>1, <1>2, <1>3, <1>4 DEF SessionInv

LEMMA ToTranscribeSession ==
    ASSUME SessionInv, NEW s \in Sessions, SoundsSame, StopGoes(s, Stopping("transcribe")),
           stop[s].at \in {"ensure", "tail"}
    PROVE  SessionInv'
<1> USE StreamAssumption
<1>0. SessionTypes /\ Numbers /\ Control /\ Buffered
  BY DEF SessionInv
<1>e. /\ stop' = [stop EXCEPT ![s] = Stopping("transcribe")]
      /\ UNCHANGED <<recording, target, buffer, captured, forwarder, alive, sent, discard, outcome,
                     raced>>
  BY DEF StopGoes, SoundsSame, audioVars
<1>m. stop' \in [Sessions -> StopType]
  BY <1>e, <1>0, StopTyped DEF SessionTypes
<1>p. stop'[s].at = "transcribe" /\ \A r \in Sessions \ {s} : stop'[r] = stop[r]
  BY <1>e, <1>0 DEF SessionTypes, Stopping
<1>1. SessionTypes'
  BY <1>0, <1>e, <1>m DEF SessionTypes
<1>2. Numbers'
  BY <1>0, <1>e, <1>p DEF Numbers, Active
<1>3. Control'
  BY <1>0, <1>e, <1>p DEF Control, Active
<1>4. Buffered'
  BY <1>0, <1>e, <1>p DEF Buffered, Busy
<1> QED  BY <1>1, <1>2, <1>3, <1>4 DEF SessionInv

LEMMA StopEndsSession ==
    ASSUME SessionInv, NEW s \in Sessions, NEW result \in {Failed} \cup Seq(Samples), SoundsSame,
           StopEnds(s, result), stop[s].at \in {"ensure", "tail", "transcribe"}
    PROVE  SessionInv'
<1> USE StreamAssumption
<1>0. SessionTypes /\ Numbers /\ Control /\ Buffered
  BY DEF SessionInv
<1>e. /\ stop' = [stop EXCEPT ![s] = Stopping("done")]
      /\ outcome' = [outcome EXCEPT ![s] = result]
      /\ UNCHANGED <<recording, target, buffer, captured, forwarder, alive, sent, discard, raced>>
  BY DEF StopEnds, SoundsSame, audioVars
<1>m. stop' \in [Sessions -> StopType]
  BY <1>e, <1>0, StopTyped DEF SessionTypes
<1>p. stop'[s].at = "done" /\ \A r \in Sessions \ {s} : stop'[r] = stop[r]
  BY <1>e, <1>0 DEF SessionTypes, Stopping
<1>q. /\ outcome' \in [Sessions -> {None, Failed, Skipped} \cup Seq(Samples)]
      /\ outcome'[s] # None /\ \A r \in Sessions \ {s} : outcome'[r] = outcome[r]
  BY <1>e, <1>0, NoText DEF SessionTypes
<1>c. recording # s /\ forwarder[s].at = "done" /\ target[s] # None /\ discard[s] = "none"
  BY <1>0 DEF Control, Active
<1>1. SessionTypes'
  BY <1>0, <1>e, <1>m, <1>q DEF SessionTypes
<1>2. Numbers'
  BY <1>0, <1>e, <1>p DEF Numbers, Active
<1>3. Control'
  BY <1>0, <1>e, <1>p, <1>q, <1>c DEF Control, Active
<1>4. Buffered'
  <2>1. \A r \in Sessions : Busy(r)' => Busy(r)
    BY <1>e, <1>p DEF Busy
  <2>2. \A r \in Sessions : forwarder[r].at = "send" => r # s
    BY <1>c
  <2>3. \A r \in Sessions : stop'[r].at \in {"ensure", "tail"} => r # s
    BY <1>p
  <2> QED  BY <2>1, <2>2, <2>3, <1>0, <1>e, <1>p, <1>q DEF Buffered
<1> QED  BY <1>1, <1>2, <1>3, <1>4 DEF SessionInv

LEMMA DiscardEndsSession ==
    ASSUME SessionInv, NEW s \in Sessions, SoundsSame, DiscardEnds(s), discard[s] = "want"
    PROVE  SessionInv'
<1> USE StreamAssumption
<1>0. SessionTypes /\ Numbers /\ Control /\ Buffered
  BY DEF SessionInv
<1>e. /\ discard' = [discard EXCEPT ![s] = "done"]
      /\ UNCHANGED <<recording, target, buffer, captured, forwarder, alive, sent, stop, outcome,
                     raced>>
  BY DEF DiscardEnds, SoundsSame, audioVars
<1>1. SessionTypes'
  BY <1>0, <1>e DEF SessionTypes
<1>2. Numbers'
  BY <1>0, <1>e DEF Numbers
<1>3. Control'
  BY <1>0, <1>e DEF Control, SessionTypes
<1>4. Buffered'
  BY <1>0, <1>e DEF Buffered, Busy, SessionTypes
<1> QED  BY <1>1, <1>2, <1>3, <1>4 DEF SessionInv

-----------------------------------------------------------------------------
(* A call returns, to a caller that goes on or to one that reports the     *)
(* error.                                                                  *)
Passes(c, text) ==
    \/ /\ c.by = "forwarder"
       /\ \/ c.op = "ensure" /\ FwdGoes(c.session, sent[c.session])
          \/ c.op = "append" /\ FwdGoes(c.session, forwarder[c.session].len)
    \/ /\ c.by = "stop"
       /\ \/ /\ c.op = "ensure" /\ sent[c.session] < Len(stop[c.session].audio)
             /\ StopGoes(c.session, [stop[c.session] EXCEPT !.at = "tail"])
          \/ /\ c.op = "ensure" /\ ~(sent[c.session] < Len(stop[c.session].audio))
             /\ StopGoes(c.session, Stopping("transcribe"))
          \/ c.op = "append" /\ StopGoes(c.session, Stopping("transcribe"))
          \/ c.op = "transcribe" /\ StopEnds(c.session, text)
    \/ c.by = "discard" /\ DiscardEnds(c.session)
    \/ c.by \in {"unload", "settings"} /\ UNCHANGED streamVars

Fails(c) ==
    \/ c.by = "forwarder" /\ FwdEnds(c.session)
    \/ c.by = "stop" /\ StopEnds(c.session, Failed)
    \/ c.by = "discard" /\ DiscardEnds(c.session)
    \/ c.by \in {"unload", "settings"} /\ UNCHANGED streamVars

LEMMA SentKept ==
    ASSUME sent \in [Sessions -> Nat], NEW s \in Sessions
    PROVE  [sent EXCEPT ![s] = sent[s]] = sent
  OBVIOUS

LEMMA OutcomeKept ==
    ASSUME NEW S, outcome \in [Sessions -> S], NEW s \in Sessions
    PROVE  [outcome EXCEPT ![s] = outcome[s]] = outcome
  OBVIOUS

LEMMA StopReturns ==
    ASSUME NEW c \in CallType, c.by = "stop", NEW ok \in BOOLEAN, NEW text, Returns(c, ok, text)
    PROVE  LET s == c.session
           IN  /\ stop' = [stop EXCEPT ![s] =
                              IF ~ok \/ c.op = "transcribe" THEN Stopping("done")
                              ELSE IF c.op = "ensure" /\ sent[s] < Len(@.audio)
                                   THEN [@ EXCEPT !.at = "tail"]
                              ELSE Stopping("transcribe")]
               /\ outcome' = [outcome EXCEPT ![s] = IF ~ok THEN Failed
                                                    ELSE IF c.op = "transcribe" THEN text ELSE @]
               /\ UNCHANGED <<forwarder, alive, sent, discard>>
  BY Zenon DEF Returns

LEMMA FwdReturns ==
    ASSUME NEW c \in CallType, c.by = "forwarder", NEW ok \in BOOLEAN, NEW text, Returns(c, ok, text)
    PROVE  LET s == c.session
           IN  /\ forwarder' = [forwarder EXCEPT ![s] = Forwarding(IF ok THEN "top" ELSE "done")]
               /\ sent' = IF ok /\ c.op = "append"
                          THEN [sent EXCEPT ![s] = forwarder[s].len] ELSE sent
               /\ UNCHANGED <<alive, stop, discard, outcome>>
  BY Zenon DEF Returns

LEMMA DiscardReturns ==
    ASSUME NEW c \in CallType, c.by = "discard", NEW ok \in BOOLEAN, NEW text, Returns(c, ok, text)
    PROVE  DiscardEnds(c.session)
  BY Zenon DEF Returns, DiscardEnds

LEMMA OtherReturns ==
    ASSUME NEW c \in CallType, c.by \in {"unload", "settings"}, NEW ok \in BOOLEAN, NEW text,
           Returns(c, ok, text)
    PROVE  UNCHANGED streamVars
<1>1. c.by # "forwarder" /\ c.by # "stop" /\ c.by # "discard"
  OBVIOUS
<1> QED  BY <1>1, Zenon DEF Returns

LEMMA ReturnsPass ==
    ASSUME SessionInv, NEW c \in CallType, Placed(c), NEW text, NEW ok \in BOOLEAN, ok,
           Returns(c, ok, text)
    PROVE  Passes(c, text)
<1>0. SessionTypes
  BY DEF SessionInv
<1>1. CASE c.by = "forwarder"
  <2>1. c.session \in Sessions /\ c.op \in {"ensure", "append"}
    BY <1>1 DEF Placed
  <2>2. /\ forwarder' = [forwarder EXCEPT ![c.session] = Forwarding("top")]
        /\ sent' = IF c.op = "append"
                   THEN [sent EXCEPT ![c.session] = forwarder[c.session].len] ELSE sent
        /\ UNCHANGED <<alive, stop, discard, outcome>>
    BY <1>1, FwdReturns
  <2>3. CASE c.op = "ensure"
    <3>1. sent' = [sent EXCEPT ![c.session] = sent[c.session]]
      BY <2>1, <2>2, <2>3, <1>0, SentKept DEF SessionTypes
    <3> QED  BY <1>1, <2>2, <2>3, <3>1 DEF Passes, FwdGoes
  <2>4. CASE c.op = "append"
    BY <1>1, <2>2, <2>4 DEF Passes, FwdGoes
  <2> QED  BY <2>1, <2>3, <2>4
<1>2. CASE c.by = "stop"
  <2>1. c.session \in Sessions /\ c.op \in {"ensure", "append", "transcribe"}
    BY <1>2 DEF Placed
  <2> DEFINE s == c.session
  <2>2. /\ stop' = [stop EXCEPT ![s] =
                       IF c.op = "transcribe" THEN Stopping("done")
                       ELSE IF c.op = "ensure" /\ sent[s] < Len(stop[s].audio)
                            THEN [stop[s] EXCEPT !.at = "tail"]
                       ELSE Stopping("transcribe")]
        /\ outcome' = [outcome EXCEPT ![s] = IF c.op = "transcribe" THEN text ELSE outcome[s]]
        /\ UNCHANGED <<forwarder, alive, sent, discard>>
    <3>1. ok = TRUE
      OBVIOUS
    <3>2. Returns(c, TRUE, text)
      BY <3>1
    <3> QED  BY <1>2, <3>2, StopReturns
  <2>3. CASE c.op = "transcribe"
    BY <1>2, <2>2, <2>3 DEF Passes, StopEnds
  <2>4. CASE c.op # "transcribe"
    <3>1. outcome' = outcome
      BY <2>1, <2>2, <2>4, <1>0, OutcomeKept DEF SessionTypes
    <3>2. CASE c.op = "ensure" /\ sent[s] < Len(stop[s].audio)
      BY <1>2, <2>2, <3>1, <3>2 DEF Passes, StopGoes
    <3>3. CASE ~(c.op = "ensure" /\ sent[s] < Len(stop[s].audio))
      <4>1. StopGoes(s, Stopping("transcribe"))
        BY <2>2, <2>4, <3>1, <3>3 DEF StopGoes
      <4> QED  BY <1>2, <2>1, <2>4, <3>3, <4>1 DEF Passes
    <3> QED  BY <3>2, <3>3
  <2> QED  BY <2>3, <2>4
<1>3. CASE c.by = "discard"
  BY <1>3, DiscardReturns DEF Passes
<1>4. CASE c.by \in {"unload", "settings"}
  BY <1>4, OtherReturns DEF Passes
<1> QED  BY <1>1, <1>2, <1>3, <1>4 DEF Placed

LEMMA ReturnsFail ==
    ASSUME NEW c \in CallType, Placed(c), NEW ok \in BOOLEAN, ~ok, NEW text, Returns(c, ok, text)
    PROVE  Fails(c)
<1>1. CASE c.by = "forwarder"
  <2>2. /\ forwarder' = [forwarder EXCEPT ![c.session] = Forwarding("done")]
        /\ sent' = sent
        /\ UNCHANGED <<alive, stop, discard, outcome>>
    BY <1>1, FwdReturns
  <2> QED  BY <1>1, <2>2 DEF Fails, FwdEnds
<1>2. CASE c.by = "stop"
  <2>2. /\ stop' = [stop EXCEPT ![c.session] = Stopping("done")]
        /\ outcome' = [outcome EXCEPT ![c.session] = Failed]
        /\ UNCHANGED <<forwarder, alive, sent, discard>>
    BY <1>2, StopReturns
  <2> QED  BY <1>2, <2>2 DEF Fails, StopEnds
<1>3. CASE c.by = "discard"
  BY <1>3, DiscardReturns DEF Fails
<1>4. CASE c.by \in {"unload", "settings"}
  BY <1>4, OtherReturns DEF Fails
<1> QED  BY <1>1, <1>2, <1>3, <1>4 DEF Placed

LEMMA PassSession ==
    ASSUME SessionInv, NEW c \in CallType, Placed(c), NEW text, Passes(c, text), SoundsSame,
           c.op = "transcribe" => text \in Seq(Samples)
    PROVE  SessionInv'
<1>1. ASSUME c.by = "forwarder", c.op = "ensure", FwdGoes(c.session, sent[c.session]) PROVE SessionInv'
  BY <1>1, FwdGoesSession DEF Placed
<1>2. ASSUME c.by = "forwarder", c.op = "append", FwdGoes(c.session, forwarder[c.session].len)
      PROVE  SessionInv'
  BY <1>2, FwdGoesSession DEF Placed
<1>3. ASSUME c.by = "stop", c.op = "ensure", sent[c.session] < Len(stop[c.session].audio),
             StopGoes(c.session, [stop[c.session] EXCEPT !.at = "tail"])
      PROVE  SessionInv'
  <2>1. c.session \in Sessions /\ stop[c.session].at = "ensure"
    BY <1>3 DEF Placed
  <2> QED  BY <1>3, <2>1, ToTailSession
<1>4. ASSUME c.by = "stop", c.op \in {"ensure", "append"}, StopGoes(c.session, Stopping("transcribe"))
      PROVE  SessionInv'
  <2>1. c.session \in Sessions /\ stop[c.session].at \in {"ensure", "tail"}
    BY <1>4 DEF Placed
  <2> QED  BY <1>4, <2>1, ToTranscribeSession
<1>5. ASSUME c.by = "stop", c.op = "transcribe", StopEnds(c.session, text) PROVE SessionInv'
  <2>1. c.session \in Sessions /\ stop[c.session].at = "transcribe"
    BY <1>5 DEF Placed
  <2> QED  BY <1>5, <2>1, StopEndsSession
<1>6. ASSUME c.by = "discard", DiscardEnds(c.session) PROVE SessionInv'
  <2>1. c.session \in Sessions /\ discard[c.session] = "want"
    BY <1>6 DEF Placed
  <2> QED  BY <1>6, <2>1, DiscardEndsSession
<1>7. ASSUME UNCHANGED streamVars PROVE SessionInv'
  BY <1>7 DEF SoundsSame, streamVars, audioVars, SessionInv, SessionTypes, Numbers, Control,
              Buffered, Busy
<1> QED  BY <1>1, <1>2, <1>3, <1>4, <1>5, <1>6, <1>7 DEF Passes

LEMMA FailSession ==
    ASSUME SessionInv, NEW c \in CallType, Placed(c), Fails(c), SoundsSame
    PROVE  SessionInv'
<1>1. ASSUME c.by = "forwarder", FwdEnds(c.session) PROVE SessionInv'
  <2>1. c.session \in Sessions /\ forwarder[c.session].at \in {"ensure", "send"}
    BY <1>1 DEF Placed
  <2> QED  BY <1>1, <2>1, FwdEndsSession
<1>2. ASSUME c.by = "stop", StopEnds(c.session, Failed) PROVE SessionInv'
  <2>1. c.session \in Sessions /\ stop[c.session].at \in {"ensure", "tail", "transcribe"}
    BY <1>2 DEF Placed
  <2> QED  BY <1>2, <2>1, StopEndsSession
<1>3. ASSUME c.by = "discard", DiscardEnds(c.session) PROVE SessionInv'
  <2>1. c.session \in Sessions /\ discard[c.session] = "want"
    BY <1>3 DEF Placed
  <2> QED  BY <1>3, <2>1, DiscardEndsSession
<1>4. ASSUME UNCHANGED streamVars PROVE SessionInv'
  BY <1>4 DEF SoundsSame, streamVars, audioVars, SessionInv, SessionTypes, Numbers, Control,
              Buffered, Busy
<1> QED  BY <1>1, <1>2, <1>3, <1>4 DEF Fails

(* The calls that can be made are made by callers that are there. *)
LEMMA CallsPlaced ==
    ASSUME SessionInv, NEW c \in Calls
    PROVE  /\ c \in CallType /\ Placed(c) /\ c.session \in Sessions
           /\ c.op \in {"ensure", "append", "transcribe"}
           /\ c.by \in {"forwarder", "stop", "discard"}
<1>0. SessionTypes
  BY DEF SessionInv
<1> DEFINE Made == /\ c \in CallType /\ Placed(c) /\ c.session \in Sessions
                   /\ c.op \in {"ensure", "append", "transcribe"}
                   /\ c.by \in {"forwarder", "stop", "discard"}
<1>1. ASSUME NEW s \in Sessions, forwarder[s].at = "ensure", c = Call("forwarder", s, "ensure", <<>>)
      PROVE  Made
  BY <1>1 DEF Call, CallType, Placed
<1>2. ASSUME NEW s \in Sessions, forwarder[s].at = "send",
             c = Call("forwarder", s, "append", forwarder[s].chunk)
      PROVE  Made
  <2>1. forwarder[s].chunk \in Seq(Samples)
    BY <1>0 DEF SessionTypes, FwdType
  <2> QED  BY <1>2, <2>1 DEF Call, CallType, Placed
<1>3. ASSUME NEW s \in Sessions, stop[s].at = "ensure", c = Call("stop", s, "ensure", <<>>)
      PROVE  Made
  BY <1>3 DEF Call, CallType, Placed
<1>4. ASSUME NEW s \in Sessions, stop[s].at = "tail",
             c = Call("stop", s, "append", SubSeq(stop[s].audio, sent[s] + 1, Len(stop[s].audio)))
      PROVE  Made
  <2> DEFINE tail == SubSeq(stop[s].audio, sent[s] + 1, Len(stop[s].audio))
  <2>1. tail \in Seq(Samples)
    BY <1>0 DEF SessionTypes, StopType
  <2> HIDE DEF tail
  <2>2. c \in CallType
    BY <1>4, <2>1 DEF Call, CallType, tail
  <2>3. c.by = "stop" /\ c.session = s /\ c.op = "append" /\ c.body = tail
    BY <1>4 DEF Call, tail
  <2> QED  BY <1>4, <2>2, <2>3 DEF Placed, tail
<1>5. ASSUME NEW s \in Sessions, stop[s].at = "transcribe", c = Call("stop", s, "transcribe", <<>>)
      PROVE  Made
  BY <1>5 DEF Call, CallType, Placed
<1>6. ASSUME NEW s \in Sessions, discard[s] = "want", c = Call("discard", s, "transcribe", <<>>)
      PROVE  Made
  BY <1>6 DEF Call, CallType, Placed
<1> HIDE DEF Made
<1>7. Made
  BY <1>1, <1>2, <1>3, <1>4, <1>5, <1>6, Zenon DEF Calls
<1> QED  BY <1>7 DEF Made

-----------------------------------------------------------------------------
(* The steps of the client, by what they do to the pipe and to the caller  *)

Elsewhere ==
    /\ setting' = setting /\ switching' \in {switching, FALSE}
    /\ faults' \in {faults, faults + 1}
    /\ SoundsSame

(* The frame is out. *)
Sent(c, op, body) ==
    /\ client = None /\ link.up /\ Placed(c)
    /\ \/ op = "ping" /\ c.op = "ensure" /\ body = <<>>
       \/ op = "hello" /\ c.op = "ensure" /\ body = target[c.session]
       \/ op = c.op /\ op # "ensure" /\ body = c.body
    /\ op = "shutdown" => switching
    /\ Send(c, op, body)

(* The call is that of the client, or of a caller that finds it free. *)
Due(c) == Placed(c) /\ (client = None \/ (client # None /\ c = Plain(client)))

(* Without a fault the worker that goes is dead already. *)
Harmless == Calm /\ faults' = 0 => ~worker.alive

Respawned(c) ==
    /\ Due(c) /\ c.op = "ensure" /\ Harmless
    /\ Spawn(target[c.session]) /\ Passes(c, None)
    /\ client' = None

Dropped(c) ==
    /\ Due(c) /\ Harmless
    /\ Drop /\ Fails(c)
    /\ client' = None

Refused(c) ==
    /\ client = None /\ client' = None
    /\ ~link.up /\ Placed(c) /\ c.op # "ensure"
    /\ UNCHANGED pipeVars /\ Fails(c)

Answered(c) ==
    /\ client # None /\ c = Plain(client)
    /\ replies # <<>> /\ Head(replies).id = IdOf(client)
    /\ replies' = Tail(replies)
    /\ link' = IF client.op = "hello" THEN [link EXCEPT !.model = target[client.session]] ELSE link
    /\ Passes(c, Head(replies).text)
    /\ client' = None
    /\ UNCHANGED <<requests, worker, lost>>

Expired(c) ==
    /\ client # None /\ c = Plain(client) /\ client.op \in {"ping", "unload"}
    /\ requests' = Stale(requests) /\ replies' = Stale(replies)
    /\ Passes(c, None)
    /\ client' = None
    /\ UNCHANGED <<link, worker, lost>>
    /\ Calm => faults' # 0

Gone ==
    /\ client # None /\ client.op = "unload" /\ ~worker.alive /\ replies = <<>>
    /\ UNCHANGED <<streamVars, pipeVars>>
    /\ client' = None

Nothing == UNCHANGED <<streamVars, client, pipeVars>>

LEMMA PlainIs ==
    ASSUME NEW c \in CallType
    PROVE  /\ Plain(c) \in CallType
           /\ Plain(c).by = c.by /\ Plain(c).session = c.session /\ Plain(c).body = c.body
           /\ Plain(c).op = IF c.op \in {"ping", "hello"} THEN "ensure" ELSE c.op
           /\ c.op \in {"ping", "hello"} => Plain(c) = [c EXCEPT !.op = "ensure"]
           /\ c.op \notin {"ping", "hello"} => Plain(c) = c
           /\ c.op # "hello" => Plain(c) = [c EXCEPT !.op = IF @ = "ping" THEN "ensure" ELSE @]
  BY DEF Plain, CallType

LEMMA ClientIs ==
    ASSUME PipeInv, client # None
    PROVE  /\ client \in CallType /\ client.op # "ensure" /\ link.up
           /\ Plain(client) \in CallType /\ Placed(Plain(client))
           /\ Due(Plain(client))
  BY PlainIs DEF PipeInv, PipeTypes, Caller, Due

(* Without a fault the call under way has its frame in the pipe. *)
LEMMA CalmAnswerable ==
    ASSUME PipeInv, Calm, faults = 0, client # None
    PROVE  ~Unanswerable
<1>1. /\ requests # <<>> \/ replies # <<>>
      /\ \A i \in DOMAIN requests : requests[i].id # "stale"
      /\ \A i \in DOMAIN replies : replies[i].id # "stale"
  BY DEF Calm
<1>2. CASE requests # <<>>
  <2>1. 1 \in DOMAIN requests
    BY <1>2 DEF PipeInv, PipeTypes
  <2>2. requests[1].id = IdOf(client)
    BY <1>1, <2>1 DEF PipeInv, Asked, Outstanding
  <2> QED  BY <2>1, <2>2 DEF Unanswerable, Range
<1>3. CASE replies # <<>>
  <2>1. 1 \in DOMAIN replies
    BY <1>3 DEF PipeInv, PipeTypes
  <2>2. replies[1].id = IdOf(client)
    BY <1>1, <2>1 DEF PipeInv, Replied
  <2> QED  BY <2>1, <2>2 DEF Unanswerable, Range
<1> QED  BY <1>1, <1>2, <1>3

LEMMA RespawnCases ==
    ASSUME SessionInv, NEW c \in CallType, Due(c), c.op = "ensure", Harmless, Respawn(c), client' = None
    PROVE  Respawned(c) \/ Dropped(c)
<1>p. Placed(c)
  BY DEF Due
<1>1. CASE Spawn(target[c.session]) /\ Returns(c, TRUE, None)
  BY <1>1, <1>p, ReturnsPass DEF Respawned
<1>2. CASE Drop /\ Returns(c, FALSE, None)
  BY <1>2, <1>p, ReturnsFail DEF Dropped
<1> QED  BY <1>1, <1>2 DEF Respawn

LEMMA BeginCases ==
    ASSUME SessionInv, PipeInv, NEW c \in Calls, Begin(c)
    PROVE  /\ Elsewhere /\ c \in CallType
           /\ \/ \E op, body : Sent(c, op, body)
              \/ Respawned(c) \/ Dropped(c) \/ Refused(c)
<1>c. /\ c \in CallType /\ Placed(c) /\ c.session \in Sessions
      /\ c.op \in {"ensure", "append", "transcribe"}
  BY CallsPlaced
<1>0. /\ client = None
      /\ IF c.op = "ensure" THEN EnsureWorker(c) ELSE OnStream(c)
      /\ UNCHANGED <<setting, switching, audioVars, faults, raced>>
  BY DEF Begin
<1>1. Elsewhere
  BY <1>0 DEF Elsewhere, SoundsSame
<1>d. Due(c)
  BY <1>0, <1>c DEF Due
<1>2. CASE c.op = "ensure"
  <2>0. target[c.session] # None
    BY <1>2, <1>c DEF SessionInv, Control, Placed
  <2>1. CASE link.up /\ link.model = target[c.session]
    <3>1. Send(c, "ping", <<>>)
      BY <1>0, <1>2, <2>0, <2>1 DEF EnsureWorker
    <3> QED  BY <1>0, <1>1, <1>2, <1>c, <2>1, <3>1 DEF Sent
  <2>2. CASE link.up /\ link.model = None /\ link.model # target[c.session]
    <3>1. Send(c, "hello", target[c.session])
      BY <1>0, <1>2, <2>2 DEF EnsureWorker
    <3> QED  BY <1>0, <1>1, <1>2, <1>c, <2>2, <3>1 DEF Sent
  <2>3. CASE ~link.up \/ (link.model # target[c.session] /\ link.model # None)
    <3>1. Respawn(c) /\ client' = None
      BY <1>0, <1>2, <2>3 DEF EnsureWorker
    <3>2. ASSUME Calm, faults' = 0 PROVE ~worker.alive
      <4>1. CASE ~link.up
        BY <4>1 DEF PipeInv, Ends
      <4>2. CASE link.up /\ link.model # target[c.session] /\ link.model # None
        <5>1. faults = 0
          BY <3>2, <1>0
        <5>2. link.model = setting /\ target[c.session] \in {None, setting}
          BY <5>1, <3>2, <4>2, <1>c DEF Calm
        <5> QED  BY <2>0, <5>2, <4>2
      <4> QED  BY <2>3, <4>1, <4>2
    <3>3. Harmless
      BY <3>2 DEF Harmless
    <3> QED  BY <1>1, <1>2, <1>c, <1>d, <3>1, <3>3, RespawnCases
  <2> QED  BY <2>1, <2>2, <2>3
<1>3. CASE c.op # "ensure"
  <2>0. OnStream(c)
    BY <1>0, <1>3
  <2>1. CASE link.up
    <3>1. Send(c, c.op, c.body)
      BY <2>0, <2>1 DEF OnStream
    <3> QED  BY <1>0, <1>1, <1>3, <1>c, <2>1, <3>1 DEF Sent
  <2>2. CASE ~link.up
    <3>1. Returns(c, FALSE, None) /\ UNCHANGED <<client, pipeVars>>
      BY <2>0, <2>2 DEF OnStream
    <3>2. Fails(c)
      BY <3>1, <1>c, ReturnsFail
    <3> QED  BY <1>0, <1>1, <1>3, <1>c, <2>2, <3>1, <3>2 DEF Refused
  <2> QED  BY <2>1, <2>2
<1> QED  BY <1>2, <1>3

LEMMA AnswerCases ==
    ASSUME SessionInv, PipeInv, Answer
    PROVE  Elsewhere /\ Plain(client) \in CallType /\ Answered(Plain(client))
<1>0. /\ client # None /\ replies # <<>> /\ Answers(Head(replies))
      /\ replies' = Tail(replies)
      /\ link' = IF client.op = "hello" THEN [link EXCEPT !.model = target[client.session]] ELSE link
      /\ Returns([client EXCEPT !.op = IF @ \in {"ping", "hello"} THEN "ensure" ELSE @], TRUE,
                 Head(replies).text)
      /\ client' = None
      /\ UNCHANGED <<setting, switching, audioVars, requests, worker, lost, faults, raced>>
  BY DEF Answer
<1>1. Plain(client) \in CallType /\ Placed(Plain(client))
  BY <1>0, ClientIs
<1>2. Returns(Plain(client), TRUE, Head(replies).text)
  BY <1>0, Zenon DEF Plain
<1>3. Passes(Plain(client), Head(replies).text)
  BY <1>1, <1>2, ReturnsPass
<1>4. Elsewhere
  BY <1>0 DEF Elsewhere, SoundsSame
<1> QED  BY <1>0, <1>1, <1>3, <1>4 DEF Answered, Answers

LEMMA GiveUpCases ==
    ASSUME SessionInv, PipeInv, client # None, GiveUp, Harmless, client' = None,
           client.op = "unload" => ~worker.alive /\ replies = <<>>
    PROVE  \/ Respawned(Plain(client)) \/ Dropped(Plain(client))
           \/ Gone
<1>c. /\ client \in CallType /\ Plain(client) \in CallType /\ Placed(Plain(client))
      /\ Due(Plain(client))
  BY ClientIs
<1>1. CASE client.op \in {"ping", "hello"}
  <2>1. Respawn([client EXCEPT !.op = "ensure"])
    BY <1>1, Zenon DEF GiveUp
  <2>2. Plain(client) = [client EXCEPT !.op = "ensure"] /\ Plain(client).op = "ensure"
    BY <1>1, <1>c, PlainIs
  <2> QED  BY <1>c, <2>1, <2>2, RespawnCases
<1>2. CASE client.op = "unload"
  <2>1. UNCHANGED <<streamVars, pipeVars>>
    BY <1>2, Zenon DEF GiveUp
  <2> QED  BY <1>2, <2>1 DEF Gone
<1>3. CASE client.op \notin {"ping", "hello", "unload"}
  <2>1. Drop /\ Returns(client, FALSE, None)
    BY <1>3, Zenon DEF GiveUp
  <2>2. Plain(client) = client
    BY <1>3, <1>c, PlainIs
  <2> QED  BY <1>c, <2>1, <2>2, ReturnsFail DEF Dropped
<1> QED  BY <1>1, <1>2, <1>3

LEMMA ClosedCases ==
    ASSUME SessionInv, PipeInv, Closed
    PROVE  /\ Elsewhere /\ Plain(client) \in CallType
           /\ Respawned(Plain(client)) \/ Dropped(Plain(client)) \/ Gone
<1>0. /\ client # None /\ ~worker.alive /\ replies = <<>> /\ GiveUp /\ client' = None
      /\ UNCHANGED <<setting, switching, audioVars, faults, raced>>
  BY DEF Closed
<1>1. Harmless
  BY <1>0 DEF Harmless
<1>2. Elsewhere
  BY <1>0 DEF Elsewhere, SoundsSame
<1> QED  BY <1>0, <1>1, <1>2, ClientIs, GiveUpCases

LEMMA TimesOutCases ==
    ASSUME SessionInv, PipeInv, TimesOut
    PROVE  /\ Elsewhere /\ Plain(client) \in CallType
           /\ Respawned(Plain(client)) \/ Dropped(Plain(client)) \/ Expired(Plain(client))
<1>0. /\ client # None /\ BudgetEnds /\ client' = None
      /\ UNCHANGED <<setting, switching, audioVars, raced>>
  BY DEF TimesOut
<1>c. client \in CallType /\ Plain(client) \in CallType /\ Placed(Plain(client))
  BY <1>0, ClientIs
<1>f. faults' \in {faults, faults + 1} /\ (faults' = faults => Unanswerable)
  BY <1>0 DEF BudgetEnds, Fault, PipeInv, PipeTypes
<1>e. Elsewhere
  BY <1>0, <1>f DEF Elsewhere, SoundsSame
<1>1. ASSUME Calm PROVE faults' # 0
  <2>1. SUFFICES ASSUME faults' = 0 PROVE FALSE
    OBVIOUS
  <2>2. faults = 0 /\ Unanswerable
    BY <2>1, <1>f DEF PipeInv, PipeTypes
  <2> QED  BY <2>2, <1>1, <1>0, CalmAnswerable
<1>h. Harmless
  BY <1>1 DEF Harmless
<1>2. CASE KeepsOnTimeout(client)
  <2>1. /\ requests' = Stale(requests) /\ replies' = Stale(replies)
        /\ Returns([client EXCEPT !.op = IF @ = "ping" THEN "ensure" ELSE @], client.op # "append", None)
        /\ UNCHANGED <<link, worker, lost>>
    BY <1>2, Zenon DEF TimesOut
  <2>2. client.op \in {"ping", "unload"}
    BY <1>2 DEF KeepsOnTimeout
  <2>3. Plain(client) = [client EXCEPT !.op = IF @ = "ping" THEN "ensure" ELSE @]
    BY <2>2, <1>c, PlainIs
  <2>4. Returns(Plain(client), client.op # "append", None)
    BY <2>1, <2>3, Zenon
  <2>5. PICK ok \in BOOLEAN : ok /\ Returns(Plain(client), ok, None)
    <3>1. client.op # "append" <=> TRUE
      BY <2>2
    <3> QED  BY <2>4, <3>1, Zenon
  <2>6. Passes(Plain(client), None)
    BY <2>5, <1>c, ReturnsPass
  <2> QED  BY <1>0, <1>1, <1>c, <1>e, <2>1, <2>2, <2>6 DEF Expired
<1>3. CASE ~KeepsOnTimeout(client)
  <2>1. GiveUp
    BY <1>3, Zenon DEF TimesOut
  <2>2. client.op # "unload"
    BY <1>3 DEF KeepsOnTimeout
  <2> QED  BY <1>0, <1>c, <1>e, <1>h, <2>1, <2>2, GiveUpCases DEF Gone
<1> QED  BY <1>2, <1>3

LEMMA UnloadCases ==
    ASSUME SessionInv, PipeInv, BeginUnload
    PROVE  /\ Elsewhere
           /\ \E c \in CallType : \E op, body : Sent(c, op, body)
<1> DEFINE c == Call("unload", None, "unload", <<>>)
<1>0. /\ client = None /\ link.up /\ Send(c, "unload", <<>>)
      /\ UNCHANGED <<setting, switching, audioVars, faults, raced>>
  BY DEF BeginUnload
<1>1. c \in CallType /\ c.by = "unload" /\ c.session = None /\ c.op = "unload" /\ c.body = <<>>
  BY DEF Call, CallType
<1>2. Elsewhere
  BY <1>0 DEF Elsewhere, SoundsSame
<1> HIDE DEF c
<1>3. Sent(c, "unload", <<>>)
  BY <1>0, <1>1 DEF Sent, Placed
<1> QED  BY <1>1, <1>2, <1>3

LEMMA ShutdownCases ==
    ASSUME SessionInv, PipeInv, BeginShutdown
    PROVE  /\ Elsewhere
           /\ Nothing \/ \E c \in CallType : \E op, body : Sent(c, op, body)
<1> DEFINE c == Call("settings", None, "shutdown", <<>>)
<1>0. /\ switching /\ client = None /\ switching' = FALSE
      /\ UNCHANGED <<setting, audioVars, faults, raced>>
  BY DEF BeginShutdown
<1>2. Elsewhere
  BY <1>0 DEF Elsewhere, SoundsSame
<1>3. CASE link.up
  <2>0. Send(c, "shutdown", <<>>)
    BY <1>3 DEF BeginShutdown
  <2>1. c \in CallType /\ c.by = "settings" /\ c.session = None /\ c.op = "shutdown" /\ c.body = <<>>
    BY DEF Call, CallType
  <2> HIDE DEF c
  <2>3. Sent(c, "shutdown", <<>>)
    BY <1>0, <1>3, <2>0, <2>1 DEF Sent, Placed
  <2> QED  BY <1>2, <2>1, <2>3
<1>4. CASE ~link.up
  BY <1>2, <1>4 DEF BeginShutdown, Nothing
<1> QED  BY <1>3, <1>4

LEMMA WarmUpIs ==
    ASSUME WarmUp
    PROVE  /\ client = None /\ client' = None /\ ~link.up /\ Spawn(None)
           /\ UNCHANGED <<setting, switching, faults, streamVars>> /\ SoundsSame
  BY DEF WarmUp, SoundsSame

(* The steps of a recording, of its user and of its threads *)
Moves(s) ==
    \/ Start(s) \/ Capture(s) \/ StopTap(s) \/ Stop(s) \/ Cancel(s)
    \/ Poll(s) \/ Peek(s) \/ Drain(s) \/ Discard(s)

(* Those of the client on behalf of a caller *)
Acts(c) ==
    \/ \E op, body : Sent(c, op, body)
    \/ Respawned(c) \/ Dropped(c) \/ Refused(c) \/ Answered(c) \/ Expired(c)

LEMMA Steps ==
    ASSUME SessionInv, PipeInv, Next
    PROVE  \/ \E s \in Sessions : Moves(s)
           \/ Elsewhere /\ \E c \in CallType : Acts(c)
           \/ Elsewhere /\ (Gone \/ Nothing)
           \/ WarmUp \/ WorkerCrashes \/ WorkerServes \/ WorkerMisreads \/ SkipStale \/ SwitchModel
<1>1. ASSUME NEW c \in Calls, Begin(c) PROVE Elsewhere /\ \E d \in CallType : Acts(d)
  <2>1. Elsewhere /\ c \in CallType /\ Acts(c)
    BY <1>1, BeginCases DEF Acts
  <2> QED  BY <2>1
<1>2. CASE Answer
  <2>1. Elsewhere /\ Plain(client) \in CallType /\ Acts(Plain(client))
    BY <1>2, AnswerCases DEF Acts
  <2> QED  BY <2>1
<1>3. CASE Closed
  <2>1. Elsewhere /\ Plain(client) \in CallType /\ (Acts(Plain(client)) \/ Gone)
    BY <1>3, ClosedCases DEF Acts
  <2> QED  BY <2>1
<1>4. CASE TimesOut
  <2>1. Elsewhere /\ Plain(client) \in CallType /\ Acts(Plain(client))
    BY <1>4, TimesOutCases DEF Acts
  <2> QED  BY <2>1
<1>5. CASE BeginUnload
  <2>1. PICK c \in CallType : Elsewhere /\ Acts(c)
    BY <1>5, UnloadCases DEF Acts
  <2> QED  BY <2>1
<1>6. CASE BeginShutdown
  <2>1. Elsewhere /\ (Nothing \/ \E c \in CallType : Acts(c))
    BY <1>6, ShutdownCases DEF Acts
  <2> QED  BY <2>1
<1>7. ASSUME NEW s \in Sessions,
             \/ Start(s) \/ Capture(s)
             \/ StopTap(s) \/ Stop(s) \/ Cancel(s)
             \/ SessionStep(s)
      PROVE  Moves(s)
  BY <1>7 DEF Moves, SessionStep
<1> QED  BY <1>1, <1>2, <1>3, <1>4, <1>5, <1>6, <1>7 DEF Next, ClientStep

-----------------------------------------------------------------------------
LEMMA SessionKept ==
    ASSUME SessionInv, UNCHANGED <<audioVars, streamVars, raced>>
    PROVE  SessionInv'
  BY DEF streamVars, audioVars, SessionInv, SessionTypes, Numbers, Control, Buffered, Busy

LEMMA MovesSession ==
    ASSUME SessionInv, setting \in Models, NEW s \in Sessions, Moves(s)
    PROVE  SessionInv'
  BY StartSession, CaptureSession, StopTapSession, StopSession, CancelSession, PollSession,
     PeekSession, DrainSession, DiscardSession DEF Moves

(* A call on behalf of a session is made where the session is. *)
LEMMA CallerIs ==
    ASSUME PipeInv, client # None
    PROVE  /\ client.op \in {"ping", "hello", "append", "transcribe"} => client.session \in Sessions
           /\ client.op \in {"append", "transcribe"} => Placed(client)
           /\ IdOf(client) # "stale"
           /\ IdOf(client) \in Sessions \cup {"fresh"}
<1>0. client \in CallType /\ Placed(Plain(client))
  BY ClientIs
<1>1. CASE client.op \in {"append", "transcribe"}
  <2>1. Plain(client) = client
    BY <1>0, <1>1, PlainIs
  <2>2. Placed(client)
    BY <1>0, <2>1
  <2>3. client.session \in Sessions
    BY <1>1, <2>2 DEF Placed
  <2> QED  BY <1>1, <2>2, <2>3, StreamAssumption DEF IdOf
<1>2. CASE client.op \in {"ping", "hello"}
  <2>1. Plain(client).op = "ensure" /\ Plain(client).session = client.session
    BY <1>0, <1>2, PlainIs
  <2>2. client.session \in Sessions
    BY <1>0, <2>1 DEF Placed
  <2> QED  BY <1>2, <2>2 DEF IdOf
<1>3. CASE client.op \notin {"ping", "hello", "append", "transcribe"}
  BY <1>3 DEF IdOf
<1> QED  BY <1>1, <1>2, <1>3

(* The answer to a call is the last of the replies. *)
LEMMA AnswerIsLast ==
    ASSUME PipeInv, client # None, replies # <<>>, Head(replies).id = IdOf(client)
    PROVE  /\ Len(replies) = 1 /\ Head(replies) = replies[Len(replies)] /\ Tail(replies) = <<>>
           /\ requests = <<>> /\ Served
<1>0. replies \in Seq(Answers_)
  BY DEF PipeInv, PipeTypes
<1>1. 1 \in DOMAIN replies /\ Head(replies) = replies[1]
  BY <1>0
<1>2. IdOf(client) # "stale"
  BY CallerIs
<1>3. 1 = Len(replies) /\ requests = <<>>
  BY <1>1, <1>2 DEF PipeInv, Replied
<1>4. Tail(replies) = <<>>
  <2>1. Tail(replies) \in Seq(Answers_) /\ Len(Tail(replies)) = 0
    BY <1>0, <1>1, <1>3
  <2> QED  BY <2>1, EmptySeq
<1>5. Served
  BY <1>1, <1>2 DEF Served
<1> QED  BY <1>1, <1>3, <1>4, <1>5

LEMMA ActsSession ==
    ASSUME SessionInv, PipeInv, Taken, Elsewhere, NEW c \in CallType, Acts(c)
    PROVE  SessionInv'
<1>0. SoundsSame
  BY DEF Elsewhere
<1>1. ASSUME NEW op, NEW body, Sent(c, op, body) PROVE SessionInv'
  BY <1>0, <1>1, SessionKept DEF Sent, Send, SoundsSame
<1>2. CASE Respawned(c)
  BY <1>0, <1>2, PassSession DEF Respawned, Due
<1>3. CASE Dropped(c)
  BY <1>0, <1>3, FailSession DEF Dropped, Due
<1>4. CASE Refused(c)
  BY <1>0, <1>4, FailSession DEF Refused
<1>5. CASE Answered(c)
  <2>1. /\ client # None /\ c = Plain(client) /\ replies # <<>> /\ Head(replies).id = IdOf(client)
        /\ Passes(c, Head(replies).text) /\ Placed(c)
    BY <1>5, ClientIs DEF Answered
  <2>2. c.op = "transcribe" => Head(replies).text \in Seq(Samples)
    <3>1. c.op = "transcribe" => client.op = "transcribe"
      BY <2>1, ClientIs, PlainIs
    <3> QED  BY <2>1, <3>1, CallerIs, AnswerIsLast DEF Taken
  <2> QED  BY <1>0, <2>1, <2>2, PassSession
<1>6. CASE Expired(c)
  <2>1. /\ client # None /\ c = Plain(client) /\ client.op \in {"ping", "unload"}
        /\ Passes(c, None) /\ Placed(c)
    BY <1>6, ClientIs DEF Expired
  <2>2. c.op # "transcribe"
    BY <2>1, ClientIs, PlainIs
  <2> QED  BY <1>0, <2>1, <2>2, PassSession
<1> QED  BY <1>1, <1>2, <1>3, <1>4, <1>5, <1>6 DEF Acts

LEMMA SessionStays ==
    ASSUME SessionInv, PipeInv, Taken, [Next]_vars
    PROVE  SessionInv'
<1>1. ASSUME NEW s \in Sessions, Moves(s) PROVE SessionInv'
  BY <1>1, MovesSession DEF PipeInv, PipeTypes
<1>2. ASSUME Elsewhere, NEW c \in CallType, Acts(c) PROVE SessionInv'
  BY <1>2, ActsSession
<1>3. ASSUME UNCHANGED <<audioVars, streamVars, raced>> PROVE SessionInv'
  BY <1>3, SessionKept
<1>4. ASSUME Elsewhere /\ (Gone \/ Nothing) PROVE SessionInv'
  BY <1>3, <1>4 DEF Gone, Nothing, Elsewhere, SoundsSame
<1>5. ASSUME WarmUp \/ WorkerCrashes \/ WorkerServes \/ WorkerMisreads \/ SkipStale \/ SwitchModel
      PROVE  SessionInv'
  BY <1>3, <1>5 DEF WarmUp, WorkerCrashes, WorkerServes, WorkerMisreads, SkipStale, SwitchModel
<1>6. ASSUME UNCHANGED vars PROVE SessionInv'
  BY <1>3, <1>6 DEF vars
<1> QED  BY <1>1, <1>2, <1>4, <1>5, <1>6, Steps

-----------------------------------------------------------------------------
(* The steps of the worker *)

(* A frame nobody waits for is served, and some of the pipe read with it. *)
Ignored(n) ==
    /\ requests # <<>> /\ n \in 1..Len(requests) /\ Head(requests).id = "stale"
    /\ requests' = SubSeq(requests, n + 1, Len(requests))
    /\ replies' = Append(replies, [id |-> "stale", text |-> None])
    /\ UNCHANGED <<worker, lost>>

(* The frame of the call under way *)
Handles(r) ==
    /\ worker.alive /\ client # None
    /\ requests # <<>> /\ r = Head(requests)
    /\ Outstanding(r) /\ r.op # "shutdown"
    /\ requests' = <<>>
    /\ worker' = Handled(r)
    /\ replies' = Append(replies, Reply(r))
    /\ UNCHANGED lost

Exits ==
    /\ worker.alive /\ requests # <<>>
    /\ requests' = <<>> /\ worker' = Dead /\ lost' = lost \cup Losing

Obeys == Exits /\ client # None /\ client.op = "shutdown" /\ replies' = replies

Chokes ==
    /\ Exits /\ Len(requests) > 1
    /\ replies' = Append(replies, [id |-> "stale", text |-> None])

(* While a frame is on its way there is no answer. *)
LEMMA Unserved ==
    ASSUME PipeInv, client = None \/ requests # <<>>
    PROVE  ~Served
  BY DEF PipeInv, Replied, Served

LEMMA HeadIs ==
    ASSUME PipeInv, requests # <<>>
    PROVE  /\ requests \in Seq(Frames) /\ Len(requests) >= 1
           /\ Head(requests) = requests[1] /\ 1 \in DOMAIN requests
           /\ Head(requests) \in Frames
           /\ \/ Head(requests).id = "stale" /\ Head(requests).op \in {"ping", "unload"}
              \/ /\ Head(requests).id # "stale" /\ Len(requests) = 1
                 /\ Outstanding(Head(requests)) /\ client # None
<1>1. /\ requests \in Seq(Frames) /\ Len(requests) >= 1
      /\ Head(requests) = requests[1] /\ 1 \in DOMAIN requests
      /\ Head(requests) \in Frames
  BY DEF PipeInv, PipeTypes
<1>2. \/ requests[1].id = "stale" /\ requests[1].op \in {"ping", "unload"}
      \/ requests[1].id # "stale" /\ 1 = Len(requests) /\ Outstanding(requests[1])
  BY <1>1 DEF PipeInv, Asked
<1> QED  BY <1>1, <1>2 DEF Outstanding

LEMMA StaleReply ==
    ASSUME NEW r \in Frames, r.id = "stale", r.op \in {"ping", "unload"}
    PROVE  Handled(r) = worker /\ Reply(r) = [id |-> "stale", text |-> None]
<1>1. r.op # "hello" /\ r.op # "append" /\ r.op # "transcribe" /\ r.op # "shutdown"
  OBVIOUS
<1>2. Handled(r) = worker
  BY <1>1, Zenon DEF Handled
<1>3. Reply(r) = [id |-> "stale", text |-> None]
  BY <1>1 DEF Reply
<1> QED  BY <1>2, <1>3

LEMMA ServesCases ==
    ASSUME PipeInv, WorkerServes
    PROVE  (\E n \in Nat : Ignored(n)) \/ Obeys \/ \E r \in Frames : Handles(r)
<1> DEFINE r == Head(requests)
<1>0. /\ worker.alive /\ requests # <<>>
      /\ worker' = Handled(r)
      /\ replies' = IF r.op = "shutdown" THEN replies ELSE Append(replies, Reply(r))
      /\ lost' = IF r.op = "shutdown" THEN lost \cup Losing ELSE lost
  BY DEF WorkerServes
<1>1. PICK n \in 1..Len(requests) :
          requests' = IF r.op = "shutdown" THEN <<>> ELSE SubSeq(requests, n + 1, Len(requests))
  BY DEF WorkerServes
<1>h. r \in Frames /\ Len(requests) \in Nat /\ requests \in Seq(Frames)
  BY <1>0, HeadIs
<1> HIDE DEF r
<1>2. CASE r.id = "stale"
  <2>1. r.op \in {"ping", "unload"}
    BY <1>0, <1>2, HeadIs DEF r
  <2>2. worker' = worker /\ replies' = Append(replies, [id |-> "stale", text |-> None])
        /\ lost' = lost /\ requests' = SubSeq(requests, n + 1, Len(requests))
    BY <1>0, <1>1, <1>h, <1>2, <2>1, StaleReply
  <2>3. n \in Nat
    BY <1>h
  <2> QED  BY <1>0, <1>1, <1>2, <2>2, <2>3 DEF Ignored, r
<1>3. CASE r.id # "stale"
  <2>1. Len(requests) = 1 /\ Outstanding(r) /\ client # None
    BY <1>0, <1>3, HeadIs DEF r
  <2>2. requests' = <<>>
    <3>1. n = 1
      BY <2>1, <1>1
    <3>2. SubSeq(requests, n + 1, Len(requests)) = <<>>
      BY <3>1, <2>1, <1>h
    <3> QED  BY <3>2, <1>1
  <2>3. CASE r.op = "shutdown"
    <3>1. worker' = Dead
      BY <1>0, <2>3, Zenon DEF Handled
    <3> QED  BY <1>0, <2>1, <2>2, <2>3, <3>1 DEF Obeys, Exits, Outstanding
  <2>4. CASE r.op # "shutdown"
    BY <1>0, <1>h, <2>1, <2>2, <2>4 DEF Handles, r
  <2> QED  BY <2>3, <2>4
<1> QED  BY <1>2, <1>3

LEMMA MisreadsCases ==
    ASSUME PipeInv, WorkerMisreads
    PROVE  Chokes
<1>0. /\ worker.alive /\ Len(requests) > 1 /\ requests' = <<>> /\ worker' = Dead
      /\ replies' = Append(replies, Reply(Head(requests)))
      /\ lost' = lost \cup Losing
  BY DEF WorkerMisreads
<1>1. requests # <<>>
  BY <1>0 DEF PipeInv, PipeTypes
<1>2. /\ Head(requests) \in Frames /\ Head(requests).id = "stale"
      /\ Head(requests).op \in {"ping", "unload"}
  <2>0. Len(requests) \in Nat /\ Len(requests) > 1
    BY <1>0 DEF PipeInv, PipeTypes
  <2>1. \A n \in Nat : n > 1 => n # 1
    OBVIOUS
  <2>2. Len(requests) # 1
    BY <2>0, <2>1, Zenon
  <2> QED  BY <1>1, <2>2, HeadIs, Zenon
<1>3. Reply(Head(requests)) = [id |-> "stale", text |-> None]
  BY <1>2, StaleReply
<1> QED  BY <1>0, <1>1, <1>3 DEF Chokes, Exits

-----------------------------------------------------------------------------
(* PipeInv is preserved *)

(* A step of a recording leaves every caller in the place of its call. *)
LEMMA PlacedStays ==
    ASSUME SessionInv, NEW s \in Sessions, Moves(s), NEW c \in CallType, Placed(c)
    PROVE  /\ Placed(c)'
           /\ c.session \in Sessions => target'[c.session] = target[c.session]
<1>0. SessionTypes /\ Control
  BY DEF SessionInv
<1>n. c.session \in Sessions => target[c.session] # None
  BY <1>0, StreamAssumption DEF Control, Placed
<1>c. recording = s => stop[s].at = "none" /\ discard[s] = "none"
  BY <1>0 DEF Control
<1>k. ASSUME UNCHANGED <<forwarder, sent, stop, discard, target>>
      PROVE  Placed(c)' /\ (c.session \in Sessions => target'[c.session] = target[c.session])
  BY <1>k DEF Placed
<1>f. ASSUME UNCHANGED <<sent, stop, discard, target>>, forwarder[s].at \in {"top", "peek"},
             \A r \in Sessions \ {s} : forwarder'[r] = forwarder[r]
      PROVE  Placed(c)' /\ (c.session \in Sessions => target'[c.session] = target[c.session])
  BY <1>f DEF Placed
<1>1. CASE Start(s)
  <2>1. /\ UNCHANGED <<sent, stop, discard>> /\ target[s] = None
        /\ forwarder' = [forwarder EXCEPT ![s].at = "ensure"]
        /\ target' = [target EXCEPT ![s] = setting]
    BY <1>1 DEF Start
  <2>2. c.session # s
    BY <2>1, <1>n
  <2> QED  BY <2>1, <2>2, <1>0 DEF Placed, SessionTypes
<1>2. CASE Capture(s)
  BY <1>2, <1>k DEF Capture, streamVars
<1>3. CASE StopTap(s)
  BY <1>3, <1>k DEF StopTap
<1>4. CASE Stop(s)
  <2>1. /\ UNCHANGED <<forwarder, sent, discard, target>> /\ recording = s
        /\ stop' = [stop EXCEPT ![s].at = "join"]
    BY <1>4 DEF Stop
  <2> QED  BY <2>1, <1>0, <1>c DEF Placed, SessionTypes
<1>5. CASE Cancel(s)
  <2>1. /\ UNCHANGED <<forwarder, sent, stop, target>> /\ recording = s
        /\ discard' = [discard EXCEPT ![s] = "join"]
    BY <1>5 DEF Cancel
  <2> QED  BY <2>1, <1>0, <1>c DEF Placed, SessionTypes
<1>6. CASE Poll(s)
  <2>1. /\ UNCHANGED <<sent, stop, discard, target>> /\ forwarder[s].at = "top"
        /\ \/ forwarder' = [forwarder EXCEPT ![s].at = "peek", ![s].len = Len(buffer)]
           \/ forwarder' = [forwarder EXCEPT ![s] = Forwarding("done")]
    BY <1>6 DEF Poll, audioVars
  <2>2. \A r \in Sessions \ {s} : forwarder'[r] = forwarder[r]
    BY <2>1, <1>0 DEF SessionTypes
  <2> QED  BY <2>1, <2>2, <1>f
<1>7. CASE Peek(s)
  <2>1. UNCHANGED <<sent, stop, discard, target>> /\ forwarder[s].at = "peek"
    BY <1>7 DEF Peek, audioVars
  <2>2. \E chunk : forwarder' = [forwarder EXCEPT ![s].at = "send", ![s].chunk = chunk]
    BY <1>7 DEF Peek
  <2>3. \A r \in Sessions \ {s} : forwarder'[r] = forwarder[r]
    BY <2>2, <1>0 DEF SessionTypes
  <2> QED  BY <2>1, <2>3, <1>f
<1>8. CASE Drain(s)
  <2>1. /\ UNCHANGED <<forwarder, sent, discard, target>> /\ stop[s].at = "join"
        /\ \/ stop' = [stop EXCEPT ![s] = [at |-> "ensure", audio |-> buffer]]
           \/ stop' = [stop EXCEPT ![s].at = "done"]
    BY <1>8 DEF Drain
  <2>2. \A r \in Sessions \ {s} : stop'[r] = stop[r]
    BY <2>1, <1>0 DEF SessionTypes
  <2> QED  BY <2>1, <2>2 DEF Placed
<1>9. CASE Discard(s)
  <2>1. /\ UNCHANGED <<forwarder, sent, stop, target>> /\ discard[s] = "join"
        /\ discard' = [discard EXCEPT ![s] = "want"]
    BY <1>9 DEF Discard, audioVars
  <2> QED  BY <2>1, <1>0 DEF Placed, SessionTypes
<1> QED  BY <1>1, <1>2, <1>3, <1>4, <1>5, <1>6, <1>7, <1>8, <1>9 DEF Moves

LEMMA MovesFrame ==
    ASSUME NEW s \in Sessions, Moves(s)
    PROVE  UNCHANGED <<setting, switching, client, pipeVars, faults>>
  BY DEF Moves, Start, Capture, StopTap, Stop, Cancel, Poll, Peek, Drain, Discard

LEMMA MovesPipe ==
    ASSUME SessionInv, PipeInv, NEW s \in Sessions, Moves(s)
    PROVE  PipeInv'
<1>0. UNCHANGED <<setting, switching, client, link, requests, replies, worker, lost, faults>>
  BY MovesFrame DEF pipeVars
<1>p. PipeTypes /\ Caller /\ Ends /\ Asked /\ Replied
  BY DEF PipeInv
<1>1. PipeTypes'
  BY <1>0, <1>p DEF PipeTypes
<1>2. Caller'
  <2>1. SUFFICES ASSUME client # None
                 PROVE  /\ client \in CallType /\ client.op # "ensure" /\ link.up
                        /\ Placed(Plain(client))'
    BY <1>0 DEF Caller
  <2>2. /\ client \in CallType /\ client.op # "ensure" /\ link.up
        /\ Plain(client) \in CallType /\ Placed(Plain(client))
    BY <2>1, ClientIs
  <2>3. \A c \in CallType : Placed(c) => Placed(c)'
    BY PlacedStays
  <2>4. client' = client
    BY <1>0
  <2>5. Plain(client)' = Plain(client)
    BY <2>4 DEF Plain
  <2>6. PICK c \in CallType : c = Plain(client) /\ Placed(c)'
    BY <2>2, <2>3
  <2> QED  BY <2>2, <2>5, <2>6 DEF Placed
<1>3. Ends'
  BY <1>0, <1>p DEF Ends
<1>4. Asked'
  <2>1. ASSUME client # None, client.op = "hello"
        PROVE  target'[client.session] = target[client.session]
    <3>1. /\ Plain(client) \in CallType /\ Placed(Plain(client)) /\ client.session \in Sessions
          /\ Plain(client).session = client.session
      BY <2>1, ClientIs, CallerIs, PlainIs
    <3> QED  BY <3>1, PlacedStays
  <2>2. ASSUME NEW f, Outstanding(f) PROVE Outstanding(f)'
    BY <1>0, <2>1, <2>2 DEF Outstanding, IdOf
  <2> QED  BY <1>0, <1>p, <2>2 DEF Asked
<1>5. Replied'
  BY <1>0, <1>p DEF Replied, IdOf
<1> QED  BY <1>1, <1>2, <1>3, <1>4, <1>5 DEF PipeInv

(* The streams are empty and nobody waits. *)
LEMMA PipeRests ==
    ASSUME PipeTypes', Ends', client' = None, requests' = <<>>, replies' = <<>>
    PROVE  PipeInv'
  BY DEF PipeInv, Caller, Asked, Replied

LEMMA SettingsTyped ==
    ASSUME PipeInv, setting' = setting, switching' \in {switching, FALSE},
           faults' \in {faults, faults + 1}
    PROVE  setting' \in Models /\ switching' \in BOOLEAN /\ faults' \in Nat
<1>0. setting \in Models /\ switching \in BOOLEAN /\ faults \in Nat
  BY DEF PipeInv, PipeTypes
<1>1. switching' \in BOOLEAN
  BY <1>0, Zenon
<1> QED  BY <1>0, <1>1

LEMMA Gives ==
    ASSUME PipeInv, setting' = setting, switching' \in {switching, FALSE},
           faults' \in {faults, faults + 1}, client' = None
    PROVE  /\ Drop => PipeInv'
           /\ \A m \in Models \cup {None} : Spawn(m) => PipeInv'
<1>0. lost \subseteq Sessions
  BY DEF PipeInv, PipeTypes
<1>s. setting' \in Models /\ switching' \in BOOLEAN /\ faults' \in Nat
  BY SettingsTyped
<1>1. lost \cup Losing \subseteq Sessions /\ NoAudio \in [Sessions -> Seq(Samples)]
  BY <1>0 DEF Losing, NoAudio
<1>2. ASSUME Drop PROVE PipeInv'
  <2>0. /\ link' = [up |-> FALSE, model |-> None] /\ requests' = <<>> /\ replies' = <<>>
        /\ worker' = [alive |-> FALSE, model |-> None, audio |-> NoAudio]
        /\ lost' = lost \cup Losing
    BY <1>2 DEF Drop, Down, Dead
  <2>1. PipeTypes'
    BY <1>0, <1>s, <1>1, <2>0 DEF PipeTypes
  <2>2. Ends'
    BY <2>0 DEF Ends, NoAudio
  <2> QED  BY <2>0, <2>1, <2>2, PipeRests
<1>3. ASSUME NEW m \in Models \cup {None}, Spawn(m) PROVE PipeInv'
  <2>0. /\ link' = [up |-> TRUE, model |-> m] /\ requests' = <<>> /\ replies' = <<>>
        /\ worker' = [alive |-> TRUE, model |-> m, audio |-> NoAudio]
        /\ lost' = lost \cup Losing
    BY <1>3 DEF Spawn
  <2>1. PipeTypes'
    BY <1>0, <1>s, <1>1, <2>0 DEF PipeTypes
  <2>2. Ends'
    BY <2>0 DEF Ends, NoAudio
  <2> QED  BY <2>0, <2>1, <2>2, PipeRests
<1> QED  BY <1>2, <1>3

LEMMA SentPipe ==
    ASSUME SessionInv, PipeInv, Elsewhere, NEW c \in CallType, NEW op, NEW body, Sent(c, op, body)
    PROVE  PipeInv'
<1> DEFINE f == [op |-> op, id |-> IdOf(c), body |-> body]
<1>p. PipeTypes /\ Caller /\ Ends /\ Asked /\ Replied
  BY DEF PipeInv
<1>e. /\ setting' = setting /\ switching' \in {switching, FALSE} /\ faults' \in {faults, faults + 1}
      /\ UNCHANGED <<recording, target, buffer, captured, raced>>
  BY DEF Elsewhere, SoundsSame, audioVars
<1>0. /\ client = None /\ link.up /\ Placed(c)
      /\ \/ op = "ping" /\ c.op = "ensure" /\ body = <<>>
         \/ op = "hello" /\ c.op = "ensure" /\ body = target[c.session]
         \/ op = c.op /\ op # "ensure" /\ body = c.body
      /\ client' = [c EXCEPT !.op = op]
      /\ requests' = IF worker.alive THEN Append(requests, f) ELSE requests
      /\ UNCHANGED <<forwarder, alive, sent, stop, discard, outcome, link, replies, worker, lost>>
  BY DEF Sent, Send, streamVars
<1>s. setting' \in Models /\ switching' \in BOOLEAN /\ faults' \in Nat
  BY <1>e, SettingsTyped
<1>b. op \in {"ping", "hello", "append", "transcribe", "unload", "shutdown"}
  BY <1>0 DEF CallType
<1>c. client' \in CallType /\ client' # None /\ client'.op = op /\ client'.session = c.session
      /\ client'.body = c.body /\ client'.by = c.by
  <2>1. client' \in CallType
    BY <1>0, <1>b DEF CallType
  <2> QED  BY <2>1, <1>0, NoneAssumption DEF CallType
<1>i. /\ IdOf(c) = IdOf(client') /\ IdOf(c) # "stale" /\ IdOf(c) \in Sessions \cup {"fresh"}
      /\ c.op = "ensure" => c.session \in Sessions
  <2>1. c.op \in {"append", "transcribe", "ensure"} => c.session \in Sessions
    BY <1>0 DEF Placed
  <2>2. c.op \in {"append", "transcribe"} <=> op \in {"append", "transcribe"}
    BY <1>0
  <2>3. IdOf(c) = IdOf(client')
    BY <2>2, <1>c DEF IdOf
  <2> QED  BY <2>1, <2>3, StreamAssumption DEF IdOf
<1>f. f \in Frames /\ f.op = op /\ f.id = IdOf(c) /\ f.body = body
  <2>1. c.body \in Seq(Samples) /\ <<>> \in Seq(Samples)
    BY DEF CallType
  <2>2. c.op = "ensure" => target[c.session] \in Models
    <3>1. c.op = "ensure" => target[c.session] # None
      BY <1>0, <1>i DEF SessionInv, Control, Placed
    <3> QED  BY <3>1, <1>i DEF SessionInv, SessionTypes
  <2>3. body \in Seq(Samples) \cup Models
    BY <2>1, <2>2, <1>0
  <2> QED  BY <2>3, <1>b, <1>i DEF Frames
<1>r. \A i \in DOMAIN requests : requests[i].id = "stale" /\ requests[i].op \in {"ping", "unload"}
  BY <1>p, <1>0 DEF Asked, Outstanding
<1>o. /\ client' # None /\ f.op = client'.op /\ f.id = IdOf(client')
      /\ client'.op \in {"append", "transcribe"} => f.body = client'.body
      /\ client'.op = "hello" => f.body = target'[client'.session]
  <2>1. f.op = client'.op /\ f.id = IdOf(client')
    BY <1>c, <1>f, <1>i
  <2>2. op \in {"append", "transcribe"} => f.body = client'.body
    BY <1>0, <1>c, <1>f
  <2>3. op = "hello" => f.body = target'[client'.session]
    BY <1>0, <1>c, <1>e, <1>f DEF Placed
  <2> QED  BY <1>c, <2>1, <2>2, <2>3
<1> HIDE DEF f
<1>t. requests \in Seq(Frames) /\ requests' \in Seq(Frames)
  BY <1>0, <1>p, <1>f DEF PipeTypes
<1>1. PipeTypes'
  BY <1>0, <1>p, <1>s, <1>c, <1>t DEF PipeTypes
<1>2. Caller'
  <2>1. Plain(client') = c
    BY <1>0, <1>c, <1>b DEF Plain, CallType, Placed
  <2>2. Placed(c)'
    BY <1>0, <1>e DEF Placed
  <2> QED  BY <1>0, <1>b, <1>c, <2>1, <2>2 DEF Caller
<1>3. Ends'
  BY <1>0, <1>p DEF Ends
<1>4. Asked'
  <2>1. CASE worker.alive
    <3>1. /\ requests' = Append(requests, f) /\ DOMAIN requests = 1..Len(requests)
          /\ Len(requests) \in Nat /\ DOMAIN requests' = 1..(Len(requests) + 1)
          /\ Len(requests') = Len(requests) + 1
          /\ requests'[Len(requests) + 1] = f
          /\ \A i \in DOMAIN requests : requests'[i] = requests[i]
      BY <2>1, <1>0, <1>t, <1>f
    <3>2. ASSUME NEW i \in DOMAIN requests'
          PROVE  \/ requests'[i].id = "stale" /\ requests'[i].op \in {"ping", "unload"}
                 \/ i = Len(requests') /\ requests'[i] = f
      <4>1. CASE i \in DOMAIN requests
        BY <4>1, <3>1, <1>r
      <4>2. CASE i = Len(requests) + 1
        BY <4>2, <3>1
      <4> QED  BY <4>1, <4>2, <3>1
    <3>3. f.id # "stale"
      BY <1>f, <1>i
    <3> QED  BY <3>2, <3>3, <1>o, Zenon DEF Asked, Outstanding
  <2>2. CASE ~worker.alive
    BY <2>2, <1>0, <1>r DEF Asked
  <2> QED  BY <2>1, <2>2
<1>5. Replied'
  BY <1>0, <1>p DEF Replied
<1> QED  BY <1>1, <1>2, <1>3, <1>4, <1>5 DEF PipeInv

LEMMA StaleIs ==
    ASSUME NEW S, NEW frames \in Seq(S),
           \A f \in S : [f EXCEPT !.id = "stale"] \in S
    PROVE  /\ Stale(frames) \in Seq(S) /\ Len(Stale(frames)) = Len(frames)
           /\ DOMAIN Stale(frames) = DOMAIN frames
           /\ \A i \in DOMAIN frames :
                  Stale(frames)[i] = IF frames[i].id = "fresh" THEN [frames[i] EXCEPT !.id = "stale"]
                                     ELSE frames[i]
<1> DEFINE g(f) == IF f.id = "fresh" THEN [f EXCEPT !.id = "stale"] ELSE f
<1>1. \A i \in 1..Len(frames) : g(frames[i]) \in S
  OBVIOUS
<1>2. Stale(frames) = [i \in 1..Len(frames) |-> g(frames[i])]
  BY DEF Stale
<1>3. DOMAIN frames = 1..Len(frames) /\ Len(frames) \in Nat
  OBVIOUS
<1> HIDE DEF g
<1>4. [i \in 1..Len(frames) |-> g(frames[i])] \in Seq(S)
  BY <1>1, <1>3
<1>5. /\ Stale(frames) \in Seq(S) /\ DOMAIN Stale(frames) = 1..Len(frames)
      /\ \A i \in 1..Len(frames) : Stale(frames)[i] = g(frames[i])
  BY <1>2, <1>4
<1>6. Len(Stale(frames)) = Len(frames)
  BY <1>3, <1>5
<1> QED  BY <1>3, <1>5, <1>6 DEF g

(* What is given up as stale is all that is left of a call with a fresh id. *)
LEMMA AllStale ==
    ASSUME PipeInv, client # None, client.op \in {"ping", "unload"}
    PROVE  /\ Stale(requests) \in Seq(Frames) /\ Stale(replies) \in Seq(Answers_)
           /\ \A i \in DOMAIN Stale(requests) :
                  Stale(requests)[i].id = "stale" /\ Stale(requests)[i].op \in {"ping", "unload"}
           /\ \A i \in DOMAIN Stale(replies) : Stale(replies)[i].id = "stale"
           /\ requests = <<>> => Stale(requests) = <<>>
<1>0. /\ requests \in Seq(Frames) /\ replies \in Seq(Answers_)
      /\ Asked /\ Replied /\ IdOf(client) = "fresh"
  BY DEF PipeInv, PipeTypes, IdOf
<1>1. \A f \in Frames : [f EXCEPT !.id = "stale"] \in Frames /\ [f EXCEPT !.id = "stale"].op = f.op
                        /\ [f EXCEPT !.id = "stale"].id = "stale"
  BY DEF Frames
<1>2. \A f \in Answers_ : [f EXCEPT !.id = "stale"] \in Answers_ /\ [f EXCEPT !.id = "stale"].id = "stale"
  BY DEF Answers_
<1>3. /\ Stale(requests) \in Seq(Frames) /\ Len(Stale(requests)) = Len(requests)
      /\ DOMAIN Stale(requests) = DOMAIN requests
      /\ \A i \in DOMAIN requests :
             Stale(requests)[i] = IF requests[i].id = "fresh" THEN [requests[i] EXCEPT !.id = "stale"]
                                  ELSE requests[i]
  BY <1>0, <1>1, StaleIs
<1>4. /\ Stale(replies) \in Seq(Answers_)
      /\ DOMAIN Stale(replies) = DOMAIN replies
      /\ \A i \in DOMAIN replies :
             Stale(replies)[i] = IF replies[i].id = "fresh" THEN [replies[i] EXCEPT !.id = "stale"]
                                 ELSE replies[i]
  BY <1>0, <1>2, StaleIs
<1>5. ASSUME NEW i \in DOMAIN requests
      PROVE  Stale(requests)[i].id = "stale" /\ Stale(requests)[i].op \in {"ping", "unload"}
  <2>0. requests[i] \in Frames
    BY <1>0
  <2>1. \/ requests[i].id = "stale" /\ requests[i].op \in {"ping", "unload"}
        \/ requests[i].id = "fresh" /\ requests[i].op = client.op
    BY <1>0 DEF Asked, Outstanding
  <2> QED  BY <2>0, <2>1, <1>1, <1>3
<1>6. ASSUME NEW i \in DOMAIN replies PROVE Stale(replies)[i].id = "stale"
  <2>0. replies[i] \in Answers_
    BY <1>0
  <2>1. replies[i].id = "stale" \/ replies[i].id = "fresh"
    BY <1>0 DEF Replied
  <2> QED  BY <2>0, <2>1, <1>2, <1>4
<1>7. requests = <<>> => Stale(requests) = <<>>
  BY <1>3
<1> QED  BY <1>3, <1>4, <1>5, <1>6, <1>7

(* Nobody waits, and all that is left is stale. *)
LEMMA PipeIdle ==
    ASSUME PipeTypes', Ends', client' = None,
           \A i \in DOMAIN requests' :
               requests'[i].id = "stale" /\ requests'[i].op \in {"ping", "unload"},
           \A i \in DOMAIN replies' : replies'[i].id = "stale"
    PROVE  PipeInv'
  BY DEF PipeInv, Caller, Asked, Replied

LEMMA AnsweredPipe ==
    ASSUME SessionInv, PipeInv, Elsewhere, NEW c \in CallType, Answered(c)
    PROVE  PipeInv'
<1>0. /\ client # None /\ replies # <<>> /\ Head(replies).id = IdOf(client)
      /\ replies' = Tail(replies) /\ client' = None
      /\ link' = IF client.op = "hello" THEN [link EXCEPT !.model = target[client.session]] ELSE link
      /\ UNCHANGED <<requests, worker, lost>>
  BY DEF Answered
<1>p. PipeTypes /\ Ends /\ link.up
  BY <1>0, ClientIs DEF PipeInv
<1>1. requests' = <<>> /\ replies' = <<>>
  BY <1>0, AnswerIsLast
<1>2. link' \in [up : BOOLEAN, model : Models \cup {None}] /\ link'.up = link.up
  <2>1. client.op = "hello" => target[client.session] \in Models \cup {None}
    BY <1>0, CallerIs DEF SessionInv, SessionTypes
  <2> QED  BY <2>1, <1>0, <1>p DEF PipeTypes
<1>s. setting' \in Models /\ switching' \in BOOLEAN /\ faults' \in Nat
  BY SettingsTyped DEF Elsewhere
<1>3. PipeTypes'
  BY <1>0, <1>p, <1>1, <1>2, <1>s DEF PipeTypes
<1>4. Ends'
  BY <1>0, <1>p, <1>1, <1>2 DEF Ends
<1> QED  BY <1>0, <1>1, <1>3, <1>4, PipeRests

LEMMA ExpiredPipe ==
    ASSUME PipeInv, Elsewhere, NEW c \in CallType, Expired(c)
    PROVE  PipeInv'
<1>0. /\ client # None /\ client.op \in {"ping", "unload"}
      /\ requests' = Stale(requests) /\ replies' = Stale(replies) /\ client' = None
      /\ UNCHANGED <<link, worker, lost>>
  BY DEF Expired
<1>p. PipeTypes /\ Ends /\ link.up
  BY <1>0, ClientIs DEF PipeInv
<1>1. /\ requests' \in Seq(Frames) /\ replies' \in Seq(Answers_)
      /\ \A i \in DOMAIN requests' :
             requests'[i].id = "stale" /\ requests'[i].op \in {"ping", "unload"}
      /\ \A i \in DOMAIN replies' : replies'[i].id = "stale"
      /\ requests = <<>> => requests' = <<>>
  BY <1>0, AllStale
<1>s. setting' \in Models /\ switching' \in BOOLEAN /\ faults' \in Nat
  BY SettingsTyped DEF Elsewhere
<1>2. PipeTypes'
  BY <1>0, <1>p, <1>1, <1>s DEF PipeTypes
<1>3. Ends'
  BY <1>0, <1>p, <1>1 DEF Ends
<1> QED  BY <1>0, <1>1, <1>2, <1>3, PipeIdle

LEMMA IdlePipe ==
    ASSUME PipeInv, setting' \in Models, switching' \in BOOLEAN, faults' \in Nat,
           client' = client, UNCHANGED pipeVars, target' = target,
           client # None => Placed(Plain(client))'
    PROVE  PipeInv'
<1>0. UNCHANGED <<link, requests, replies, worker, lost>>
  BY DEF pipeVars
<1>p. PipeTypes /\ Caller /\ Ends /\ Asked /\ Replied
  BY DEF PipeInv
<1>1. PipeTypes'
  BY <1>0, <1>p DEF PipeTypes
<1>2. Caller'
  BY <1>0, <1>p DEF Caller
<1>3. Ends'
  BY <1>0, <1>p DEF Ends
<1>4. Asked'
  BY <1>0, <1>p DEF Asked, Outstanding, IdOf
<1>5. Replied'
  BY <1>0, <1>p DEF Replied, IdOf
<1> QED  BY <1>1, <1>2, <1>3, <1>4, <1>5 DEF PipeInv

LEMMA GonePipe ==
    ASSUME PipeInv, Elsewhere, Gone
    PROVE  PipeInv'
<1>0. /\ client' = None /\ ~worker.alive /\ replies = <<>>
      /\ UNCHANGED <<link, requests, replies, worker, lost>>
  BY DEF Gone, pipeVars
<1>p. PipeTypes /\ Ends /\ requests = <<>>
  BY <1>0 DEF PipeInv, Ends
<1>s. setting' \in Models /\ switching' \in BOOLEAN /\ faults' \in Nat
  BY SettingsTyped DEF Elsewhere
<1>1. PipeTypes'
  BY <1>0, <1>p, <1>s DEF PipeTypes
<1>2. Ends'
  BY <1>0, <1>p DEF Ends
<1> QED  BY <1>0, <1>p, <1>1, <1>2, PipeRests

LEMMA ActsPipe ==
    ASSUME SessionInv, PipeInv, Elsewhere, NEW c \in CallType, Acts(c)
    PROVE  PipeInv'
<1>e. /\ setting' = setting /\ switching' \in {switching, FALSE} /\ faults' \in {faults, faults + 1}
      /\ target' = target
  BY DEF Elsewhere, SoundsSame, audioVars
<1>2. CASE Respawned(c)
  <2>1. c.session \in Sessions /\ Spawn(target[c.session]) /\ client' = None
    BY <1>2 DEF Respawned, Due, Placed
  <2>2. target[c.session] \in Models \cup {None}
    BY <2>1 DEF SessionInv, SessionTypes
  <2> QED  BY <1>e, <2>1, <2>2, Gives
<1>3. CASE Dropped(c)
  BY <1>3, <1>e, Gives DEF Dropped
<1>4. CASE Refused(c)
  <2>1. client = None /\ client' = None /\ UNCHANGED pipeVars
    BY <1>4 DEF Refused
  <2>2. setting' \in Models /\ switching' \in BOOLEAN /\ faults' \in Nat
    BY <1>e, SettingsTyped
  <2> QED  BY <1>e, <2>1, <2>2, IdlePipe
<1> QED  BY <1>2, <1>3, <1>4, SentPipe, AnsweredPipe, ExpiredPipe DEF Acts

LEMMA NothingPipe ==
    ASSUME PipeInv, Elsewhere, Nothing
    PROVE  PipeInv'
<1>1. /\ setting' \in Models /\ switching' \in BOOLEAN /\ faults' \in Nat
  BY SettingsTyped DEF Elsewhere
<1>2. /\ client' = client /\ UNCHANGED pipeVars /\ target' = target
      /\ UNCHANGED <<forwarder, sent, stop, discard>>
  BY DEF Elsewhere, SoundsSame, audioVars, Nothing, streamVars
<1>3. client # None => Placed(Plain(client))'
  BY <1>2, ClientIs DEF Placed, Plain
<1> QED  BY <1>1, <1>2, <1>3, IdlePipe

LEMMA SwitchPipe ==
    ASSUME PipeInv, SwitchModel
    PROVE  PipeInv'
<1>1. /\ setting' \in Models /\ switching' \in BOOLEAN /\ faults' \in Nat
  BY DEF SwitchModel, Fault, PipeInv, PipeTypes
<1>2. /\ client' = client /\ UNCHANGED pipeVars /\ target' = target
      /\ UNCHANGED <<forwarder, sent, stop, discard>>
  BY DEF SwitchModel, audioVars, streamVars
<1>3. client # None => Placed(Plain(client))'
  BY <1>2, ClientIs DEF Placed, Plain
<1> QED  BY <1>1, <1>2, <1>3, IdlePipe

(* What the steps of the worker, and of a client that skips a reply, leave *)
(* alone                                                                   *)
PipeOnly ==
    /\ UNCHANGED <<setting, switching, client, link>>
    /\ UNCHANGED <<audioVars, streamVars, raced>>

LEMMA CallerStays ==
    ASSUME PipeInv, PipeOnly
    PROVE  /\ Caller' /\ setting' \in Models /\ switching' \in BOOLEAN
           /\ client' \in CallType \cup {None}
           /\ link' \in [up : BOOLEAN, model : Models \cup {None}]
           /\ \A f : Outstanding(f) => Outstanding(f)'
<1>1. UNCHANGED <<setting, switching, client, link, target, forwarder, sent, stop, discard>>
  BY DEF PipeOnly, audioVars, streamVars
<1>2. Caller'
  <2>1. client # None => Placed(Plain(client))'
    BY <1>1, ClientIs DEF Placed, Plain
  <2> QED  BY <1>1, <2>1 DEF Caller, PipeInv
<1>3. \A f : Outstanding(f) => Outstanding(f)'
  BY <1>1 DEF Outstanding, IdOf
<1> QED  BY <1>1, <1>2, <1>3 DEF PipeInv, PipeTypes

LEMMA SkipPipe ==
    ASSUME PipeInv, SkipStale
    PROVE  /\ PipeInv' /\ Len(replies) > 0 /\ Len(replies') = Len(replies) - 1
           /\ \A i \in DOMAIN replies' : replies'[i] = replies[i + 1]
           /\ replies[1].id = "stale" /\ (Served' <=> Served)
<1>0. /\ client # None /\ replies # <<>> /\ Head(replies).id # IdOf(client)
      /\ replies' = Tail(replies) /\ UNCHANGED <<requests, worker, lost, faults>>
  BY DEF SkipStale, Answers
<1>o. PipeOnly
  BY DEF SkipStale, PipeOnly
<1>p. PipeTypes /\ Ends /\ Asked /\ Replied
  BY DEF PipeInv
<1>r. /\ replies \in Seq(Answers_) /\ Len(replies) \in Nat /\ Len(replies) > 0
      /\ Head(replies) = replies[1]
      /\ DOMAIN replies = 1..Len(replies)
      /\ replies' \in Seq(Answers_) /\ Len(replies') = Len(replies) - 1
      /\ DOMAIN replies' = 1..(Len(replies) - 1)
      /\ \A i \in 1..(Len(replies) - 1) : replies'[i] = replies[i + 1]
  BY <1>0, <1>p DEF PipeTypes
<1>1. PipeTypes'
  BY <1>0, <1>o, <1>p, <1>r, CallerStays DEF PipeTypes
<1>2. Ends'
  BY <1>0, <1>o, <1>p DEF Ends, PipeOnly
<1>3. Asked'
  BY <1>0, <1>o, <1>p, CallerStays DEF Asked
<1>4. Replied'
  <2>1. UNCHANGED <<client, requests>>
    BY <1>0, <1>o DEF PipeOnly
  <2>2. ASSUME NEW i \in DOMAIN replies', replies'[i].id # "stale"
        PROVE  /\ i = Len(replies') /\ requests = <<>> /\ client # None
               /\ replies'[i].id = IdOf(client)
    <3>1. i + 1 \in DOMAIN replies /\ replies'[i] = replies[i + 1]
      BY <1>r
    <3>2. /\ i + 1 = Len(replies) /\ requests = <<>> /\ client # None
          /\ replies'[i].id = IdOf(client)
      BY <3>1, <2>2, <1>p DEF Replied
    <3> QED  BY <3>2, <1>r
  <2> QED  BY <2>1, <2>2 DEF Replied, IdOf
<1>5. PipeInv'
  BY <1>1, <1>2, <1>3, <1>4, <1>o, CallerStays DEF PipeInv
<1>6. replies[1].id = "stale"
  <2>1. 1 \in DOMAIN replies
    BY <1>r
  <2> QED  BY <2>1, <1>0, <1>r, <1>p DEF Replied
<1>7. Served' <=> Served
  <2>1. ASSUME NEW i \in DOMAIN replies', replies'[i].id # "stale" PROVE Served
    <3>1. i + 1 \in DOMAIN replies /\ replies'[i] = replies[i + 1]
      BY <1>r
    <3> QED  BY <3>1, <2>1 DEF Served
  <2>2. ASSUME NEW i \in DOMAIN replies, replies[i].id # "stale" PROVE Served'
    <3>1. i # 1
      BY <2>2, <1>6
    <3>2. i - 1 \in DOMAIN replies' /\ replies'[i - 1] = replies[i]
      BY <3>1, <1>r
    <3> QED  BY <3>2, <2>2 DEF Served
  <2> QED  BY <2>1, <2>2 DEF Served
<1> QED  BY <1>5, <1>6, <1>7, <1>r

LEMMA WorkerSteps ==
    ASSUME WorkerServes \/ WorkerMisreads
    PROVE  PipeOnly /\ faults' = faults
  BY DEF WorkerServes, WorkerMisreads, PipeOnly

(* One reply more, to nobody or, when no frame is left, to the call under way *)
LEMMA RepliedMore ==
    ASSUME PipeInv, requests # <<>>, PipeOnly, NEW r \in Answers_, replies' = Append(replies, r),
           r.id = "stale" \/ (requests' = <<>> /\ client # None /\ r.id = IdOf(client))
    PROVE  /\ replies' \in Seq(Answers_) /\ Replied' /\ ~Served
           /\ Served' <=> r.id # "stale"
           /\ Len(replies') >= 1 /\ replies'[Len(replies')] = r
<1>0. replies \in Seq(Answers_) /\ ~Served
  BY Unserved DEF PipeInv, PipeTypes
<1>1. /\ replies' \in Seq(Answers_) /\ DOMAIN replies = 1..Len(replies) /\ Len(replies) \in Nat
      /\ DOMAIN replies' = 1..(Len(replies) + 1) /\ Len(replies') = Len(replies) + 1
      /\ replies'[Len(replies) + 1] = r
      /\ \A i \in DOMAIN replies : replies'[i] = replies[i]
  BY <1>0
<1>2. ASSUME NEW i \in DOMAIN replies' PROVE replies'[i].id = "stale" \/ i = Len(replies')
  <2>1. CASE i \in DOMAIN replies
    BY <2>1, <1>0, <1>1 DEF Served
  <2>2. CASE i = Len(replies) + 1
    BY <2>2, <1>1
  <2> QED  BY <2>1, <2>2, <1>1
<1>3. Len(replies') >= 1 /\ replies'[Len(replies')] = r /\ Len(replies') \in DOMAIN replies'
  BY <1>1
<1>4. client' = client
  BY DEF PipeOnly
<1>5. Replied'
  BY <1>2, <1>3, <1>4 DEF Replied, IdOf
<1>6. Served' <=> r.id # "stale"
  BY <1>2, <1>3 DEF Served
<1> QED  BY <1>0, <1>1, <1>3, <1>5, <1>6

LEMMA IgnoredPipe ==
    ASSUME PipeInv, PipeOnly, faults' = faults, NEW n \in Nat, Ignored(n)
    PROVE  PipeInv' /\ ~Served /\ ~Served'
<1>0. /\ requests # <<>> /\ n \in 1..Len(requests)
      /\ requests' = SubSeq(requests, n + 1, Len(requests))
      /\ replies' = Append(replies, [id |-> "stale", text |-> None])
      /\ UNCHANGED <<worker, lost>>
  BY DEF Ignored
<1>p. PipeTypes /\ Ends /\ Asked /\ link.up' = link.up
  BY DEF PipeInv, PipeOnly
<1>1. [id |-> "stale", text |-> None] \in Answers_
  BY DEF Answers_
<1>2. replies' \in Seq(Answers_) /\ Replied' /\ ~Served /\ ~Served'
  BY <1>0, <1>1, RepliedMore
<1>3. /\ requests \in Seq(Frames) /\ Len(requests) \in Nat /\ DOMAIN requests = 1..Len(requests)
      /\ requests' \in Seq(Frames) /\ Len(requests') = Len(requests) - n
      /\ DOMAIN requests' = 1..(Len(requests) - n)
      /\ \A i \in 1..(Len(requests) - n) : requests'[i] = requests[n + i]
  BY <1>0, <1>p DEF PipeTypes
<1>4. PipeTypes'
  BY <1>0, <1>p, <1>2, <1>3, CallerStays DEF PipeTypes
<1>5. worker.alive
  BY <1>0, <1>p DEF Ends
<1>6. link.up
  BY <1>5, <1>p DEF Ends
<1>7. Ends'
  BY <1>0, <1>5, <1>6, <1>p DEF Ends
<1>8. Asked'
  <2>1. ASSUME NEW i \in DOMAIN requests'
        PROVE  IF requests'[i].id = "stale" THEN requests'[i].op \in {"ping", "unload"}
               ELSE i = Len(requests') /\ Outstanding(requests[n + i])
    <3>0. i \in 1..(Len(requests) - n) /\ requests'[i] = requests[n + i]
      BY <1>3, Zenon
    <3>1. n + i \in DOMAIN requests /\ requests'[i] = requests[n + i]
      <4>1. n + i \in 1..Len(requests)
        BY <3>0, <1>3
      <4> QED  BY <4>1, <3>0, <1>3, Zenon
    <3>2. IF requests'[i].id = "stale" THEN requests'[i].op \in {"ping", "unload"}
          ELSE n + i = Len(requests) /\ Outstanding(requests[n + i])
      BY <3>1, <1>p DEF Asked
    <3>3. n + i = Len(requests) => i = Len(requests')
      <4>1. Len(requests) \in Nat /\ Len(requests') = Len(requests) - n /\ n \in Nat /\ i \in Nat
        BY <3>0, <1>3
      <4> QED  BY <4>1
    <3> QED  BY <3>2, <3>3
  <2>2. \A f : Outstanding(f) => Outstanding(f)'
    BY CallerStays
  <2>3. ASSUME NEW i \in DOMAIN requests', requests'[i].id # "stale"
        PROVE  i = Len(requests') /\ Outstanding(requests[i])'
    <3>1. i = Len(requests') /\ Outstanding(requests[n + i]) /\ requests'[i] = requests[n + i]
      BY <2>1, <2>3, <1>3
    <3>2. PICK f : f = requests[n + i] /\ Outstanding(f)
      BY <3>1
    <3>3. Outstanding(f)' /\ requests'[i] = f
      BY <2>2, <3>1, <3>2
    <3> QED  BY <3>1, <3>3 DEF Outstanding
  <2> QED  BY <2>1, <2>3 DEF Asked
<1> QED  BY <1>2, <1>4, <1>7, <1>8, CallerStays DEF PipeInv

(* The worker and what was on its way to it are gone. *)
LEMMA CrashPipe ==
    ASSUME PipeInv, PipeOnly, faults' \in Nat, worker' = Dead, requests' = <<>>,
           lost' = lost \cup Losing, worker.alive,
           replies' \in Seq(Answers_), Replied'
    PROVE  PipeInv'
<1>p. PipeTypes /\ Ends /\ link.up /\ link.up' = link.up
  BY DEF PipeInv, PipeOnly, Ends
<1>1. NoAudio \in [Sessions -> Seq(Samples)] /\ Losing \subseteq Sessions
  BY DEF NoAudio, Losing
<1>2. /\ worker' = [alive |-> FALSE, model |-> None, audio |-> NoAudio]
      /\ worker' \in [alive : BOOLEAN, model : Models \cup {None}, audio : [Sessions -> Seq(Samples)]]
  BY <1>1 DEF Dead
<1>3. PipeTypes'
  BY <1>p, <1>1, <1>2, CallerStays DEF PipeTypes
<1>4. Ends'
  BY <1>p, <1>2 DEF Ends, NoAudio
<1>5. Asked'
  BY DEF Asked
<1> QED  BY <1>3, <1>4, <1>5, CallerStays DEF PipeInv

LEMMA ObeysPipe ==
    ASSUME PipeInv, PipeOnly, faults' = faults, Obeys
    PROVE  PipeInv' /\ ~Served /\ ~Served'
<1>0. /\ worker.alive /\ requests # <<>> /\ requests' = <<>> /\ worker' = Dead
      /\ lost' = lost \cup Losing /\ replies' = replies
  BY DEF Obeys, Exits
<1>1. ~Served /\ ~Served'
  BY <1>0, Unserved DEF Served
<1>2. replies' \in Seq(Answers_) /\ faults' \in Nat
  BY <1>0 DEF PipeInv, PipeTypes
<1>3. Replied'
  BY <1>1 DEF Replied, Served
<1> QED  BY <1>0, <1>1, <1>2, <1>3, CrashPipe

LEMMA ChokesPipe ==
    ASSUME PipeInv, PipeOnly, faults' = faults, Chokes
    PROVE  PipeInv' /\ ~Served /\ ~Served'
<1>0. /\ worker.alive /\ requests # <<>> /\ requests' = <<>> /\ worker' = Dead
      /\ lost' = lost \cup Losing
      /\ replies' = Append(replies, [id |-> "stale", text |-> None])
  BY DEF Chokes, Exits
<1>1. [id |-> "stale", text |-> None] \in Answers_
  BY DEF Answers_
<1>2. replies' \in Seq(Answers_) /\ Replied' /\ ~Served /\ ~Served' /\ faults' \in Nat
  BY <1>0, <1>1, RepliedMore DEF PipeInv, PipeTypes
<1> QED  BY <1>0, <1>2, CrashPipe

LEMMA WorkerCrashesPipe ==
    ASSUME PipeInv, WorkerCrashes
    PROVE  PipeInv' /\ (Served' <=> Served) /\ PipeOnly /\ replies' = replies
<1>0. /\ worker.alive /\ requests' = <<>> /\ worker' = Dead
      /\ lost' = lost \cup Losing /\ replies' = replies
  BY DEF WorkerCrashes
<1>1. PipeOnly
  BY DEF WorkerCrashes, PipeOnly
<1>2. replies' \in Seq(Answers_) /\ faults' \in Nat
  BY <1>0 DEF PipeInv, PipeTypes, WorkerCrashes, Fault
<1>3. Replied' /\ (Served' <=> Served)
  BY <1>0, <1>1 DEF PipeInv, Replied, Served, IdOf, PipeOnly
<1> QED  BY <1>0, <1>1, <1>2, <1>3, CrashPipe

(* What the worker does with the frame of the call under way *)
LEMMA HandlesIs ==
    ASSUME SessionInv, PipeInv, NEW r \in Frames, Handles(r)
    PROVE  LET s == client.session
           IN  /\ client \in CallType /\ r.id = IdOf(client)
               /\ \/ /\ client.op = "append" /\ s \in Sessions /\ Placed(client)
                     /\ client.body \in Seq(Samples)
                     /\ worker' = [worker EXCEPT !.audio[s] = @ \o client.body]
                     /\ replies' = Append(replies, [id |-> r.id, text |-> None])
                  \/ /\ client.op = "transcribe" /\ s \in Sessions /\ Placed(client)
                     /\ worker' = [worker EXCEPT !.audio[s] = <<>>]
                     /\ replies' = Append(replies, [id |-> r.id, text |-> worker.audio[s]])
                  \/ /\ client.op = "hello" /\ s \in Sessions
                     /\ worker' = [worker EXCEPT !.model = target[s]]
                     /\ replies' = Append(replies, [id |-> r.id, text |-> None])
                  \/ /\ client.op \in {"ping", "unload"}
                     /\ worker' = worker
                     /\ replies' = Append(replies, [id |-> r.id, text |-> None])
<1> DEFINE s == client.session
<1>0. /\ client # None /\ r.op = client.op /\ r.op # "shutdown" /\ r.id = IdOf(client)
      /\ client.op \in {"append", "transcribe"} => r.body = client.body
      /\ client.op = "hello" => r.body = target[client.session]
      /\ worker' = Handled(r)
      /\ replies' = Append(replies, Reply(r))
  BY DEF Handles, Outstanding
<1>1. client \in CallType /\ client.op # "ensure" /\ client.body \in Seq(Samples)
  BY <1>0, ClientIs DEF CallType
<1>2. /\ client.op \in {"append", "transcribe"} => s \in Sessions /\ Placed(client) /\ r.id = s
      /\ client.op = "hello" => s \in Sessions
  BY <1>0, CallerIs DEF IdOf
<1>3. r.op # "transcribe" => Reply(r) = [id |-> r.id, text |-> None]
  BY DEF Reply
<1>4. CASE client.op = "append"
  <2>1. Handled(r) = [worker EXCEPT !.audio[r.id] = @ \o r.body]
    BY <1>0, <1>4, Zenon DEF Handled
  <2> QED  BY <1>0, <1>1, <1>2, <1>3, <1>4, <2>1
<1>5. CASE client.op = "transcribe"
  <2>1. Handled(r) = [worker EXCEPT !.audio[r.id] = <<>>]
    BY <1>0, <1>5, Zenon DEF Handled
  <2>2. Reply(r) = [id |-> r.id, text |-> worker.audio[r.id]]
    BY <1>0, <1>5 DEF Reply
  <2> QED  BY <1>0, <1>1, <1>2, <1>5, <2>1, <2>2
<1>6. CASE client.op = "hello"
  <2>1. Handled(r) = [worker EXCEPT !.model = r.body]
    BY <1>0, <1>6, Zenon DEF Handled
  <2> QED  BY <1>0, <1>1, <1>2, <1>3, <1>6, <2>1
<1>7. CASE client.op \in {"ping", "unload"}
  <2>0. r.op # "hello" /\ r.op # "append" /\ r.op # "transcribe" /\ r.op # "shutdown"
    BY <1>0, <1>7
  <2>1. Handled(r) = worker
    BY <2>0, Zenon DEF Handled
  <2> QED  BY <1>0, <1>1, <1>3, <1>7, <2>0, <2>1
<1> QED  BY <1>0, <1>1, <1>4, <1>5, <1>6, <1>7 DEF CallType

(* A worker with the audio of a session changed *)
LEMMA AudioTyped ==
    ASSUME NEW s \in Sessions, NEW a \in Seq(Samples),
           worker \in [alive : BOOLEAN, model : Models \cup {None},
                       audio : [Sessions -> Seq(Samples)]],
           worker' = [worker EXCEPT !.audio[s] = a]
    PROVE  /\ worker' \in [alive : BOOLEAN, model : Models \cup {None},
                           audio : [Sessions -> Seq(Samples)]]
           /\ worker'.alive = worker.alive /\ worker'.audio[s] = a
           /\ \A r \in Sessions \ {s} : worker'.audio[r] = worker.audio[r]
<1>1. worker.audio \in [Sessions -> Seq(Samples)]
  OBVIOUS
<1>2. [worker.audio EXCEPT ![s] = a] \in [Sessions -> Seq(Samples)]
  BY <1>1
<1>3. /\ [worker.audio EXCEPT ![s] = a][s] = a
      /\ \A r \in Sessions \ {s} : [worker.audio EXCEPT ![s] = a][r] = worker.audio[r]
  BY <1>1
<1> QED  BY <1>2, <1>3

LEMMA HandlesPipe ==
    ASSUME SessionInv, PipeInv, PipeOnly, faults' = faults, NEW r \in Frames, Handles(r)
    PROVE  /\ PipeInv' /\ ~Served /\ Served' /\ Len(replies') >= 1 /\ worker'.alive
           /\ \A i \in DOMAIN replies' :
                  replies'[i].id = "stale" => i \in DOMAIN replies /\ replies[i].id = "stale"
           /\ \A s \in Sessions :
                  IF s = client.session /\ client.op \in {"append", "transcribe"}
                  THEN worker'.audio[s] = IF client.op = "append" THEN worker.audio[s] \o client.body
                                          ELSE <<>>
                  ELSE worker'.audio[s] = worker.audio[s]
           /\ client.op = "transcribe" =>
                  replies'[Len(replies')].text = worker.audio[client.session]
<1> DEFINE s == client.session
           W == [alive : BOOLEAN, model : Models \cup {None}, audio : [Sessions -> Seq(Samples)]]
           A == \A t \in Sessions :
                    IF t = s /\ client.op \in {"append", "transcribe"}
                    THEN worker'.audio[t] = IF client.op = "append" THEN worker.audio[t] \o client.body
                                            ELSE <<>>
                    ELSE worker'.audio[t] = worker.audio[t]
<1>0. /\ worker.alive /\ requests # <<>> /\ requests' = <<>> /\ lost' = lost
      /\ client # None
  BY DEF Handles
<1>p. PipeTypes /\ Ends /\ Asked /\ link.up' = link.up /\ worker \in W
  BY DEF PipeInv, PipeOnly, PipeTypes
<1>w. worker' \in W /\ worker'.alive /\ A
  <2>1. CASE /\ client.op = "append" /\ s \in Sessions /\ client.body \in Seq(Samples)
             /\ worker' = [worker EXCEPT !.audio[s] = worker.audio[s] \o client.body]
    <3>1. worker.audio[s] \o client.body \in Seq(Samples)
      BY <2>1, <1>p
    <3>2. /\ worker' \in W /\ worker'.alive = worker.alive
          /\ worker'.audio[s] = worker.audio[s] \o client.body
          /\ \A t \in Sessions \ {s} : worker'.audio[t] = worker.audio[t]
      BY <2>1, <3>1, <1>p, AudioTyped
    <3> QED  BY <2>1, <3>2, <1>0
  <2>2. CASE client.op = "transcribe" /\ s \in Sessions /\ worker' = [worker EXCEPT !.audio[s] = <<>>]
    <3>1. <<>> \in Seq(Samples)
      OBVIOUS
    <3>2. /\ worker' \in W /\ worker'.alive = worker.alive
          /\ worker'.audio[s] = <<>>
          /\ \A t \in Sessions \ {s} : worker'.audio[t] = worker.audio[t]
      BY <2>2, <3>1, <1>p, AudioTyped
    <3> QED  BY <2>2, <3>2, <1>0
  <2>3. CASE client.op = "hello" /\ s \in Sessions /\ worker' = [worker EXCEPT !.model = target[s]]
    <3>1. target[s] \in Models \cup {None}
      BY <2>3 DEF SessionInv, SessionTypes
    <3> QED  BY <2>3, <3>1, <1>0, <1>p
  <2>4. CASE client.op \in {"ping", "unload"} /\ worker' = worker
    BY <2>4, <1>0, <1>p
  <2> QED  BY <2>1, <2>2, <2>3, <2>4, HandlesIs
<1>r. PICK a \in Answers_ : /\ replies' = Append(replies, a) /\ a.id = IdOf(client)
                            /\ client.op = "transcribe" => a.text = worker.audio[s]
  <2>1. IdOf(client) \in Sessions \cup {"fresh"}
    BY <1>0, CallerIs
  <2>2. s \in Sessions => worker.audio[s] \in Seq(Samples)
    BY <1>p
  <2>3. [id |-> IdOf(client), text |-> None] \in Answers_
    BY <2>1 DEF Answers_
  <2>4. s \in Sessions => [id |-> IdOf(client), text |-> worker.audio[s]] \in Answers_
    BY <2>1, <2>2 DEF Answers_
  <2> QED  BY <2>3, <2>4, HandlesIs
<1>m. a.id # "stale"
  BY <1>0, <1>r, CallerIs
<1>1. /\ replies' \in Seq(Answers_) /\ Replied' /\ ~Served /\ Served'
      /\ Len(replies') >= 1 /\ replies'[Len(replies')] = a
  BY <1>0, <1>r, <1>m, RepliedMore
<1>2. PipeTypes'
  BY <1>0, <1>p, <1>w, <1>1, CallerStays DEF PipeTypes
<1>3. Ends'
  BY <1>0, <1>p, <1>w DEF Ends
<1>4. Asked'
  BY <1>0 DEF Asked
<1>5. PipeInv'
  BY <1>1, <1>2, <1>3, <1>4, CallerStays DEF PipeInv
<1>6. ASSUME NEW i \in DOMAIN replies', replies'[i].id = "stale"
      PROVE  i \in DOMAIN replies /\ replies[i].id = "stale"
  <2>1. replies \in Seq(Answers_)
    BY <1>p DEF PipeTypes
  <2>2. /\ DOMAIN replies' = 1..(Len(replies) + 1) /\ DOMAIN replies = 1..Len(replies)
        /\ Len(replies) \in Nat /\ replies'[Len(replies) + 1] = a
        /\ \A j \in DOMAIN replies : replies'[j] = replies[j]
    BY <2>1, <1>r
  <2>3. i # Len(replies) + 1
    BY <2>2, <1>m, <1>6
  <2> QED  BY <2>2, <2>3, <1>6
<1> HIDE DEF W, A
<1>7. worker'.alive /\ A
  BY <1>w
<1>8. client.op = "transcribe" => replies'[Len(replies')].text = worker.audio[s]
  BY <1>1, <1>r
<1> QED  BY <1>1, <1>5, <1>6, <1>7, <1>8 DEF A

LEMMA PipeStays ==
    ASSUME SessionInv, PipeInv, [Next]_vars
    PROVE  PipeInv'
<1>1. ASSUME NEW s \in Sessions, Moves(s) PROVE PipeInv'
  BY <1>1, MovesPipe
<1>2. ASSUME Elsewhere, NEW c \in CallType, Acts(c) PROVE PipeInv'
  BY <1>2, ActsPipe
<1>3. ASSUME Elsewhere /\ (Gone \/ Nothing) PROVE PipeInv'
  BY <1>3, GonePipe, NothingPipe
<1>4. CASE WarmUp
  BY <1>4, WarmUpIs, Gives
<1>5. CASE WorkerServes
  BY <1>5, WorkerSteps, ServesCases, IgnoredPipe, ObeysPipe, HandlesPipe
<1>6. CASE WorkerMisreads
  BY <1>6, WorkerSteps, MisreadsCases, ChokesPipe
<1>7. CASE WorkerCrashes \/ SkipStale \/ SwitchModel
  BY <1>7, WorkerCrashesPipe, SkipPipe, SwitchPipe
<1>8. CASE UNCHANGED vars
  <2>1. Elsewhere /\ Nothing
    BY <1>8 DEF vars, Elsewhere, Nothing, SoundsSame
  <2> QED  BY <2>1, NothingPipe
<1> QED  BY <1>1, <1>2, <1>3, <1>4, <1>5, <1>6, <1>7, <1>8, Steps

-----------------------------------------------------------------------------
(* How much of a recording the worker has *)

(* ... when it has answered nothing *)
Acknowledged(s) == IF stop[s].at = "transcribe" THEN captured[s] ELSE sent[s]

Answering(s) == Served /\ client.session = s /\ client.op \in {"append", "transcribe"}

LEMMA StoredIs ==
    ASSUME SessionInv, PipeInv, NEW s \in Sessions
    PROVE  /\ Stored(s) \in Nat /\ Stored(s) <= MaxSamples[s]
           /\ ~Answering(s) => Stored(s) = Acknowledged(s)
           /\ Answering(s) =>
                  Stored(s) = IF client.op = "transcribe" THEN 0
                              ELSE IF client.by = "forwarder" THEN forwarder[s].len
                              ELSE captured[s]
<1>1. /\ sent[s] \in Nat /\ captured[s] \in Nat /\ forwarder[s].len \in Nat
      /\ sent[s] <= captured[s] /\ forwarder[s].len <= captured[s]
      /\ captured[s] <= MaxSamples[s] /\ MaxSamples[s] \in Nat
  BY StreamAssumption DEF SessionInv, SessionTypes, Numbers, FwdType
<1>2. /\ ~Answering(s) => Stored(s) = Acknowledged(s)
      /\ Answering(s) => Stored(s) = IF client.op = "transcribe" THEN 0
                                     ELSE IF client.by = "forwarder" THEN forwarder[s].len
                                     ELSE captured[s]
  BY DEF Stored, Answering, Acknowledged
<1>3. Acknowledged(s) \in Nat /\ Acknowledged(s) <= MaxSamples[s]
  BY <1>1 DEF Acknowledged
<1>4. CASE Answering(s)
  BY <1>1, <1>2, <1>4
<1>5. CASE ~Answering(s)
  BY <1>2, <1>3, <1>5
<1> QED  BY <1>2, <1>4, <1>5

(* Where a session is that is answered *)
LEMMA AnsweringIs ==
    ASSUME SessionInv, PipeInv, NEW s \in Sessions, Answering(s)
    PROVE  /\ client # None /\ client.session = s /\ Placed(client) /\ Plain(client) = client
           /\ \/ /\ client.op = "append" /\ client.by = "forwarder" /\ forwarder[s].at = "send"
                 /\ Stored(s) = forwarder[s].len /\ Stored(s) > 0
              \/ /\ client.op = "append" /\ client.by = "stop" /\ stop[s].at = "tail"
                 /\ Stored(s) = captured[s] /\ Stored(s) > 0
              \/ /\ client.op = "transcribe" /\ client.by = "stop" /\ stop[s].at = "transcribe"
                 /\ Stored(s) = 0
              \/ /\ client.op = "transcribe" /\ client.by = "discard" /\ discard[s] = "want"
                 /\ Stored(s) = 0
<1>1. /\ client.session = s /\ client.op \in {"append", "transcribe"}
  BY DEF Answering
<1>2. client # None
  BY DEF Answering, Served, PipeInv, Replied
<1>3. Placed(client) /\ Plain(client) = client
  BY <1>1, <1>2, CallerIs, ClientIs, PlainIs
<1>4. /\ sent[s] \in Nat /\ captured[s] \in Nat /\ forwarder[s].len \in Nat
      /\ forwarder[s].at = "send" => forwarder[s].len > 0
      /\ stop[s].at = "tail" => captured[s] > 0
  BY DEF SessionInv, SessionTypes, Numbers, FwdType, Active
<1>5. Stored(s) = IF client.op = "transcribe" THEN 0
                  ELSE IF client.by = "forwarder" THEN forwarder[s].len ELSE captured[s]
  BY StoredIs
<1> QED  BY <1>1, <1>2, <1>3, <1>4, <1>5 DEF Placed

(* The steps of a recording change nothing the worker needs, but start and *)
(* end it.                                                                 *)
LEMMA MovesChange ==
    ASSUME SessionInv, NEW s \in Sessions, Moves(s), NEW r \in Sessions
    PROVE  /\ \/ outcome'[r] = outcome[r]
              \/ outcome[r] = None /\ outcome'[r] = Skipped
              \/ outcome[r] = None /\ outcome'[r] = Failed /\ discard'[r] = "want"
           /\ discard'[r] = discard[r] \/ (discard'[r] # "none" /\ outcome[r] = None)
           /\ captured'[r] = captured[r] \/ recording = r
           /\ sent'[r] = sent[r]
           /\ \/ stop'[r].at = stop[r].at
              \/ stop[r].at \in {"none", "join"} /\ stop'[r].at # "transcribe"
           /\ forwarder'[r].len = forwarder[r].len \/ forwarder[r].at = "top"
           /\ raced \subseteq raced'
<1>0. SessionTypes /\ Control
  BY DEF SessionInv
<1>1. CASE Start(s)
  <2>1. /\ UNCHANGED <<sent, stop, discard, outcome, captured, raced>>
        /\ forwarder' = [forwarder EXCEPT ![s].at = "ensure"]
    BY <1>1 DEF Start
  <2>2. forwarder'[r].len = forwarder[r].len
    BY <2>1, <1>0 DEF SessionTypes, FwdType
  <2> QED  BY <2>1, <2>2
<1>2. CASE Capture(s)
  <2>1. /\ UNCHANGED <<sent, stop, discard, outcome, forwarder, raced>>
        /\ recording = s
        /\ captured' = [captured EXCEPT ![s] = @ + 1]
    BY <1>2 DEF Capture, streamVars
  <2> QED  BY <2>1, <1>0 DEF SessionTypes
<1>3. CASE StopTap(s)
  <2>1. /\ UNCHANGED <<sent, stop, discard, captured, forwarder, raced>> /\ recording = s
        /\ outcome' = [outcome EXCEPT ![s] = Skipped]
    BY <1>3 DEF StopTap
  <2> QED  BY <2>1, <1>0 DEF SessionTypes, Control
<1>4. CASE Stop(s)
  <2>1. /\ UNCHANGED <<sent, outcome, discard, captured, forwarder, raced>> /\ recording = s
        /\ stop' = [stop EXCEPT ![s].at = "join"]
    BY <1>4 DEF Stop
  <2>2. stop'[r].at = stop[r].at \/ (stop[r].at = "none" /\ stop'[r].at = "join")
    BY <2>1, <1>0 DEF SessionTypes, StopType, Control
  <2> QED  BY <2>1, <2>2
<1>5. CASE Cancel(s)
  <2>1. /\ UNCHANGED <<sent, stop, outcome, captured, forwarder, raced>> /\ recording = s
        /\ discard' = [discard EXCEPT ![s] = "join"]
    BY <1>5 DEF Cancel
  <2> QED  BY <2>1, <1>0 DEF SessionTypes, Control
<1>6. CASE Poll(s)
  <2>1. /\ UNCHANGED <<sent, stop, discard, outcome, captured, raced>> /\ forwarder[s].at = "top"
        /\ \/ forwarder' = [forwarder EXCEPT ![s].at = "peek", ![s].len = Len(buffer)]
           \/ forwarder' = [forwarder EXCEPT ![s] = Forwarding("done")]
    BY <1>6 DEF Poll, audioVars
  <2>2. r # s => forwarder'[r] = forwarder[r]
    BY <2>1, <1>0 DEF SessionTypes
  <2> QED  BY <2>1, <2>2
<1>7. CASE Peek(s)
  <2>1. UNCHANGED <<sent, stop, discard, outcome, captured>> /\ raced \subseteq raced'
    BY <1>7 DEF Peek, audioVars
  <2>2. \E chunk : forwarder' = [forwarder EXCEPT ![s].at = "send", ![s].chunk = chunk]
    BY <1>7 DEF Peek
  <2>3. forwarder'[r].len = forwarder[r].len
    BY <2>2, <1>0 DEF SessionTypes, FwdType
  <2> QED  BY <2>1, <2>3
<1>8. CASE Drain(s)
  <2>1. /\ UNCHANGED <<sent, discard, captured, forwarder, raced>> /\ stop[s].at = "join"
        /\ \/ /\ stop' = [stop EXCEPT ![s] = [at |-> "ensure", audio |-> buffer]]
              /\ outcome' = outcome
           \/ /\ stop' = [stop EXCEPT ![s].at = "done"]
              /\ outcome' = [outcome EXCEPT ![s] = Skipped]
    BY <1>8 DEF Drain
  <2>2. stop'[r].at = stop[r].at \/ (stop[r].at = "join" /\ stop'[r].at # "transcribe")
    <3>1. r # s => stop'[r] = stop[r]
      BY <2>1, <1>0 DEF SessionTypes
    <3>2. stop'[s].at \in {"ensure", "done"}
      BY <2>1, <1>0 DEF SessionTypes, StopType
    <3> QED  BY <3>1, <3>2, <2>1
  <2>3. outcome'[r] = outcome[r] \/ (outcome[r] = None /\ outcome'[r] = Skipped)
    BY <2>1, <1>0 DEF SessionTypes, Control, Active
  <2> QED  BY <2>1, <2>2, <2>3
<1>9. CASE Discard(s)
  <2>1. /\ UNCHANGED <<sent, stop, captured, forwarder, raced>> /\ discard[s] = "join"
        /\ discard' = [discard EXCEPT ![s] = "want"]
        /\ outcome' = [outcome EXCEPT ![s] = Failed]
    BY <1>9 DEF Discard, audioVars
  <2> QED  BY <2>1, <1>0 DEF Control, SessionTypes
<1> QED  BY <1>1, <1>2, <1>3, <1>4, <1>5, <1>6, <1>7, <1>8, <1>9 DEF Moves

Data == Heard /\ Taken /\ Forgotten /\ Whole

LEMMA MovesData ==
    ASSUME SessionInv, PipeInv, Data, NEW s \in Sessions, Moves(s)
    PROVE  Data'
<1>d. Heard /\ Taken /\ Forgotten /\ Whole
  BY DEF Data
<1>0. UNCHANGED <<client, replies, worker, lost>> /\ (Served' <=> Served)
  BY MovesFrame DEF pipeVars, Served
<1>n. None # Failed /\ None # Skipped /\ Failed # Skipped
  BY StreamAssumption
<1>m. ASSUME NEW r \in Sessions
      PROVE  /\ \/ outcome'[r] = outcome[r]
                \/ outcome[r] = None /\ outcome'[r] = Skipped
                \/ outcome[r] = None /\ outcome'[r] = Failed /\ discard'[r] = "want"
             /\ discard'[r] = discard[r] \/ (discard'[r] # "none" /\ outcome[r] = None)
             /\ captured'[r] = captured[r] \/ recording = r
             /\ sent'[r] = sent[r]
             /\ \/ stop'[r].at = stop[r].at
                \/ stop[r].at \in {"none", "join"} /\ stop'[r].at # "transcribe"
             /\ forwarder'[r].len = forwarder[r].len \/ forwarder[r].at = "top"
             /\ raced \subseteq raced'
  BY MovesChange
<1>c. \A r \in Sessions : recording = r => stop[r].at = "none" /\ discard[r] = "none" /\ outcome[r] = None
  BY DEF SessionInv, Control
<1>1. ASSUME NEW r \in Sessions, Sound(r)' PROVE Sound(r)
  BY <1>0, <1>n, <1>m, <1>1 DEF Sound
<1>2. ASSUME NEW r \in Sessions PROVE Stored(r)' = Stored(r)
  <2>1. CASE Answering(r)
    <3>1. \/ client.op = "transcribe"
          \/ /\ client.op # "transcribe" /\ client.by = "forwarder"
             /\ forwarder'[r].len = forwarder[r].len
          \/ /\ client.op # "transcribe" /\ client.by # "forwarder" /\ captured'[r] = captured[r]
      BY <2>1, <1>m, <1>c, AnsweringIs
    <3> QED  BY <3>1, <2>1, <1>0 DEF Stored, Answering
  <2>2. CASE ~Answering(r)
    <3>1. Acknowledged(r)' = Acknowledged(r)
      BY <1>m, <1>c DEF Acknowledged
    <3> QED  BY <3>1, <2>2, <1>0 DEF Stored, Answering, Acknowledged
  <2> QED  BY <2>1, <2>2
<1>3. Heard'
  <2>1. ASSUME NEW r \in Sessions, Sound(r)' PROVE worker'.audio[r] = Cut(r, 0, Stored(r)')
    BY <2>1, <1>0, <1>1, <1>2, <1>d DEF Heard
  <2> QED  BY <2>1 DEF Heard, Cut
<1>4. Taken'
  <2>1. ASSUME NEW r \in Sessions, client # None, client.session = r, client.op = "transcribe", Served
        PROVE  /\ worker.audio[r] = <<>>
               /\ replies[Len(replies)].text \in Seq(Samples)
               /\ Sound(r)' => replies[Len(replies)].text = Recorded(r)'
    <3>1. Answering(r)
      BY <2>1 DEF Answering
    <3>2. captured'[r] = captured[r]
      BY <2>1, <3>1, <1>m, <1>c, AnsweringIs
    <3>3. Recorded(r)' = Recorded(r)
      BY <3>2 DEF Recorded
    <3> QED  BY <2>1, <3>3, <1>1, <1>d DEF Taken
  <2> QED  BY <2>1, <1>0 DEF Taken
<1>5. Forgotten'
  <2>1. ASSUME NEW r \in Sessions, outcome'[r] \notin {None, Skipped}, discard'[r] # "want"
        PROVE  worker.audio[r] = <<>>
    <3>1. outcome'[r] = outcome[r] /\ discard'[r] = discard[r]
      BY <2>1, <1>m
    <3> QED  BY <2>1, <3>1, <1>d DEF Forgotten
  <2> QED  BY <2>1, <1>0 DEF Forgotten
<1>6. Whole'
  <2>1. ASSUME NEW r \in Sessions, outcome'[r] \notin {None, Failed, Skipped}
        PROVE  outcome'[r] = Recorded(r)' \/ r \in (lost \cup raced)'
    <3>1. outcome'[r] = outcome[r]
      BY <2>1, <1>m
    <3>2. captured'[r] = captured[r]
      BY <2>1, <3>1, <1>m, <1>c
    <3>3. Recorded(r)' = Recorded(r)
      BY <3>2 DEF Recorded
    <3>4. raced \subseteq raced' /\ lost' = lost
      BY <1>0, <1>m
    <3> QED  BY <2>1, <3>1, <3>3, <3>4, <1>d DEF Whole
  <2> QED  BY <2>1 DEF Whole
<1> QED  BY <1>3, <1>4, <1>5, <1>6 DEF Data

(* The return of a call concerns nobody but its caller, *)
LEMMA ReturnsElsewhere ==
    ASSUME SessionInv, NEW c \in CallType, Placed(c), NEW text, Passes(c, text) \/ Fails(c),
           NEW r \in Sessions, r # c.session \/ c.by \in {"unload", "settings"}
    PROVE  /\ stop'[r] = stop[r] /\ sent'[r] = sent[r] /\ forwarder'[r] = forwarder[r]
           /\ outcome'[r] = outcome[r] /\ discard'[r] = discard[r]
<1>0. SessionTypes
  BY DEF SessionInv
<1>1. CASE UNCHANGED streamVars
  BY <1>1 DEF streamVars
<1>2. CASE r # c.session
  <2>1. ASSUME NEW s \in Sessions, r # s, NEW n, FwdGoes(s, n)
        PROVE  /\ stop'[r] = stop[r] /\ sent'[r] = sent[r] /\ forwarder'[r] = forwarder[r]
               /\ outcome'[r] = outcome[r] /\ discard'[r] = discard[r]
    BY <2>1, <1>0 DEF FwdGoes, SessionTypes
  <2>2. ASSUME NEW s \in Sessions, r # s, FwdEnds(s)
        PROVE  /\ stop'[r] = stop[r] /\ sent'[r] = sent[r] /\ forwarder'[r] = forwarder[r]
               /\ outcome'[r] = outcome[r] /\ discard'[r] = discard[r]
    BY <2>2, <1>0 DEF FwdEnds, SessionTypes
  <2>3. ASSUME NEW s \in Sessions, r # s, NEW to, StopGoes(s, to)
        PROVE  /\ stop'[r] = stop[r] /\ sent'[r] = sent[r] /\ forwarder'[r] = forwarder[r]
               /\ outcome'[r] = outcome[r] /\ discard'[r] = discard[r]
    BY <2>3, <1>0 DEF StopGoes, SessionTypes
  <2>4. ASSUME NEW s \in Sessions, r # s, NEW result, StopEnds(s, result)
        PROVE  /\ stop'[r] = stop[r] /\ sent'[r] = sent[r] /\ forwarder'[r] = forwarder[r]
               /\ outcome'[r] = outcome[r] /\ discard'[r] = discard[r]
    BY <2>4, <1>0 DEF StopEnds, SessionTypes
  <2>5. ASSUME NEW s \in Sessions, r # s, DiscardEnds(s)
        PROVE  /\ stop'[r] = stop[r] /\ sent'[r] = sent[r] /\ forwarder'[r] = forwarder[r]
               /\ outcome'[r] = outcome[r] /\ discard'[r] = discard[r]
    BY <2>5, <1>0 DEF DiscardEnds, SessionTypes
  <2>6. c.by \in {"forwarder", "stop", "discard"} => c.session \in Sessions
    BY DEF Placed
  <2>7. CASE Passes(c, text)
    BY <2>7, <1>1, <1>2, <2>1, <2>3, <2>4, <2>5, <2>6 DEF Passes
  <2>8. CASE Fails(c)
    BY <2>8, <1>1, <1>2, <2>2, <2>4, <2>5, <2>6 DEF Fails
  <2> QED  BY <2>7, <2>8
<1>3. CASE c.by \in {"unload", "settings"}
  <2>1. c.by # "forwarder" /\ c.by # "stop" /\ c.by # "discard"
    BY <1>3
  <2>2. UNCHANGED streamVars
    BY <2>1 DEF Passes, Fails
  <2> QED  BY <1>1, <2>2
<1> QED  BY <1>2, <1>3

(* and leaves the rest as it is when it is that of ensure_worker. *)
LEMMA EnsuredIs ==
    ASSUME SessionInv, NEW c \in CallType, Placed(c), Passes(c, None), SoundsSame,
           c.op \notin {"append", "transcribe"}, NEW r \in Sessions
    PROVE  /\ Acknowledged(r)' = Acknowledged(r)
           /\ outcome'[r] = outcome[r] /\ discard'[r] = discard[r]
<1>0. SessionTypes /\ captured' = captured
  BY DEF SessionInv, SoundsSame, audioVars
<1>1. CASE r # c.session \/ c.by \in {"unload", "settings"}
  BY <1>0, <1>1, ReturnsElsewhere DEF Acknowledged
<1>2. CASE r = c.session /\ c.by = "forwarder"
  <2>1. FwdGoes(r, sent[r])
    BY <1>2 DEF Passes
  <2> QED  BY <2>1, <1>0 DEF FwdGoes, Acknowledged, SessionTypes
<1>3. CASE r = c.session /\ c.by = "stop"
  <2>0. c.op = "ensure" /\ stop[r].at = "ensure"
    BY <1>3 DEF Placed
  <2>1. CASE sent[r] < Len(stop[r].audio) /\ StopGoes(r, [stop[r] EXCEPT !.at = "tail"])
    <3>1. stop'[r].at = "tail" /\ UNCHANGED <<sent, discard, outcome>>
      BY <2>1, <1>0 DEF StopGoes, SessionTypes, StopType
    <3> QED  BY <3>1, <2>0, <1>0 DEF Acknowledged
  <2>2. CASE ~(sent[r] < Len(stop[r].audio)) /\ StopGoes(r, Stopping("transcribe"))
    <3>1. stop'[r].at = "transcribe" /\ UNCHANGED <<sent, discard, outcome>>
      BY <2>2, <1>0 DEF StopGoes, SessionTypes, Stopping
    <3>2. Len(stop[r].audio) = captured[r] /\ captured[r] \in Nat /\ sent[r] \in Nat
          /\ sent[r] <= captured[r]
      BY <2>0, DrainedIs DEF SessionInv, Numbers, SessionTypes
    <3>3. sent[r] = captured[r]
      BY <2>2, <3>2
    <3> QED  BY <3>1, <3>3, <2>0, <1>0 DEF Acknowledged
  <2> QED  BY <1>3, <2>0, <2>1, <2>2 DEF Passes
<1> QED  BY <1>1, <1>2, <1>3 DEF Placed

LEMMA FailedIs ==
    ASSUME SessionInv, NEW c \in CallType, Placed(c), Fails(c), SoundsSame, NEW r \in Sessions
    PROVE  \/ /\ outcome'[r] = Failed /\ outcome[r] = None /\ discard'[r] = discard[r]
              /\ c.by = "stop" /\ c.session = r
           \/ /\ outcome'[r] = outcome[r] /\ Acknowledged(r)' = Acknowledged(r)
              /\ discard'[r] = discard[r]
           \/ /\ outcome'[r] = outcome[r] /\ Acknowledged(r)' = Acknowledged(r)
              /\ discard[r] = "want" /\ discard'[r] = "done"
              /\ c.by = "discard" /\ c.session = r
<1>0. SessionTypes /\ captured' = captured
  BY DEF SessionInv, SoundsSame, audioVars
<1>1. CASE r # c.session \/ c.by \in {"unload", "settings"}
  BY <1>0, <1>1, ReturnsElsewhere DEF Acknowledged
<1>2. CASE r = c.session /\ c.by = "forwarder"
  <2>1. FwdEnds(r)
    BY <1>2 DEF Fails
  <2> QED  BY <2>1, <1>0 DEF FwdEnds, Acknowledged
<1>3. CASE r = c.session /\ c.by = "stop"
  <2>0. stop[r].at \in {"ensure", "tail", "transcribe"}
    BY <1>3 DEF Placed
  <2>1. StopEnds(r, Failed)
    BY <1>3 DEF Fails
  <2>2. outcome[r] = None
    BY <2>0 DEF SessionInv, Control, Active
  <2> QED  BY <1>3, <2>1, <2>2, <1>0 DEF StopEnds, SessionTypes
<1>4. CASE r = c.session /\ c.by = "discard"
  <2>0. discard[r] = "want"
    BY <1>4 DEF Placed
  <2>1. DiscardEnds(r)
    BY <1>4 DEF Fails
  <2> QED  BY <1>4, <2>0, <2>1, <1>0 DEF DiscardEnds, SessionTypes, Acknowledged
<1> QED  BY <1>1, <1>2, <1>3, <1>4 DEF Placed

-----------------------------------------------------------------------------
(* The worker goes, and what it had is lost: a session that is still sound *)
(* had sent nothing.                                                       *)
LEMMA EmptiedData ==
    ASSUME SessionInv, PipeInv, Data, SessionInv',
           worker'.audio = NoAudio, lost' = lost \cup Losing, captured' = captured, raced' = raced,
           Served' => Served /\ UNCHANGED <<client, replies>>,
           \A s \in Sessions :
               Sound(s)' => /\ outcome[s] = None /\ discard[s] = "none"
                            /\ Stored(s) = 0 => Stored(s)' = 0,
           \A s \in Sessions :
               outcome'[s] \notin {None, Failed, Skipped} => outcome'[s] = outcome[s]
    PROVE  Data'
<1>d. Heard /\ Taken /\ Forgotten /\ Whole
  BY DEF Data
<1>0. /\ \A s \in Sessions : worker'.audio[s] = <<>>
      /\ lost \subseteq lost' /\ lost' = lost \cup Losing
  BY DEF NoAudio
<1>1. ASSUME NEW s \in Sessions, Sound(s)' PROVE Sound(s) /\ worker.audio[s] = <<>>
  <2>1. s \notin lost' /\ s \notin raced /\ outcome[s] = None /\ discard[s] = "none"
    BY <1>1 DEF Sound
  <2> QED  BY <2>1, <1>0 DEF Sound, Losing
<1>2. Heard'
  <2>1. ASSUME NEW s \in Sessions, Sound(s)' PROVE worker'.audio[s] = Cut(s, 0, Stored(s)')
    <3>1. Cut(s, 0, Stored(s)) = <<>> /\ Stored(s) \in Nat /\ Stored(s) <= MaxSamples[s]
      BY <2>1, <1>1, <1>d, StoredIs DEF Heard
    <3>2. Stored(s) = 0
      BY <3>1, CutEmpty
    <3>3. Stored(s)' = 0
      BY <2>1, <3>2
    <3>4. 0 <= MaxSamples[s] /\ 0 \in Nat
      BY StreamAssumption
    <3>5. Cut(s, 0, 0) = <<>>
      BY <3>4, CutEmpty
    <3> QED  BY <3>3, <3>5, <1>0
  <2> QED  BY <2>1 DEF Heard, Cut
<1>3. Taken'
  <2>1. ASSUME NEW r \in Sessions, client' # None, client'.session = r, client'.op = "transcribe",
               Served'
        PROVE  /\ worker'.audio[r] = <<>>
               /\ replies'[Len(replies')].text \in Seq(Samples)
               /\ Sound(r)' => replies'[Len(replies')].text = Recorded(r)'
    <3>1. client' = client /\ replies' = replies /\ Served
      BY <2>1
    <3>2. Recorded(r)' = Recorded(r)
      BY DEF Recorded
    <3> QED  BY <2>1, <3>1, <3>2, <1>0, <1>1, <1>d DEF Taken
  <2> QED  BY <2>1 DEF Taken
<1>4. Forgotten'
  BY <1>0 DEF Forgotten
<1>5. Whole'
  <2>1. ASSUME NEW r \in Sessions, outcome'[r] \notin {None, Failed, Skipped}
        PROVE  outcome'[r] = Recorded(r)' \/ r \in (lost \cup raced)'
    <3>1. outcome'[r] = outcome[r]
      BY <2>1
    <3>3. Recorded(r)' = Recorded(r)
      BY DEF Recorded
    <3> QED  BY <2>1, <3>1, <3>3, <1>0, <1>d DEF Whole
  <2> QED  BY <2>1 DEF Whole
<1> QED  BY <1>2, <1>3, <1>4, <1>5 DEF Data

LEMMA RespawnedData ==
    ASSUME SessionInv, PipeInv, Data, SessionInv', Elsewhere, NEW c \in CallType, Respawned(c)
    PROVE  Data'
<1>0. /\ Placed(c) /\ c.op = "ensure" /\ Passes(c, None) /\ SoundsSame
      /\ (client = None \/ (client # None /\ c = Plain(client)))
      /\ worker'.audio = NoAudio /\ replies' = <<>> /\ lost' = lost \cup Losing
  BY DEF Respawned, Due, Spawn, Elsewhere
<1>1. ~Served' /\ captured' = captured /\ raced' = raced
  BY <1>0 DEF Served, SoundsSame, audioVars
<1>2. \A s \in Sessions : ~Answering(s)
  <2>1. client # None => client.op \notin {"append", "transcribe"}
    BY <1>0, ClientIs, PlainIs
  <2> QED  BY <2>1 DEF Answering, Served, PipeInv, Replied
<1>3. \A s \in Sessions :
          /\ Acknowledged(s)' = Acknowledged(s)
          /\ outcome'[s] = outcome[s] /\ discard'[s] = discard[s]
  BY <1>0, EnsuredIs
<1>4. ASSUME NEW s \in Sessions PROVE Stored(s)' = Stored(s)
  <2>1. Stored(s)' = Acknowledged(s)'
    BY <1>1 DEF Stored, Acknowledged
  <2> QED  BY <2>1, <1>2, <1>3, StoredIs
<1>5. \A s \in Sessions :
          Sound(s)' => /\ outcome[s] = None /\ discard[s] = "none"
                       /\ Stored(s) = 0 => Stored(s)' = 0
  BY <1>3, <1>4 DEF Sound
<1> QED  BY <1>0, <1>1, <1>3, <1>5, EmptiedData

LEMMA DroppedData ==
    ASSUME SessionInv, PipeInv, Data, SessionInv', Elsewhere, NEW c \in CallType, Dropped(c)
    PROVE  Data'
<1>0. /\ Placed(c) /\ Fails(c) /\ SoundsSame
      /\ (client = None \/ (client # None /\ c = Plain(client)))
      /\ worker'.audio = NoAudio /\ replies' = <<>> /\ lost' = lost \cup Losing
  BY DEF Dropped, Due, Drop, Dead, Elsewhere
<1>1. ~Served' /\ captured' = captured /\ raced' = raced
  BY <1>0 DEF Served, SoundsSame, audioVars
<1>n. None # Failed /\ None # Skipped /\ Failed # Skipped
  BY StreamAssumption
<1>3. ASSUME NEW s \in Sessions, Sound(s)'
      PROVE  /\ outcome[s] = None /\ discard[s] = "none"
             /\ Stored(s) = 0 => Stored(s)' = 0
  <2>1. /\ outcome'[s] = outcome[s] /\ outcome[s] = None
        /\ discard'[s] = discard[s] /\ discard[s] = "none"
        /\ Acknowledged(s)' = Acknowledged(s)
    BY <1>0, <1>n, <1>3, FailedIs DEF Sound
  <2>2. Stored(s)' = Acknowledged(s)'
    BY <1>1 DEF Stored, Acknowledged
  <2>3. CASE ~Answering(s)
    BY <2>1, <2>2, <2>3, StoredIs
  <2>4. CASE Answering(s) /\ Stored(s) = 0
    <3>1. client # None /\ client.by = "stop" /\ client.session = s /\ Plain(client) = client
      BY <2>1, <2>4, AnsweringIs
    <3>2. c.by = "stop" /\ c.session = s
      BY <3>1, <1>0
    <3>3. outcome'[s] = Failed
      <4>1. StopEnds(s, Failed)
        BY <3>2, <1>0 DEF Fails
      <4> QED  BY <4>1 DEF StopEnds, SessionInv, SessionTypes
    <3> QED  BY <3>3, <2>1, <1>n
  <2> QED  BY <2>1, <2>3, <2>4
<1>4. \A s \in Sessions : outcome'[s] \notin {None, Failed, Skipped} => outcome'[s] = outcome[s]
  BY <1>0, FailedIs
<1> QED  BY <1>0, <1>1, <1>3, <1>4, EmptiedData

(* Data depends on nothing else. *)
LEMMA SameStored ==
    ASSUME UNCHANGED <<stop, captured, sent, forwarder, client>>, Served' <=> Served, NEW s
    PROVE  Stored(s)' = Stored(s)
  BY DEF Stored

LEMMA WarmUpData ==
    ASSUME SessionInv, PipeInv, Data, SessionInv', WarmUp
    PROVE  Data'
<1>0. /\ worker'.audio = NoAudio /\ lost' = lost \cup Losing /\ replies' = <<>>
      /\ UNCHANGED <<stop, captured, sent, forwarder, raced, outcome, discard, client>>
      /\ client = None
  BY WarmUpIs DEF Spawn, SoundsSame, audioVars, streamVars
<1>1. ~Served /\ ~Served'
  BY <1>0, Unserved DEF Served
<1>2. \A s \in Sessions : Stored(s)' = Stored(s)
  BY <1>0, <1>1, SameStored
<1> QED  BY <1>0, <1>1, <1>2, EmptiedData DEF Sound

LEMMA CrashData ==
    ASSUME SessionInv, PipeInv, Data, SessionInv', PipeOnly, worker' = Dead,
           lost' = lost \cup Losing, Served' <=> Served, Served => replies' = replies
    PROVE  Data'
<1>0. /\ worker'.audio = NoAudio
      /\ UNCHANGED <<stop, captured, sent, forwarder, raced, outcome, discard, client>>
  BY DEF Dead, PipeOnly, audioVars, streamVars
<1>2. \A s \in Sessions : Stored(s)' = Stored(s)
  BY <1>0, SameStored
<1> QED  BY <1>0, <1>2, EmptiedData DEF Sound

-----------------------------------------------------------------------------
(* The worker stays as it is. *)
LEMMA SameData ==
    ASSUME Data, worker' = worker, lost' = lost, raced' = raced, captured' = captured, Taken',
           \A s \in Sessions : Sound(s)' => Sound(s) /\ Stored(s)' = Stored(s),
           \A s \in Sessions :
               \/ outcome'[s] = outcome[s] /\ discard'[s] = discard[s]
               \/ worker.audio[s] = <<>>,
           \A s \in Sessions :
               outcome'[s] \notin {None, Failed, Skipped} =>
                   outcome'[s] = outcome[s] \/ outcome'[s] = Recorded(s) \/ s \in lost \cup raced
    PROVE  Data'
<1>d. Heard /\ Taken /\ Forgotten /\ Whole
  BY DEF Data
<1>1. Heard'
  <2>1. ASSUME NEW s \in Sessions, Sound(s)' PROVE worker'.audio[s] = Cut(s, 0, Stored(s)')
    BY <2>1, <1>d DEF Heard
  <2> QED  BY <2>1 DEF Heard, Cut
<1>2. Forgotten'
  BY <1>d DEF Forgotten
<1>3. Whole'
  <2>1. ASSUME NEW r \in Sessions, outcome'[r] \notin {None, Failed, Skipped}
        PROVE  outcome'[r] = Recorded(r)' \/ r \in (lost \cup raced)'
    <3>1. Recorded(r)' = Recorded(r)
      BY DEF Recorded
    <3> QED  BY <2>1, <3>1, <1>d DEF Whole
  <2> QED  BY <2>1 DEF Whole
<1> QED  BY <1>1, <1>2, <1>3 DEF Data

(* No answer can be in the way, *)
LEMMA NoAnswerData ==
    ASSUME SessionInv, PipeInv, Data, worker' = worker, lost' = lost,
           UNCHANGED <<audioVars, streamVars, raced>>,
           ~Served, ~Served'
    PROVE  Data'
<1>0. UNCHANGED <<stop, captured, sent, forwarder, raced, outcome, discard>>
  BY DEF audioVars, streamVars
<1>1. \A s \in Sessions : Stored(s)' = Stored(s)
  BY <1>0 DEF Stored
<1>2. Taken'
  BY DEF Taken
<1> QED  BY <1>0, <1>1, <1>2, SameData DEF Sound

(* or it stays where it is. *)
LEMMA AnswerStaysData ==
    ASSUME SessionInv, PipeInv, Data, worker' = worker, lost' = lost, client' = client,
           UNCHANGED <<audioVars, streamVars, raced>>, Served' <=> Served,
           Served => replies'[Len(replies')] = replies[Len(replies)]
    PROVE  Data'
<1>0. UNCHANGED <<stop, captured, sent, forwarder, raced, outcome, discard>>
  BY DEF audioVars, streamVars
<1>1. \A s \in Sessions : Stored(s)' = Stored(s)
  BY <1>0, SameStored
<1>2. Taken'
  <2>1. ASSUME NEW r \in Sessions, client # None, client.session = r, client.op = "transcribe", Served
        PROVE  /\ worker.audio[r] = <<>>
               /\ replies'[Len(replies')].text \in Seq(Samples)
               /\ Sound(r)' => replies'[Len(replies')].text = Recorded(r)'
    <3>1. (Sound(r)' => Sound(r)) /\ Recorded(r)' = Recorded(r)
      BY <1>0 DEF Sound, Recorded
    <3> QED  BY <2>1, <3>1 DEF Data, Taken
  <2> QED  BY <2>1 DEF Taken
<1> QED  BY <1>0, <1>1, <1>2, SameData DEF Sound

LEMMA SentData ==
    ASSUME SessionInv, PipeInv, Data, Elsewhere, NEW c \in CallType, NEW op, NEW body,
           Sent(c, op, body)
    PROVE  Data'
<1>0. /\ client = None /\ UNCHANGED <<replies, worker, lost>>
      /\ UNCHANGED <<audioVars, streamVars, raced>>
  BY DEF Sent, Send, Elsewhere, SoundsSame
<1>1. ~Served /\ ~Served'
  BY <1>0, Unserved DEF Served
<1> QED  BY <1>0, <1>1, NoAnswerData

LEMMA RefusedData ==
    ASSUME SessionInv, PipeInv, Data, Elsewhere, NEW c \in CallType, Refused(c)
    PROVE  Data'
<1>0. /\ client = None /\ ~link.up /\ Placed(c) /\ Fails(c) /\ SoundsSame
      /\ UNCHANGED <<replies, worker, lost>>
  BY DEF Refused, Elsewhere, pipeVars
<1>1. ~Served /\ ~Served'
  BY <1>0, Unserved DEF Served
<1>2. \A s \in Sessions : worker.audio[s] = <<>>
  BY <1>0 DEF PipeInv, Ends, NoAudio
<1>n. None # Failed
  BY StreamAssumption
<1>3. ASSUME NEW s \in Sessions, Sound(s)' PROVE Sound(s) /\ Stored(s)' = Stored(s)
  <2>1. /\ outcome'[s] = outcome[s] /\ discard'[s] = discard[s]
        /\ Acknowledged(s)' = Acknowledged(s)
    BY <1>0, <1>3, <1>n, FailedIs DEF Sound
  <2>2. Stored(s) = Acknowledged(s) /\ Stored(s)' = Acknowledged(s)'
    BY <1>1 DEF Stored, Acknowledged
  <2> QED  BY <2>1, <2>2, <1>0, <1>3 DEF Sound, SoundsSame
<1>4. \A s \in Sessions : outcome'[s] \notin {None, Failed, Skipped} => outcome'[s] = outcome[s]
  BY <1>0, FailedIs
<1>5. Taken'
  BY <1>1 DEF Taken
<1> QED  BY <1>0, <1>2, <1>3, <1>4, <1>5, SameData DEF SoundsSame, audioVars

LEMMA ExpiredData ==
    ASSUME SessionInv, PipeInv, Data, Elsewhere, NEW c \in CallType, Expired(c)
    PROVE  Data'
<1>0. /\ client # None /\ c = Plain(client) /\ client.op \in {"ping", "unload"}
      /\ replies' = Stale(replies)
      /\ Passes(c, None) /\ SoundsSame
      /\ UNCHANGED <<worker, lost>>
  BY DEF Expired, Elsewhere
<1>1. ~Served'
  BY <1>0, AllStale DEF Served
<1>2. Placed(c) /\ c.op \notin {"append", "transcribe"}
  BY <1>0, ClientIs, PlainIs
<1>3. \A s \in Sessions : /\ Acknowledged(s)' = Acknowledged(s)
                          /\ outcome'[s] = outcome[s] /\ discard'[s] = discard[s]
  BY <1>0, <1>2, EnsuredIs
<1>4. ASSUME NEW s \in Sessions PROVE Stored(s)' = Stored(s)
  <2>1. Stored(s)' = Acknowledged(s)'
    BY <1>1 DEF Stored, Acknowledged
  <2>2. ~Answering(s)
    BY <1>0 DEF Answering
  <2> QED  BY <2>1, <2>2, <1>3, StoredIs
<1>5. Taken'
  BY <1>1 DEF Taken
<1>6. \A s \in Sessions : Sound(s)' => Sound(s)
  BY <1>0, <1>3 DEF Sound, SoundsSame
<1> QED  BY <1>0, <1>3, <1>4, <1>5, <1>6, SameData DEF SoundsSame, audioVars

LEMMA AnsweredData ==
    ASSUME SessionInv, PipeInv, Data, Elsewhere, NEW c \in CallType, Answered(c)
    PROVE  Data'
<1> DEFINE t == client.session
           text == Head(replies).text
<1>0. /\ client # None /\ c = Plain(client) /\ replies # <<>>
      /\ Head(replies).id = IdOf(client) /\ replies' = Tail(replies)
      /\ Passes(c, text) /\ SoundsSame
      /\ UNCHANGED <<worker, lost>>
  BY DEF Answered, Elsewhere
<1>1. Served /\ ~Served' /\ Head(replies) = replies[Len(replies)]
  BY <1>0, AnswerIsLast DEF Served
<1>2. /\ Placed(c) /\ c.session = t /\ SessionTypes /\ Control /\ captured' = captured
      /\ raced' = raced
  BY <1>0, ClientIs, PlainIs DEF SessionInv, SoundsSame, audioVars
<1>3. Taken'
  BY <1>1 DEF Taken
<1>n. None # Failed /\ None # Skipped /\ Failed # Skipped
  BY StreamAssumption
<1> HIDE DEF text
<1>a. \A r \in Sessions : ~Answering(r) => Stored(r) = Acknowledged(r)
  BY StoredIs
<1>b. \A r \in Sessions : Stored(r)' = Acknowledged(r)'
  BY <1>1 DEF Stored, Acknowledged
(* What the call of another session changes *)
<1>4. ASSUME NEW r \in Sessions, r # t
      PROVE  /\ outcome'[r] = outcome[r] /\ discard'[r] = discard[r]
             /\ Stored(r)' = Stored(r)
  <2>1. /\ outcome'[r] = outcome[r] /\ discard'[r] = discard[r]
        /\ Acknowledged(r)' = Acknowledged(r)
    BY <1>0, <1>2, <1>4, ReturnsElsewhere DEF Acknowledged
  <2>2. ~Answering(r)
    BY <1>4 DEF Answering
  <2> QED  BY <2>1, <2>2, <1>a, <1>b
<1>5. CASE client.op \notin {"append", "transcribe"}
  <2>1. c.op \notin {"append", "transcribe"}
    BY <1>0, <1>5, ClientIs, PlainIs
  <2>2. Passes(c, None)
    BY <1>0, <2>1, Zenon DEF Passes
  <2>3. \A r \in Sessions : /\ Acknowledged(r)' = Acknowledged(r)
                            /\ outcome'[r] = outcome[r] /\ discard'[r] = discard[r]
    BY <2>1, <2>2, <1>0, <1>2, EnsuredIs
  <2>4. \A r \in Sessions : ~Answering(r)
    BY <1>5 DEF Answering
  <2>5. \A r \in Sessions : (Sound(r)' => Sound(r)) /\ Stored(r)' = Stored(r)
    BY <2>3, <2>4, <1>0, <1>2, <1>a, <1>b DEF Sound
  <2> QED  BY <2>3, <2>5, <1>0, <1>2, <1>3, SameData
<1>6. CASE client.op \in {"append", "transcribe"}
  <2>1. /\ c = client /\ t \in Sessions /\ Answering(t)
    BY <1>0, <1>1, <1>6, CallerIs, ClientIs, PlainIs DEF Answering
  <2>2. CASE client.op = "append"
    <3>u. PICK u \in Sessions : u = t
      BY <2>1
    <3>1. outcome'[u] = outcome[u] /\ discard'[u] = discard[u] /\ Stored(u)' = Stored(u)
      <4>1. CASE client.by = "forwarder"
        <5>1. FwdGoes(u, forwarder[u].len)
          BY <3>u, <4>1, <2>1, <2>2, <1>0 DEF Passes
        <5>2. Stored(u) = forwarder[u].len /\ forwarder[u].at = "send"
          BY <3>u, <4>1, <2>1, <2>2, AnsweringIs
        <5>3. stop[u].at # "transcribe"
          BY <5>2, <1>2 DEF Control
        <5>4. Acknowledged(u)' = forwarder[u].len
          BY <5>1, <5>3, <1>2 DEF FwdGoes, Acknowledged, SessionTypes
        <5> QED  BY <5>1, <5>2, <5>4, <1>b DEF FwdGoes
      <4>2. CASE client.by = "stop"
        <5>1. StopGoes(u, Stopping("transcribe"))
          BY <3>u, <4>2, <2>1, <2>2, <1>0 DEF Passes
        <5>2. Stored(u) = captured[u]
          BY <3>u, <4>2, <2>1, <2>2, AnsweringIs
        <5>3. stop'[u].at = "transcribe"
          BY <5>1, <1>2 DEF StopGoes, Stopping, SessionTypes
        <5>4. Acknowledged(u)' = captured[u]
          BY <5>3, <1>2 DEF Acknowledged
        <5> QED  BY <5>1, <5>2, <5>4, <1>b DEF StopGoes
      <4> QED  BY <4>1, <4>2, <2>1, <2>2, AnsweringIs
    <3>2. \A r \in Sessions : /\ outcome'[r] = outcome[r] /\ discard'[r] = discard[r]
                              /\ Stored(r)' = Stored(r)
      BY <3>u, <3>1, <1>4
    <3>3. \A r \in Sessions : Sound(r)' => Sound(r)
      BY <3>2, <1>0, <1>2 DEF Sound
    <3> QED  BY <3>2, <3>3, <1>0, <1>2, <1>3, SameData
  <2>3. CASE client.op = "transcribe"
    <3>1. /\ worker.audio[t] = <<>> /\ text \in Seq(Samples)
          /\ Sound(t) => text = Recorded(t)
      BY <2>1, <2>3, <1>0, <1>1 DEF Data, Taken, text
    <3>2. CASE client.by = "stop"
      <4>1. outcome' = [outcome EXCEPT ![t] = text]
        <5>1. StopEnds(t, text)
          BY <3>2, <2>1, <2>3, <1>0 DEF Passes
        <5> QED  BY <5>1 DEF StopEnds
      <4>2. outcome'[t] = text /\ text # None
        BY <4>1, <3>1, <2>1, <1>2, NoText DEF SessionTypes
      <4>3. outcome[t] = None /\ discard[t] = "none"
        BY <3>2, <2>1, <2>3, <1>2, AnsweringIs DEF Control, Active
      <4>4. text = Recorded(t) \/ t \in lost \cup raced
        BY <4>3, <3>1 DEF Sound
      <4>5. ASSUME NEW r \in Sessions, Sound(r)' PROVE Sound(r) /\ Stored(r)' = Stored(r)
        <5>1. r # t
          BY <4>2, <4>5 DEF Sound
        <5> QED  BY <5>1, <4>5, <1>0, <1>2, <1>4 DEF Sound
      <4>6. ASSUME NEW r \in Sessions
            PROVE  \/ outcome'[r] = outcome[r] /\ discard'[r] = discard[r]
                   \/ worker.audio[r] = <<>>
        BY <1>4, <3>1
      <4>7. ASSUME NEW r \in Sessions, outcome'[r] \notin {None, Failed, Skipped}
            PROVE  outcome'[r] = outcome[r] \/ outcome'[r] = Recorded(r) \/ r \in lost \cup raced
        BY <1>4, <4>2, <4>4
      <4> QED  BY <4>5, <4>6, <4>7, <1>0, <1>2, <1>3, SameData
    <3>3. CASE client.by = "discard"
      <4>1. DiscardEnds(t) /\ discard[t] = "want"
        <5>1. c.by = "discard" /\ c.session = t
          BY <3>3, <2>1
        <5>2. DiscardEnds(t)
          BY <5>1, <1>0 DEF Passes
        <5> QED  BY <5>2, <3>3, <2>1, <2>3, AnsweringIs
      <4>2. discard'[t] = "done" /\ outcome' = outcome
        BY <4>1, <2>1, <1>2 DEF DiscardEnds, SessionTypes
      <4>5. ASSUME NEW r \in Sessions, Sound(r)' PROVE Sound(r) /\ Stored(r)' = Stored(r)
        <5>1. r # t
          BY <4>2, <4>5 DEF Sound
        <5> QED  BY <5>1, <4>5, <1>0, <1>2, <1>4 DEF Sound
      <4>6. ASSUME NEW r \in Sessions
            PROVE  \/ outcome'[r] = outcome[r] /\ discard'[r] = discard[r]
                   \/ worker.audio[r] = <<>>
        BY <1>4, <3>1
      <4> QED  BY <4>2, <4>5, <4>6, <1>0, <1>2, <1>3, SameData
    <3> QED  BY <3>2, <3>3, <2>1, <2>3, AnsweringIs
  <2> QED  BY <1>6, <2>2, <2>3
<1> QED  BY <1>5, <1>6

LEMMA HandlesData ==
    ASSUME SessionInv, PipeInv, Data, PipeOnly, faults' = faults, NEW r \in Frames, Handles(r)
    PROVE  Data'
<1> DEFINE t == client.session
<1>0. /\ client # None /\ client' = client /\ lost' = lost
      /\ UNCHANGED <<recording, target, buffer, captured, forwarder, alive, sent, stop, discard,
                     outcome, raced>>
  BY DEF Handles, PipeOnly, audioVars, streamVars
<1>d. Heard /\ Taken /\ Forgotten /\ Whole
  BY DEF Data
<1>1. /\ ~Served /\ Served' /\ Len(replies') >= 1
      /\ \A s \in Sessions :
             IF s = t /\ client.op \in {"append", "transcribe"}
             THEN worker'.audio[s] = IF client.op = "append" THEN worker.audio[s] \o client.body
                                     ELSE <<>>
             ELSE worker'.audio[s] = worker.audio[s]
      /\ client.op = "transcribe" => replies'[Len(replies')].text = worker.audio[t]
  BY HandlesPipe
<1>a. \A s \in Sessions : Stored(s) = Acknowledged(s)
  BY <1>1, StoredIs DEF Answering
<1>b. client.op \in {"append", "transcribe"} => t \in Sessions /\ Placed(client)
  BY <1>0, CallerIs
<1>c. SessionTypes /\ Numbers /\ Control /\ Buffered
  BY DEF SessionInv
<1>s. \A s \in Sessions : (Sound(s)' <=> Sound(s)) /\ Recorded(s)' = Recorded(s)
  BY <1>0 DEF Sound, Recorded
<1>m. \A s \in Sessions : /\ captured[s] \in Nat /\ captured[s] <= MaxSamples[s]
                          /\ sent[s] \in Nat /\ sent[s] <= captured[s]
                          /\ forwarder[s].len \in Nat /\ forwarder[s].len <= captured[s]
                          /\ MaxSamples[s] \in Nat
  BY <1>c, StreamAssumption DEF SessionTypes, Numbers, FwdType
<1>2. Heard'
  <2>1. ASSUME NEW s \in Sessions, Sound(s)
        PROVE  worker'.audio[s] = Cut(s, 0, Stored(s)')
    <3>0. worker.audio[s] = Cut(s, 0, Acknowledged(s))
      BY <2>1, <1>a, <1>d DEF Heard
    <3>1. CASE ~(s = t /\ client.op \in {"append", "transcribe"})
      <4>1. Stored(s)' = Acknowledged(s)
        BY <3>1, <1>0 DEF Stored, Acknowledged
      <4> QED  BY <3>0, <3>1, <4>1, <1>1
    <3>2. CASE s = t /\ client.op = "transcribe"
      <4>1. Stored(s)' = 0
        BY <3>2, <1>0, <1>1 DEF Stored
      <4>2. Cut(s, 0, 0) = <<>>
        <5>1. 0 \in Nat /\ 0 <= MaxSamples[s]
          BY <1>m
        <5> QED  BY <5>1, CutEmpty
      <4> QED  BY <3>2, <4>1, <4>2, <1>1
    <3>3. CASE s = t /\ client.op = "append" /\ client.by = "forwarder"
      <4>1. forwarder[s].at = "send" /\ client.body = forwarder[s].chunk
        BY <3>3, <1>b DEF Placed
      <4>2. forwarder[s].chunk = Cut(s, sent[s], forwarder[s].len)
        BY <4>1, <2>1, <1>c DEF Sound, Buffered
      <4>3. Acknowledged(s) = sent[s] /\ sent[s] <= forwarder[s].len
            /\ forwarder[s].len <= MaxSamples[s]
        BY <4>1, <1>c, <1>m DEF Acknowledged, Control, Numbers
      <4>4. Stored(s)' = forwarder[s].len
        BY <3>3, <1>0, <1>1 DEF Stored
      <4>5. worker'.audio[s] = Cut(s, 0, sent[s]) \o Cut(s, sent[s], forwarder[s].len)
        <5>1. worker'.audio[s] = worker.audio[s] \o client.body
          BY <3>3, <1>1
        <5> QED  BY <3>0, <4>1, <4>2, <4>3, <5>1, Zenon
      <4>6. Cut(s, 0, sent[s]) \o Cut(s, sent[s], forwarder[s].len) = Cut(s, 0, forwarder[s].len)
        BY <4>3, <1>m, CutOn
      <4> QED  BY <4>4, <4>5, <4>6
    <3>4. CASE s = t /\ client.op = "append" /\ client.by = "stop"
      <4>1. /\ stop[s].at = "tail"
            /\ client.body = SubSeq(stop[s].audio, sent[s] + 1, Len(stop[s].audio))
        BY <3>4, <1>b DEF Placed
      <4>2. stop[s].audio = Cut(s, 0, captured[s]) /\ Len(stop[s].audio) = captured[s]
        BY <4>1, DrainedIs
      <4>3. client.body = Cut(s, sent[s], captured[s])
        BY <4>1, <4>2, <1>m, CutWithin
      <4>4. Acknowledged(s) = sent[s]
        BY <4>1 DEF Acknowledged
      <4>5. Stored(s)' = captured[s]
        BY <3>4, <1>0, <1>1 DEF Stored
      <4>6. worker'.audio[s] = Cut(s, 0, sent[s]) \o Cut(s, sent[s], captured[s])
        BY <3>0, <3>4, <4>3, <4>4, <1>1
      <4>7. Cut(s, 0, sent[s]) \o Cut(s, sent[s], captured[s]) = Cut(s, 0, captured[s])
        BY <1>m, CutOn
      <4> QED  BY <4>5, <4>6, <4>7
    <3> QED  BY <3>1, <3>2, <3>3, <3>4, <1>b DEF Placed
  <2> QED  BY <2>1, <1>s DEF Heard, Cut
<1>3. Taken'
  <2>1. ASSUME client.op = "transcribe"
        PROVE  /\ worker'.audio[t] = <<>>
               /\ replies'[Len(replies')].text \in Seq(Samples)
               /\ Sound(t) => replies'[Len(replies')].text = Recorded(t)
    <3>1. worker'.audio[t] = <<>> /\ t \in Sessions
      BY <2>1, <1>1, <1>b
    <3>2. worker.audio[t] \in Seq(Samples)
      BY <3>1 DEF PipeInv, PipeTypes
    <3>3. ASSUME Sound(t) PROVE worker.audio[t] = Recorded(t)
      <4>1. stop[t].at = "transcribe"
        BY <2>1, <3>3, <1>b DEF Placed, Sound
      <4>2. worker.audio[t] = Cut(t, 0, captured[t])
        BY <3>1, <3>3, <4>1, <1>a, <1>d DEF Heard, Acknowledged
      <4> QED  BY <3>1, <4>2, <1>m, RecordedIs
    <3> QED  BY <2>1, <3>1, <3>2, <3>3, <1>1
  <2>2. ASSUME NEW s \in Sessions, s = t, client.op = "transcribe"
        PROVE  /\ worker'.audio[s] = <<>>
               /\ replies'[Len(replies')].text \in Seq(Samples)
               /\ Sound(s)' => replies'[Len(replies')].text = Recorded(s)'
    BY <2>1, <2>2, <1>s
  <2> QED  BY <2>2, <1>0 DEF Taken
<1>4. Forgotten'
  <2>1. ASSUME NEW s \in Sessions, outcome[s] \notin {None, Skipped}, discard[s] # "want"
        PROVE  worker'.audio[s] = <<>>
    <3>1. worker.audio[s] = <<>>
      BY <2>1, <1>d DEF Forgotten
    <3>2. ~(s = t /\ client.op = "append")
      BY <2>1, <1>b, <1>c DEF Placed, Control, Active
    <3> QED  BY <3>1, <3>2, <1>1
  <2> QED  BY <2>1, <1>0 DEF Forgotten
<1>5. Whole'
  BY <1>0, <1>s, <1>d DEF Whole
<1> QED  BY <1>2, <1>3, <1>4, <1>5 DEF Data

LEMMA DataStays ==
    ASSUME SessionInv, PipeInv, Data, SessionInv', [Next]_vars
    PROVE  Data'
<1>1. ASSUME NEW s \in Sessions, Moves(s) PROVE Data'
  BY <1>1, MovesData
<1>2. ASSUME Elsewhere, NEW c \in CallType, Acts(c) PROVE Data'
  BY <1>2, SentData, RespawnedData, DroppedData, RefusedData, AnsweredData, ExpiredData DEF Acts
<1>k. ASSUME UNCHANGED <<replies, worker, lost, audioVars, streamVars, raced>>,
             client' = client \/ ~Served
      PROVE  Data'
  <2>1. Served' <=> Served
    BY <1>k DEF Served
  <2> QED  BY <2>1, <1>k, NoAnswerData, AnswerStaysData
<1>3. CASE Elsewhere /\ Gone
  <2>1. UNCHANGED <<replies, worker, lost, audioVars, streamVars, raced>> /\ ~Served
    BY <1>3 DEF Elsewhere, Gone, SoundsSame, pipeVars, Served
  <2> QED  BY <2>1, <1>k
<1>4. CASE Elsewhere /\ Nothing
  BY <1>4, <1>k DEF Elsewhere, Nothing, SoundsSame, pipeVars
<1>5. CASE WarmUp
  BY <1>5, WarmUpData
<1>6. CASE WorkerServes
  <2>0. PipeOnly /\ faults' = faults
    BY <1>6, WorkerSteps
  <2>1. ASSUME NEW n \in Nat, Ignored(n) PROVE Data'
    <3>1. worker' = worker /\ lost' = lost /\ ~Served /\ ~Served'
      BY <2>0, <2>1, IgnoredPipe DEF Ignored
    <3>2. UNCHANGED <<audioVars, streamVars, raced>>
      BY <2>0 DEF PipeOnly
    <3> QED  BY <3>1, <3>2, NoAnswerData
  <2>2. CASE Obeys
    BY <2>0, <2>2, ObeysPipe, CrashData DEF Obeys, Exits
  <2> QED  BY <1>6, <2>0, <2>1, <2>2, ServesCases, HandlesData
<1>7. CASE WorkerMisreads
  <2>0. PipeOnly /\ faults' = faults /\ Chokes
    BY <1>7, WorkerSteps, MisreadsCases
  <2> QED  BY <2>0, ChokesPipe, CrashData DEF Chokes, Exits
<1>8. CASE WorkerCrashes
  BY <1>8, WorkerCrashesPipe, CrashData DEF WorkerCrashes
<1>9. CASE SkipStale
  <2>1. /\ worker' = worker /\ lost' = lost /\ client' = client
        /\ UNCHANGED <<audioVars, streamVars, raced>>
    BY <1>9 DEF SkipStale
  <2>2. (Served' <=> Served) /\ Len(replies') = Len(replies) - 1
    BY <1>9, SkipPipe
  <2>3. ASSUME Served PROVE replies'[Len(replies')] = replies[Len(replies)]
    <3>1. PICK i \in DOMAIN replies' : replies'[i].id # "stale"
      BY <2>2, <2>3 DEF Served
    <3>2. i = Len(replies') /\ replies'[i] = replies[i + 1] /\ Len(replies) \in Nat
      <4>1. Replied' /\ replies'[i] = replies[i + 1]
        BY <3>1, <1>9, SkipPipe DEF PipeInv
      <4>2. Len(replies) \in Nat
        BY DEF PipeInv, PipeTypes
      <4> QED  BY <3>1, <4>1, <4>2 DEF Replied
    <3>3. i + 1 = Len(replies)
      BY <3>2, <2>2
    <3> QED  BY <3>2, <3>3
  <2> QED  BY <2>1, <2>2, <2>3, AnswerStaysData
<1>10. CASE SwitchModel
  BY <1>10, <1>k DEF SwitchModel, pipeVars
<1>11. CASE UNCHANGED vars
  BY <1>11, <1>k DEF vars, pipeVars
<1> QED  BY <1>1, <1>2, <1>3, <1>4, <1>5, <1>6, <1>7, <1>8, <1>9, <1>10, <1>11, Steps

-----------------------------------------------------------------------------
(* Without a fault *)

LEMMA CalmWhen ==
    ASSUME PipeInv, Calm, faults' \in {faults, faults + 1}, faults' = 0
    PROVE  /\ faults = 0 /\ lost = {} /\ ~switching
           /\ link.up <=> worker.alive
           /\ link.model \in {None, setting}
           /\ \A s \in Sessions : target[s] \in {None, setting}
           /\ \A i \in DOMAIN requests : requests[i].id # "stale"
           /\ \A i \in DOMAIN replies : replies[i].id # "stale"
           /\ client # None => client.op # "shutdown" /\ (requests # <<>> \/ replies # <<>>)
<1>1. faults = 0
  BY DEF PipeInv, PipeTypes
<1> QED  BY <1>1 DEF Calm

(* A worker that is dead has nothing to lose. *)
LEMMA NoLoss ==
    ASSUME PipeInv, ~worker.alive
    PROVE  Losing = {}
  BY DEF PipeInv, Ends, Losing, NoAudio

LEMMA ActsCalm ==
    ASSUME SessionInv, PipeInv, Calm, Elsewhere, NEW c \in CallType, Acts(c)
    PROVE  Calm'
<1>1. SUFFICES ASSUME faults' = 0
               PROVE  /\ lost' = {} /\ ~switching'
                      /\ link'.up <=> worker'.alive
                      /\ link'.model \in {None, setting'}
                      /\ \A s \in Sessions : target'[s] \in {None, setting'}
                      /\ \A i \in DOMAIN requests' : requests'[i].id # "stale"
                      /\ \A i \in DOMAIN replies' : replies'[i].id # "stale"
                      /\ client' # None => /\ client'.op # "shutdown"
                                           /\ requests' # <<>> \/ replies' # <<>>
  BY DEF Calm
<1>e. /\ setting' = setting /\ switching' \in {switching, FALSE} /\ faults' \in {faults, faults + 1}
      /\ target' = target
  BY DEF Elsewhere, SoundsSame, audioVars
<1>c. /\ faults = 0 /\ lost = {} /\ ~switching
      /\ link.up <=> worker.alive
      /\ link.model \in {None, setting}
      /\ \A s \in Sessions : target[s] \in {None, setting}
      /\ \A i \in DOMAIN requests : requests[i].id # "stale"
      /\ \A i \in DOMAIN replies : replies[i].id # "stale"
      /\ client # None => client.op # "shutdown" /\ (requests # <<>> \/ replies # <<>>)
  BY <1>1, <1>e, CalmWhen
<1>s. ~switching' /\ \A s \in Sessions : target'[s] \in {None, setting'}
  <2>1. ~switching'
    BY <1>c, <1>e, Zenon
  <2>2. \A s \in Sessions : target'[s] \in {None, setting'}
    BY <1>c, <1>e
  <2> QED  BY <2>1, <2>2
<1>2. ASSUME NEW op, NEW body, Sent(c, op, body)
      PROVE  /\ lost' = lost /\ link' = link /\ worker' = worker /\ replies' = replies
             /\ \A i \in DOMAIN requests' : requests'[i].id # "stale"
             /\ requests' # <<>> /\ client'.op # "shutdown"
  <2>1. /\ worker.alive /\ Placed(c) /\ (op = "shutdown" => switching)
        /\ client' = [c EXCEPT !.op = op]
        /\ requests' = Append(requests, [op |-> op, id |-> IdOf(c), body |-> body])
        /\ UNCHANGED <<link, replies, worker, lost>>
    BY <1>2, <1>c DEF Sent, Send
  <2>2. client'.op = op /\ op # "shutdown"
    BY <2>1, <1>c DEF CallType
  <2>3. IdOf(c) # "stale"
    BY <2>1, StreamAssumption DEF IdOf, Placed
  <2>4. requests \in Seq(Frames)
    BY DEF PipeInv, PipeTypes
  <2> DEFINE f == [op |-> op, id |-> IdOf(c), body |-> body]
  <2>5. f.id = IdOf(c) /\ requests' = Append(requests, f)
    BY <2>1
  <2> HIDE DEF f
  <2>6. requests' # <<>> /\ \A i \in DOMAIN requests' : requests'[i].id # "stale"
    <3>1. /\ DOMAIN requests' = 1..(Len(requests) + 1) /\ Len(requests) \in Nat
          /\ DOMAIN requests = 1..Len(requests)
          /\ requests'[Len(requests) + 1] = f
          /\ \A i \in 1..Len(requests) : requests'[i] = requests[i]
          /\ Len(requests') = Len(requests) + 1
      BY <2>4, <2>5
    <3>2. ASSUME NEW i \in DOMAIN requests' PROVE requests'[i].id # "stale"
      <4>1. CASE i \in 1..Len(requests)
        BY <4>1, <3>1, <1>c
      <4>2. CASE i = Len(requests) + 1
        BY <4>2, <3>1, <2>3, <2>5
      <4> QED  BY <4>1, <4>2, <3>1
    <3>3. requests' # <<>>
      BY <3>1
    <3> QED  BY <3>2, <3>3
  <2> QED  BY <2>1, <2>2, <2>6
<1>3. CASE Respawned(c)
  <2>1. /\ ~worker.alive /\ Spawn(target[c.session]) /\ client' = None /\ c.session \in Sessions
    BY <1>1, <1>3 DEF Respawned, Harmless, Due, Placed
  <2> QED  BY <2>1, <1>c, <1>e, <1>s, NoLoss DEF Spawn
<1>4. CASE Dropped(c)
  <2>1. /\ ~worker.alive /\ Drop /\ client' = None
    BY <1>1, <1>4 DEF Dropped, Harmless
  <2> QED  BY <2>1, <1>c, <1>e, <1>s, NoLoss DEF Drop, Down, Dead
<1>5. CASE Refused(c)
  BY <1>5, <1>c, <1>e, <1>s DEF Refused, pipeVars
<1>6. CASE Answered(c)
  <2>1. /\ client # None /\ client' = None /\ UNCHANGED <<requests, worker, lost>>
        /\ link' = IF client.op = "hello" THEN [link EXCEPT !.model = target[client.session]] ELSE link
        /\ replies' = <<>> /\ requests = <<>>
    BY <1>6, AnswerIsLast DEF Answered
  <2>2. link \in [up : BOOLEAN, model : Models \cup {None}]
    BY DEF PipeInv, PipeTypes
  <2>3. link'.up = link.up /\ link'.model \in {None, setting}
    <3>1. client.op = "hello" => target[client.session] \in {None, setting}
      BY <2>1, <1>c, CallerIs
    <3> QED  BY <2>1, <2>2, <3>1, <1>c
  <2> QED  BY <2>1, <2>3, <1>c, <1>e, <1>s
<1>7. CASE Expired(c)
  BY <1>1, <1>7 DEF Expired
<1> QED  BY <1>2, <1>3, <1>4, <1>5, <1>6, <1>7, <1>c, <1>e, <1>s DEF Acts

LEMMA CalmStays ==
    ASSUME SessionInv, PipeInv, Calm, [Next]_vars
    PROVE  Calm'
<1>1. ASSUME NEW s \in Sessions, Moves(s) PROVE Calm'
  <2>1. UNCHANGED <<setting, switching, client, link, requests, replies, worker, lost, faults>>
    BY <1>1, MovesFrame DEF pipeVars
  <2>2. \A r \in Sessions : target'[r] \in {target[r], setting}
    BY <1>1 DEF Moves, Start, Capture, StopTap, Stop, Cancel, Poll, Peek, Drain, Discard, audioVars,
                SessionInv, SessionTypes
  <2> QED  BY <2>1, <2>2 DEF Calm
<1>2. ASSUME Elsewhere, NEW c \in CallType, Acts(c) PROVE Calm'
  BY <1>2, ActsCalm
<1>3. CASE Elsewhere /\ (Gone \/ Nothing)
  <2>1. /\ setting' = setting /\ switching' \in {switching, FALSE}
        /\ faults' \in {faults, faults + 1}
        /\ target' = target /\ UNCHANGED <<link, requests, replies, worker, lost>>
        /\ client' \in {client, None}
    BY <1>3 DEF Elsewhere, SoundsSame, audioVars, Gone, Nothing, pipeVars
  <2>2. faults' = 0 => faults = 0
    BY <2>1 DEF PipeInv, PipeTypes
  <2> QED  BY <2>1, <2>2, Zenon DEF Calm
<1>4. CASE WarmUp
  <2>1. /\ client' = client /\ client = None /\ ~link.up /\ Spawn(None)
        /\ UNCHANGED <<setting, switching, faults, target>>
    BY <1>4, WarmUpIs DEF SoundsSame, audioVars
  <2>2. Losing = {}
    BY <2>1, NoLoss DEF PipeInv, Ends
  <2> QED  BY <2>1, <2>2 DEF Calm, Spawn
<1>5. CASE WorkerServes
  <2>0. PipeOnly /\ faults' = faults /\ requests # <<>>
    BY <1>5, WorkerSteps DEF WorkerServes
  <2>1. SUFFICES ASSUME faults = 0 PROVE Calm'
    BY <2>0 DEF Calm
  <2>2. /\ \A i \in DOMAIN replies : replies[i].id # "stale"
        /\ \A i \in DOMAIN requests : requests[i].id # "stale"
        /\ link.up <=> worker.alive
        /\ client # None => client.op # "shutdown"
    BY <2>1 DEF Calm
  <2>3. Head(requests).id # "stale"
    BY <2>0, <2>2, HeadIs
  <2>4. PICK r \in Frames : Handles(r)
    <3>1. \A n \in Nat : ~Ignored(n)
      BY <2>3 DEF Ignored
    <3>2. ~Obeys
      BY <2>2 DEF Obeys
    <3> QED  BY <1>5, <3>1, <3>2, ServesCases
  <2>5. /\ worker'.alive /\ Served' /\ Len(replies') >= 1
        /\ \A i \in DOMAIN replies' : replies'[i].id # "stale"
    BY <2>0, <2>2, <2>4, HandlesPipe
  <2>6. requests' = <<>> /\ lost' = lost /\ worker.alive
    BY <2>4 DEF Handles
  <2>7. /\ UNCHANGED <<setting, switching, client, link, target>>
    BY <2>0 DEF PipeOnly, audioVars
  <2>8. replies' # <<>>
    BY <2>5 DEF Served
  <2>9. /\ lost = {} /\ ~switching /\ link.up /\ link.model \in {None, setting}
        /\ \A s \in Sessions : target[s] \in {None, setting}
        /\ client # None => client.op # "shutdown"
    BY <2>1, <2>6 DEF Calm
  <2>10. ~switching' /\ link'.up
    BY <2>7, <2>9, Zenon
  <2>11. /\ lost' = {} /\ link'.model \in {None, setting'}
         /\ \A s \in Sessions : target'[s] \in {None, setting'}
         /\ client' # None => client'.op # "shutdown"
         /\ \A i \in DOMAIN requests' : requests'[i].id # "stale"
    BY <2>6, <2>7, <2>9
  <2> QED  BY <2>5, <2>8, <2>10, <2>11, Zenon DEF Calm
<1>6. CASE WorkerMisreads
  <2>1. /\ PipeOnly /\ faults' = faults /\ Len(requests) > 1 /\ requests # <<>>
        /\ Head(requests).id = "stale"
    <3>1. /\ PipeOnly /\ faults' = faults /\ Chokes
      BY <1>6, WorkerSteps, MisreadsCases
    <3>2. Len(requests) \in Nat /\ Len(requests) > 1 /\ requests # <<>>
      BY <3>1 DEF Chokes, Exits, PipeInv, PipeTypes
    <3>3. \A n \in Nat : n > 1 => n # 1
      OBVIOUS
    <3>4. Len(requests) # 1
      BY <3>2, <3>3, Zenon
    <3> QED  BY <3>1, <3>2, <3>4, HeadIs, Zenon
  <2>2. faults # 0
    BY <2>1, HeadIs DEF Calm
  <2> QED  BY <2>1, <2>2 DEF Calm
<1>7. CASE WorkerCrashes \/ SwitchModel
  <2>1. faults' = faults + 1 /\ faults \in Nat
    BY <1>7 DEF WorkerCrashes, SwitchModel, Fault, PipeInv, PipeTypes
  <2>2. faults' # 0
    BY <2>1
  <2> QED  BY <2>2 DEF Calm
<1>8. CASE SkipStale
  <2>1. faults' = faults /\ replies[1].id = "stale" /\ 1 \in DOMAIN replies
    BY <1>8, SkipPipe DEF SkipStale, PipeInv, PipeTypes
  <2>2. faults # 0
    BY <2>1 DEF Calm
  <2> QED  BY <2>1, <2>2 DEF Calm
<1>9. CASE UNCHANGED vars
  BY <1>9 DEF vars, audioVars, pipeVars, Calm
<1> QED  BY <1>1, <1>2, <1>3, <1>4, <1>5, <1>6, <1>7, <1>8, <1>9, Steps

-----------------------------------------------------------------------------
(* The invariant, and what it says *)

Inv == SessionInv /\ PipeInv /\ Data /\ Calm

LEMMA InitInv == Init => Inv
<1> SUFFICES ASSUME Init PROVE Inv
  OBVIOUS
<1>m. (CHOOSE m \in Models : TRUE) \in Models
  BY StreamAssumption
<1>0. /\ setting \in Models /\ switching = FALSE /\ recording = None
      /\ target = [s \in Sessions |-> None]
      /\ buffer = <<>> /\ captured = [s \in Sessions |-> 0]
      /\ forwarder = [s \in Sessions |-> [at |-> "none", len |-> 0, chunk |-> <<>>]]
      /\ alive = [s \in Sessions |-> FALSE] /\ sent = [s \in Sessions |-> 0]
      /\ stop = [s \in Sessions |-> [at |-> "none", audio |-> <<>>]]
      /\ discard = [s \in Sessions |-> "none"]
      /\ client = None /\ link = [up |-> FALSE, model |-> None]
      /\ requests = <<>> /\ replies = <<>>
      /\ worker = [alive |-> FALSE, model |-> None, audio |-> NoAudio]
      /\ outcome = [s \in Sessions |-> None] /\ faults = 0 /\ lost = {} /\ raced = {}
  BY <1>m DEF Init, Forwarding, Stopping, Down, Dead
<1>e. <<>> \in Seq(Samples) /\ NoAudio = [s \in Sessions |-> <<>>]
  BY DEF NoAudio
<1>n. \A s \in Sessions : MaxSamples[s] \in Nat /\ s # None
  BY StreamAssumption
<1>1. SessionTypes
  BY <1>0, <1>e DEF SessionTypes, FwdType, StopType
<1>2. Numbers
  BY <1>0, <1>n DEF Numbers, Active
<1>3. Control
  BY <1>0, <1>n DEF Control, Active
<1>4. Buffered
  BY <1>0, <1>n DEF Buffered, Busy
<1>5. PipeTypes
  <2>1. /\ setting \in Models /\ client \in CallType \cup {None} /\ faults \in Nat
        /\ lost \subseteq Sessions
    BY <1>0
  <2>2. switching \in BOOLEAN
    BY <1>0, Zenon
  <2>3. link \in [up : BOOLEAN, model : Models \cup {None}]
    BY <1>0
  <2>4. requests \in Seq(Frames) /\ replies \in Seq(Answers_)
    BY <1>0
  <2>5. NoAudio \in [Sessions -> Seq(Samples)]
    BY <1>e
  <2>6. worker \in [alive : BOOLEAN, model : Models \cup {None},
                   audio : [Sessions -> Seq(Samples)]]
    BY <1>0, <2>5
  <2> QED  BY <2>1, <2>2, <2>3, <2>4, <2>6, Zenon DEF PipeTypes
<1>6. Caller /\ Ends /\ Asked /\ Replied /\ ~Served
  BY <1>0 DEF Caller, Ends, Asked, Replied, Served
<1>7. Heard
  <2>1. ASSUME NEW s \in Sessions PROVE worker.audio[s] = Cut(s, 0, Stored(s))
    <3>1. Stored(s) = 0
      BY <1>0, <1>6 DEF Stored
    <3>2. 0 \in Nat /\ 0 <= MaxSamples[s]
      BY <1>n
    <3>3. Cut(s, 0, 0) = <<>>
      BY <3>2, CutEmpty
    <3> QED  BY <3>1, <3>3, <1>0, <1>e
  <2> QED  BY <2>1 DEF Heard
<1>8. Taken /\ Forgotten /\ Whole
  BY <1>0, <1>6 DEF Taken, Forgotten, Whole
<1>9. Calm
  BY <1>0 DEF Calm
<1> QED  BY <1>1, <1>2, <1>3, <1>4, <1>5, <1>6, <1>7, <1>8, <1>9 DEF Inv, SessionInv, PipeInv, Data

LEMMA InvStays == Inv /\ [Next]_vars => Inv'
<1> SUFFICES ASSUME Inv, [Next]_vars PROVE Inv'
  OBVIOUS
<1>0. SessionInv /\ PipeInv /\ Data /\ Calm
  BY DEF Inv
<1>1. SessionInv'
  BY <1>0, SessionStays DEF Data
<1> QED  BY <1>0, <1>1, PipeStays, DataStays, CalmStays DEF Inv

LEMMA Invariance == Spec => []Inv
  BY InitInv, InvStays, PTL DEF Spec

(* The types: where every thread of a session can be, that what is sent is *)
(* recorded, that what the worker has is recorded audio, and that no       *)
(* stream is left of a worker that is gone (voice/session.rs,              *)
(* voice/worker_client.rs).                                                *)
THEOREM StreamTyped == Spec => []TypeOK
<1>1. Inv => TypeOK
  <2> SUFFICES ASSUME Inv PROVE TypeOK
    OBVIOUS
  <2>0. SessionTypes /\ Numbers /\ PipeTypes /\ Ends
    BY DEF Inv, SessionInv, PipeInv
  <2>1. Range(buffer) \subseteq Samples
    BY <2>0 DEF SessionTypes, Range
  <2>2. ASSUME NEW s \in Sessions PROVE Range(worker.audio[s]) \subseteq Samples
    <3>1. worker.audio[s] \in Seq(Samples)
      BY <2>0 DEF PipeTypes
    <3> QED  BY <3>1 DEF Range
  <2>3. ASSUME NEW s \in Sessions
        PROVE  /\ forwarder[s].at \in {"none", "ensure", "top", "peek", "send", "done"}
               /\ stop[s].at \in {"none", "join", "ensure", "tail", "transcribe", "done"}
               /\ discard[s] \in {"none", "join", "want", "done"}
               /\ sent[s] <= captured[s] /\ captured[s] <= MaxSamples[s]
    BY <2>0 DEF SessionTypes, Numbers, FwdType, StopType
  <2>4. ~link.up => ~worker.alive /\ requests = <<>> /\ replies = <<>>
    BY <2>0 DEF Ends
  <2>5. /\ setting \in Models /\ switching \in BOOLEAN
        /\ recording \in Sessions \cup {None}
        /\ target \in [Sessions -> Models \cup {None}]
        /\ link \in [up : BOOLEAN, model : Models \cup {None}]
        /\ lost \subseteq Sessions /\ raced \subseteq Sessions
    BY <2>0 DEF SessionTypes, PipeTypes
  <2> QED  BY <2>1, <2>2, <2>3, <2>4, <2>5 DEF TypeOK
<1> QED  BY <1>1, Invariance, PTL

(* A transcript is of all that was recorded, each sample once and in order, *)
(* but of a session of which a chunk was taken while it grew, or that lost  *)
(* audio with a worker, which takes a fault (voice/session.rs: the chunks   *)
(* and the tail; voice/worker_client.rs: transact).                         *)
THEOREM TranscriptIsWhole == Spec => []TranscriptWholeOnlyIf
<1>1. Inv => TranscriptWholeOnlyIf
  BY DEF Inv, Data, Whole, Calm, PipeInv, PipeTypes, TranscriptWholeOnlyIf
<1> QED  BY <1>1, Invariance, PTL

(* Of a session that is over the worker has nothing left, unless it was     *)
(* skipped, or is still to be forgotten (voice/session.rs: cancel and the   *)
(* error paths; voice/worker.rs: transcribe).                               *)
THEOREM NothingLeftOver == Spec => []LeftoverOnlyIfSkipped
<1>1. Inv => LeftoverOnlyIfSkipped
  BY DEF Inv, Data, Forgotten, LeftoverOnlyIfSkipped, Ended
<1> QED  BY <1>1, Invariance, PTL

-----------------------------------------------------------------------------
(* What Dictation promises *)

LEMMA GoesIs ==
    ASSUME NEW s \in Sessions, NEW to, Phase(s)' = to,
           \A r \in Sessions : r # s => Phase(r)' = Phase(r)
    PROVE  Promise!Goes(s, Phase(s), to)
  BY DEF Promise!Goes

LEMMA PhaseSame ==
    ASSUME \A r \in Sessions : Phase(r)' = Phase(r)
    PROVE  UNCHANGED [r \in Sessions |-> Phase(r)]
  OBVIOUS

(* A step that changes none of the four that tell how far a recording is *)
LEMMA PhaseRests ==
    ASSUME NEW r \in Sessions, outcome'[r] = outcome[r], target'[r] = target[r],
           (recording' = r) <=> (recording = r),
           (discard'[r] = "none") <=> (discard[r] = "none")
    PROVE  Phase(r)' = Phase(r)
  BY DEF Phase, Ended

(* The steps that change at most what came to harm *)
LEMMA OnlyHarm ==
    ASSUME \A r \in Sessions : Phase(r)' = Phase(r), captured' = captured, outcome' = outcome,
           lost \cup raced \subseteq lost' \cup raced'
    PROVE  Promise!Next
<1>1. Promise!HarmDone
  BY PhaseSame DEF Promise!HarmDone, Promise!Harm
<1> QED  BY <1>1 DEF Promise!Next

(* The steps that end a recording *)
LEMMA EndsIs ==
    ASSUME NEW s \in Sessions, NEW with, with # None, outcome' = [outcome EXCEPT ![s] = with],
           SessionTypes, captured' = captured, target' = target,
           \A r \in Sessions : r # s => ((recording' = r) <=> (recording = r)),
           \A r \in Sessions : r # s => ((discard'[r] = "none") <=> (discard[r] = "none")),
           lost \cup raced \subseteq lost' \cup raced'
    PROVE  Promise!Ends(s, Phase(s), with)
<1>1. outcome'[s] = with /\ \A r \in Sessions : r # s => outcome'[r] = outcome[r]
  BY DEF SessionTypes
<1>2. Phase(s)' = "ended"
  BY <1>1 DEF Phase, Ended
<1>3. \A r \in Sessions : r # s => Phase(r)' = Phase(r)
  BY <1>1, PhaseRests
<1>4. Promise!Goes(s, Phase(s), "ended")
  BY <1>2, <1>3, GoesIs
<1> QED  BY <1>4 DEF Promise!Ends, Promise!Harm

LEMMA MovesPromise ==
    ASSUME SessionInv, setting \in Models, NEW s \in Sessions, Moves(s)
    PROVE  Promise!Next
<1>0. /\ SessionTypes /\ Control /\ lost' = lost
      /\ None # Failed /\ None # Skipped /\ Failed # Skipped /\ s # None /\ setting # None
  BY StreamAssumption, MovesFrame DEF SessionInv, pipeVars
<1>1. CASE Start(s)
  <2>1. /\ recording = None /\ target[s] = None
        /\ \A r \in Sessions : target[r] # None => (Ended(r) \/ discard[r] # "none")
        /\ recording' = s /\ target' = [target EXCEPT ![s] = setting]
        /\ UNCHANGED <<captured, discard, outcome, raced>>
    BY <1>1 DEF Start
  <2>2. \A r \in Sessions : r # None
    BY StreamAssumption
  <2>3. \A r \in Sessions : Phase(r) \in {"new", "cancelled", "ended"}
    BY <2>1, <2>2 DEF Phase
  <2>4. /\ outcome[s] = None /\ target'[s] = setting
        /\ \A r \in Sessions : r # s => target'[r] = target[r]
    BY <2>1, <1>0 DEF Control, SessionTypes
  <2>5. Phase(s) = "new" /\ Phase(s)' = "recording"
    BY <2>1, <2>4, <1>0 DEF Phase, Ended
  <2>6. \A r \in Sessions : r # s => Phase(r)' = Phase(r)
    BY <2>1, <2>2, <2>4, PhaseRests
  <2>7. Promise!Goes(s, "new", "recording")
    BY <2>5, <2>6, GoesIs
  <2>8. Promise!Begin(s)
    BY <2>1, <2>3, <2>7, <1>0 DEF Promise!Begin
  <2> QED  BY <2>8 DEF Promise!Next
<1>2. CASE Capture(s)
  <2>1. /\ UNCHANGED <<recording, target, discard, outcome, raced>> /\ recording = s
        /\ captured' = [captured EXCEPT ![s] = @ + 1]
    BY <1>2 DEF Capture, streamVars
  <2>2. Phase(s) = "recording"
    BY <2>1, <1>0 DEF Phase, Ended, Control
  <2>3. Promise!Say(s)
    BY <2>1, <2>2, <1>0, PhaseSame, PhaseRests DEF Promise!Say
  <2> QED  BY <2>3 DEF Promise!Next
<1>3. CASE StopTap(s)
  <2>1. /\ recording = s /\ recording' = None /\ outcome' = [outcome EXCEPT ![s] = Skipped]
        /\ UNCHANGED <<target, captured, discard, raced>>
    BY <1>3 DEF StopTap
  <2>2. Phase(s) = "recording"
    BY <2>1, <1>0 DEF Phase, Ended, Control
  <2>3. \A r \in Sessions : r # s => ((recording' = r) <=> (recording = r))
    BY <2>1, StreamAssumption
  <2>4. Promise!Ends(s, "recording", Skipped)
    BY <2>1, <2>2, <2>3, <1>0, EndsIs
  <2> QED  BY <2>4 DEF Promise!Skip, Promise!Next
<1>4. CASE Stop(s)
  <2>1. /\ recording = s /\ recording' = None
        /\ UNCHANGED <<target, captured, discard, outcome, raced>>
    BY <1>4 DEF Stop
  <2>2. target[s] # None /\ outcome[s] = None /\ discard[s] = "none"
    BY <2>1, <1>0 DEF Control
  <2>3. Phase(s) = "recording" /\ Phase(s)' = "stopped"
    BY <2>1, <2>2, <1>0 DEF Phase, Ended
  <2>4. \A r \in Sessions : r # s => Phase(r)' = Phase(r)
    BY <2>1, PhaseRests, StreamAssumption
  <2>5. Promise!Stop(s)
    BY <2>1, <2>3, <2>4, <1>0, GoesIs DEF Promise!Stop
  <2> QED  BY <2>5 DEF Promise!Next
<1>5. CASE Cancel(s)
  <2>1. /\ recording = s /\ recording' = None /\ discard' = [discard EXCEPT ![s] = "join"]
        /\ UNCHANGED <<target, captured, outcome, raced>>
    BY <1>5 DEF Cancel
  <2>2. /\ target[s] # None /\ outcome[s] = None /\ discard'[s] = "join"
        /\ \A r \in Sessions : r # s => discard'[r] = discard[r]
    BY <2>1, <1>0 DEF Control, SessionTypes
  <2>3. Phase(s) = "recording" /\ Phase(s)' = "cancelled"
    BY <2>1, <2>2, <1>0 DEF Phase, Ended
  <2>4. \A r \in Sessions : r # s => Phase(r)' = Phase(r)
    BY <2>1, <2>2, PhaseRests, StreamAssumption
  <2>5. Promise!Cancel(s)
    BY <2>1, <2>3, <2>4, <1>0, GoesIs DEF Promise!Cancel
  <2> QED  BY <2>5 DEF Promise!Next
<1>6. CASE Poll(s) \/ Peek(s)
  <2>1. UNCHANGED <<recording, target, captured, discard, outcome>> /\ raced \subseteq raced'
    BY <1>6 DEF Poll, Peek, audioVars
  <2>2. \A r \in Sessions : Phase(r)' = Phase(r)
    BY <2>1, PhaseRests
  <2> QED  BY <2>1, <2>2, <1>0, OnlyHarm
<1>7. CASE Drain(s)
  <2>1. /\ stop[s].at = "join"
        /\ outcome' = outcome \/ outcome' = [outcome EXCEPT ![s] = Skipped]
        /\ UNCHANGED <<recording, target, captured, discard, raced>>
    BY <1>7 DEF Drain
  <2>2. CASE outcome' = outcome
    <3>1. \A r \in Sessions : Phase(r)' = Phase(r)
      BY <2>1, <2>2, PhaseRests
    <3> QED  BY <2>1, <2>2, <3>1, <1>0, OnlyHarm
  <2>3. CASE outcome' = [outcome EXCEPT ![s] = Skipped]
    <3>1. /\ outcome[s] = None /\ discard[s] = "none" /\ target[s] # None /\ recording # s
      BY <2>1, <1>0 DEF Control, Active
    <3>2. Phase(s) = "stopped"
      BY <3>1 DEF Phase, Ended
    <3>3. Promise!Ends(s, "stopped", Skipped)
      BY <2>1, <2>3, <3>2, <1>0, EndsIs
    <3> QED  BY <3>3 DEF Promise!Skip, Promise!Next
  <2> QED  BY <2>1, <2>2, <2>3
<1>8. CASE Discard(s)
  <2>1. /\ discard[s] = "join" /\ discard' = [discard EXCEPT ![s] = "want"]
        /\ outcome' = [outcome EXCEPT ![s] = Failed]
        /\ UNCHANGED <<recording, target, captured, raced>>
    BY <1>8 DEF Discard, audioVars
  <2>2. outcome[s] = None /\ target[s] # None /\ recording # s
    BY <2>1, <1>0 DEF Control
  <2>3. Phase(s) = "cancelled"
    BY <2>1, <2>2 DEF Phase, Ended
  <2>4. \A r \in Sessions : r # s => discard'[r] = discard[r]
    BY <2>1, <1>0 DEF SessionTypes
  <2>5. Promise!Ends(s, "cancelled", Failed)
    BY <2>1, <2>3, <2>4, <1>0, EndsIs
  <2> QED  BY <2>5 DEF Promise!Fail, Promise!Next
<1> QED  BY <1>1, <1>2, <1>3, <1>4, <1>5, <1>6, <1>7, <1>8 DEF Moves

(* A call that returns ends a recording in an error ... *)
LEMMA FailsPromise ==
    ASSUME SessionInv, SoundsSame, NEW c \in CallType, Placed(c), Fails(c), lost \subseteq lost'
    PROVE  Promise!Next
<1>0. /\ SessionTypes /\ Control /\ UNCHANGED <<recording, target, captured, raced>>
      /\ None # Failed
  BY StreamAssumption DEF SessionInv, SoundsSame, audioVars
<1>1. CASE c.by = "stop"
  <2>1. PICK u \in Sessions : u = c.session
    BY <1>1 DEF Placed
  <2>2. stop[u].at \in Active /\ stop[u].at # "join"
    BY <1>1, <2>1 DEF Placed, Active
  <2>3. StopEnds(u, Failed)
    BY <1>1, <2>1 DEF Fails
  <2>4. outcome[u] = None /\ discard[u] = "none" /\ target[u] # None /\ recording # u
    BY <2>2, <1>0 DEF Control, Active
  <2>5. Phase(u) = "stopped"
    BY <2>4 DEF Phase, Ended
  <2>6. Promise!Ends(u, "stopped", Failed)
    BY <2>3, <2>5, <1>0, EndsIs DEF StopEnds
  <2> QED  BY <2>6 DEF Promise!Fail, Promise!Next
<1>2. CASE c.by # "stop"
  <2>1. ASSUME NEW r \in Sessions
        PROVE  /\ outcome'[r] = outcome[r]
               /\ (discard'[r] = "none") <=> (discard[r] = "none")
    BY <1>2, FailedIs
  <2>2. outcome' = outcome
    BY <1>2 DEF Fails, FwdEnds, DiscardEnds, streamVars
  <2>3. \A r \in Sessions : Phase(r)' = Phase(r)
    BY <2>1, <1>0, PhaseRests
  <2> QED  BY <2>2, <2>3, <1>0, OnlyHarm
<1> QED  BY <1>1, <1>2

(* ... or in its text, which is of all that was said unless the recording *)
(* came to harm; or it leaves all recordings where they are.              *)
LEMMA PassesPromise ==
    ASSUME SessionInv, SoundsSame, NEW c \in CallType, Placed(c), NEW text, Passes(c, text),
           lost \subseteq lost',
           c.op = "transcribe" => /\ text \in Seq(Samples)
                                  /\ Sound(c.session) => text = Recorded(c.session)
    PROVE  Promise!Next
<1>0. /\ SessionTypes /\ Control /\ UNCHANGED <<recording, target, captured, raced>>
  BY DEF SessionInv, SoundsSame, audioVars
<1>1. CASE c.by = "stop" /\ c.op = "transcribe"
  <2>1. PICK u \in Sessions : u = c.session
    BY <1>1 DEF Placed
  <2>2. stop[u].at = "transcribe"
    BY <1>1, <2>1 DEF Placed
  <2>3. StopEnds(u, text)
    BY <1>1, <2>1 DEF Passes
  <2>4. outcome[u] = None /\ discard[u] = "none" /\ target[u] # None /\ recording # u
    BY <2>2, <1>0 DEF Control, Active
  <2>5. Phase(u) = "stopped"
    BY <2>4 DEF Phase, Ended
  <2>6. text \notin {None, Failed, Skipped}
    BY <1>1, NoText
  <2>7. Promise!Ends(u, "stopped", text)
    BY <2>3, <2>5, <2>6, <1>0, EndsIs DEF StopEnds
  <2>8. CASE text = Recorded(u)
    <3>1. Promise!All(u) = Recorded(u)
      BY DEF Promise!All, Recorded
    <3>2. Promise!Deliver(u)
      BY <2>7, <2>8, <3>1 DEF Promise!Deliver
    <3> QED  BY <3>2 DEF Promise!Next
  <2>9. CASE text # Recorded(u)
    <3>1. u \in lost \cup raced
      BY <1>1, <2>1, <2>4, <2>9 DEF Sound
    <3>2. outcome'[u] = text
      BY <2>3, <1>0 DEF StopEnds, SessionTypes
    <3>3. Promise!Garble(u)
      BY <2>6, <2>7, <3>1, <3>2 DEF Promise!Garble
    <3> QED  BY <3>3 DEF Promise!Next
  <2> QED  BY <2>8, <2>9
<1>2. CASE ~(c.by = "stop" /\ c.op = "transcribe")
  <2>1. outcome' = outcome
    BY <1>2 DEF Passes, FwdGoes, StopGoes, DiscardEnds, streamVars
  <2>2. ASSUME NEW r \in Sessions PROVE (discard'[r] = "none") <=> (discard[r] = "none")
    <3>1. discard' = discard \/ (c.by = "discard" /\ DiscardEnds(c.session))
      BY <1>2 DEF Passes, FwdGoes, StopGoes, streamVars
    <3>2. ASSUME c.by = "discard", DiscardEnds(c.session)
          PROVE  (discard'[r] = "none") <=> (discard[r] = "none")
      <4>1. c.session \in Sessions /\ discard[c.session] = "want"
        BY <3>2 DEF Placed
      <4> QED  BY <3>2, <4>1, <1>0 DEF DiscardEnds, SessionTypes
    <3> QED  BY <3>1, <3>2
  <2>3. \A r \in Sessions : Phase(r)' = Phase(r)
    BY <2>1, <2>2, <1>0, PhaseRests
  <2> QED  BY <2>1, <2>3, <1>0, OnlyHarm
<1> QED  BY <1>1, <1>2

LEMMA ActsPromise ==
    ASSUME SessionInv, PipeInv, Taken, Elsewhere, NEW c \in CallType, Acts(c)
    PROVE  Promise!Next
<1>0. SoundsSame
  BY DEF Elsewhere
<1>1. ASSUME NEW op, NEW body, Sent(c, op, body) PROVE Promise!Next
  <2>1. UNCHANGED <<recording, target, captured, discard, outcome, raced, lost>>
    BY <1>0, <1>1 DEF Sent, Send, SoundsSame, audioVars, streamVars
  <2>2. \A r \in Sessions : Phase(r)' = Phase(r)
    BY <2>1, PhaseRests
  <2> QED  BY <2>1, <2>2, OnlyHarm
<1>2. CASE Respawned(c)
  <2>1. Placed(c) /\ c.op # "transcribe" /\ Passes(c, None) /\ lost \subseteq lost'
    BY <1>2 DEF Respawned, Due, Spawn
  <2> QED  BY <1>0, <2>1, PassesPromise
<1>3. CASE Dropped(c)
  <2>1. Placed(c) /\ Fails(c) /\ lost \subseteq lost'
    BY <1>3 DEF Dropped, Due, Drop
  <2> QED  BY <1>0, <2>1, FailsPromise
<1>4. CASE Refused(c)
  <2>1. Placed(c) /\ Fails(c) /\ lost \subseteq lost'
    BY <1>4 DEF Refused, pipeVars
  <2> QED  BY <1>0, <2>1, FailsPromise
<1>5. CASE Answered(c)
  <2>1. /\ client # None /\ c = Plain(client) /\ replies # <<>> /\ Head(replies).id = IdOf(client)
        /\ Passes(c, Head(replies).text) /\ Placed(c) /\ lost \subseteq lost'
    BY <1>5, ClientIs DEF Answered
  <2>2. ASSUME c.op = "transcribe"
        PROVE  /\ Head(replies).text \in Seq(Samples)
               /\ Sound(c.session) => Head(replies).text = Recorded(c.session)
    <3>1. client.op = "transcribe" /\ c = client /\ client.session \in Sessions
      BY <2>1, <2>2, ClientIs, PlainIs, CallerIs
    <3> QED  BY <2>1, <3>1, AnswerIsLast DEF Taken
  <2> QED  BY <1>0, <2>1, <2>2, PassesPromise
<1>6. CASE Expired(c)
  <2>1. /\ client # None /\ c = Plain(client) /\ client.op \in {"ping", "unload"}
        /\ Passes(c, None) /\ Placed(c) /\ lost \subseteq lost'
    BY <1>6, ClientIs DEF Expired
  <2>2. c.op # "transcribe"
    BY <2>1, ClientIs, PlainIs
  <2> QED  BY <1>0, <2>1, <2>2, PassesPromise
<1> QED  BY <1>1, <1>2, <1>3, <1>4, <1>5, <1>6 DEF Acts

LEMMA StepsKeepPromise ==
    ASSUME Inv, [Next]_vars
    PROVE  [Promise!Next]_(Promise!vars)
<1>0. SessionInv /\ PipeInv /\ Taken /\ setting \in Models
  BY DEF Inv, Data, PipeInv, PipeTypes
<1>1. ASSUME NEW s \in Sessions, Moves(s) PROVE Promise!Next
  BY <1>0, <1>1, MovesPromise
<1>2. ASSUME Elsewhere, NEW c \in CallType, Acts(c) PROVE Promise!Next
  BY <1>0, <1>2, ActsPromise
<1>3. ASSUME UNCHANGED <<audioVars, discard, outcome, raced>>, lost \subseteq lost'
      PROVE  Promise!Next
  <2>1. UNCHANGED <<recording, target, captured>>
    BY <1>3 DEF audioVars
  <2>2. \A r \in Sessions : Phase(r)' = Phase(r)
    BY <1>3, <2>1, PhaseRests
  <2> QED  BY <1>3, <2>1, <2>2, OnlyHarm
<1>4. ASSUME Elsewhere, Gone \/ Nothing PROVE Promise!Next
  BY <1>3, <1>4 DEF Elsewhere, SoundsSame, Gone, Nothing, streamVars, pipeVars
<1>5. ASSUME WarmUp \/ WorkerCrashes \/ WorkerServes \/ WorkerMisreads \/ SkipStale \/ SwitchModel
      PROVE  Promise!Next
  <2>1. UNCHANGED <<audioVars, streamVars, raced>>
    BY <1>5 DEF WarmUp, WorkerCrashes, WorkerServes, WorkerMisreads, SkipStale, SwitchModel
  <2>2. lost \subseteq lost'
    BY <1>5 DEF WarmUp, Spawn, WorkerCrashes, WorkerServes, WorkerMisreads, SkipStale, SwitchModel,
                pipeVars
  <2> QED  BY <1>3, <2>1, <2>2 DEF streamVars
<1>6. ASSUME UNCHANGED vars PROVE UNCHANGED Promise!vars
  <2>1. UNCHANGED <<recording, target, captured, discard, outcome, raced, lost>>
    BY <1>6 DEF vars, audioVars, streamVars, pipeVars
  <2>2. UNCHANGED [r \in Sessions |-> Phase(r)]
    BY <2>1, PhaseRests, PhaseSame
  <2> QED  BY <2>1, <2>2 DEF Promise!vars
<1> QED  BY <1>0, <1>1, <1>2, <1>4, <1>5, <1>6, Steps

(* Streaming implements Dictation: one recording at a time, an ending that *)
(* is final, of a cancelled recording never in text, and text of all that  *)
(* was said unless the recording came to harm (voice/session.rs,           *)
(* voice/worker_client.rs, voice/worker.rs).                               *)
THEOREM StreamKeepsPromise == Spec => KeepsPromise
<1>1. Init => Promise!Init
  <2> SUFFICES ASSUME Init PROVE Promise!Init
    OBVIOUS
  <2>1. /\ target = [s \in Sessions |-> None] /\ captured = [s \in Sessions |-> 0]
        /\ outcome = [s \in Sessions |-> None] /\ lost \cup raced = {}
    BY DEF Init
  <2>2. \A s \in Sessions : Phase(s) = "new"
    BY <2>1 DEF Phase, Ended
  <2> QED  BY <2>1, <2>2 DEF Promise!Init
<1> QED  BY <1>1, Invariance, StepsKeepPromise, PTL DEF Spec, KeepsPromise, Promise!Spec
=============================================================================
