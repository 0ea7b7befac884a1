--------------------------- MODULE AguiStreamProofs ---------------------------
(* Theorems about AguiStream, for every set of connections, every page and     *)
(* batch size and every number of turns, frames and cached pages.             *)
EXTENDS AguiStream, SequenceTheorems, TLAPS

-----------------------------------------------------------------------------
(* What a transaction appends                                                 *)

Bursts == Openings \cup Sequels \cup {<<"queued">>}

New == (Len(log) + 1)..Len(log')

\* The frames of one transaction: those of turn t, then the announcement of `next`.
Appends(after, t, kinds, next) ==
    /\ log' \in Seq(Frame)
    /\ Len(log) < Len(log') /\ Len(log') <= MaxFrames
    /\ \A i \in 1..Len(log) : log'[i] = log[i]
    /\ \A i \in New :
        /\ log'[i].tx = Len(log) + 1
        /\ log'[i].after = after
        /\ \/ log'[i].run = t /\ \E k \in 1..Len(kinds) : log'[i].kind = kinds[k]
           \/ next # t /\ log'[i].run = next /\ log'[i].kind = "queued"
    /\ \E i \in New : log'[i].run = t /\ log'[i].kind = kinds[Len(kinds)]
    /\ next # t => \E i \in New : log'[i].run = next /\ log'[i].kind = "queued"
    /\ kept' = kept \cup New

LEMMA BurstShape ==
    ASSUME NEW kinds \in Bursts
    PROVE  /\ kinds \in Seq(Kinds)
           /\ Len(kinds) \in Nat \ {0}
           /\ \A k \in 1..Len(kinds) : kinds[k] \in Kinds
<1>1. ASSUME NEW a \in Kinds
      PROVE  <<a>> \in Seq(Kinds) /\ Len(<<a>>) = 1
  OBVIOUS
<1>2. ASSUME NEW a \in Kinds, NEW b \in Kinds
      PROVE  <<a, b>> \in Seq(Kinds) /\ Len(<<a, b>>) = 2
  OBVIOUS
<1>3. /\ "queued" \in Kinds /\ "started" \in Kinds /\ "text" \in Kinds
      /\ "ended" \in Kinds /\ "failed" \in Kinds
  BY DEF Kinds, Ends
<1>4. \/ \E a \in Kinds : kinds = <<a>>
      \/ \E a \in Kinds, b \in Kinds : kinds = <<a, b>>
  BY <1>3 DEF Bursts, Openings, Sequels
<1>5. CASE \E a \in Kinds : kinds = <<a>>
  <2> PICK a \in Kinds : kinds = <<a>>
    BY <1>5
  <2>1. kinds \in Seq(Kinds) /\ Len(kinds) = 1
    BY <1>1
  <2> QED BY <2>1
<1>6. CASE \E a \in Kinds, b \in Kinds : kinds = <<a, b>>
  <2> PICK a \in Kinds, b \in Kinds : kinds = <<a, b>>
    BY <1>6
  <2>1. kinds \in Seq(Kinds) /\ Len(kinds) = 2
    BY <1>2
  <2> QED BY <2>1
<1> QED BY <1>4, <1>5, <1>6

LEMMA RecordAppends ==
    ASSUME TypeOK, NEW after \in Nat, NEW t \in 1..Turns, NEW next \in 1..Turns,
           NEW kinds \in Bursts, Record(after, t, kinds, next)
    PROVE  Appends(after, t, kinds, next)
<1> DEFINE first == Len(log) + 1
           own == [k \in 1..Len(kinds) |->
                     [run |-> t, kind |-> kinds[k], tx |-> first, after |-> after]]
           call == [run |-> next, kind |-> "queued", tx |-> first, after |-> after]
           frames == own \o IF next = t THEN <<>> ELSE <<call>>
<1>1. /\ Len(log) + Len(frames) <= MaxFrames
      /\ log' = log \o frames
      /\ kept' = kept \cup (first..(Len(log) + Len(frames)))
  BY DEF Record
<1>2. log \in Seq(Frame) /\ Len(log) \in Nat
  BY DEF TypeOK
<1>3. /\ Len(kinds) \in Nat \ {0}
      /\ \A k \in 1..Len(kinds) : kinds[k] \in Kinds
  BY BurstShape
<1>4. \A k \in 1..Len(kinds) : /\ own[k].run = t
                                /\ own[k].kind = kinds[k]
                                /\ own[k].tx = first
                                /\ own[k].after = after
  OBVIOUS
<1>5. own \in Seq(Frame) /\ Len(own) = Len(kinds)
  <2>1. \A k \in 1..Len(kinds) : own[k] \in Frame
    BY <1>2, <1>3 DEF Frame
  <2> QED BY <2>1, <1>3
<1>6. /\ call \in Frame
      /\ call.run = next /\ call.kind = "queued" /\ call.tx = first /\ call.after = after
  BY <1>2 DEF Frame, Kinds
<1> HIDE DEF own, call
<1>7. /\ frames \in Seq(Frame)
      /\ Len(frames) = Len(kinds) + (IF next = t THEN 0 ELSE 1)
      /\ \A k \in 1..Len(kinds) : frames[k] = own[k]
      /\ next # t => frames[Len(kinds) + 1] = call
  <2>1. CASE next = t
    <3>1. frames = own
      BY <2>1, <1>5, ConcatEmptySeq
    <3> HIDE DEF frames
    <3> QED BY <3>1, <2>1, <1>3, <1>5
  <2>2. CASE next # t
    <3>1. frames = own \o <<call>>
      BY <2>2
    <3>2. <<call>> \in Seq(Frame) /\ Len(<<call>>) = 1 /\ <<call>>[1] = call
      BY <1>6
    <3> DEFINE last == <<call>>
    <3> HIDE DEF frames, last
    <3>3. frames \in Seq(Frame) /\ Len(frames) = Len(own) + Len(last)
      BY <3>1, <3>2, <1>5, ConcatProperties DEF last
    <3>4. \A k \in 1..(Len(own) + 1) :
             frames[k] = IF k <= Len(own) THEN own[k] ELSE last[k - Len(own)]
      BY <3>1, <3>2, <1>5, ConcatProperties DEF last
    <3> QED BY <3>2, <3>3, <3>4, <2>2, <1>3, <1>5 DEF last
  <2> QED BY <2>1, <2>2
<1> HIDE DEF frames
<1>8. /\ log' \in Seq(Frame) /\ Len(log') = Len(log) + Len(frames)
      /\ \A i \in 1..Len(log) : log'[i] = log[i]
      /\ \A k \in 1..Len(frames) : log'[Len(log) + k] = frames[k]
  <2>1. \A i \in 1..(Len(log) + Len(frames)) :
           log'[i] = IF i <= Len(log) THEN log[i] ELSE frames[i - Len(log)]
    BY <1>1, <1>2, <1>7, ConcatProperties
  <2>2. log' \in Seq(Frame) /\ Len(log') = Len(log) + Len(frames)
    BY <1>1, <1>2, <1>7, ConcatProperties
  <2>3. Len(frames) \in Nat
    BY <1>7
  <2> QED BY <2>1, <2>2, <2>3, <1>2
<1>9. /\ Len(frames) \in Nat \ {0} /\ Len(kinds) \in 1..Len(frames)
      /\ kept' = kept \cup New /\ Len(log) < Len(log') /\ Len(log') <= MaxFrames
  <2>1. Len(frames) \in Nat \ {0} /\ Len(kinds) \in 1..Len(frames)
    BY <1>3, <1>7
  <2> QED BY <2>1, <1>1, <1>2, <1>8 DEF New
<1>10. ASSUME NEW k \in 1..Len(frames)
       PROVE  /\ frames[k].tx = first
              /\ frames[k].after = after
              /\ \/ frames[k].run = t /\ \E l \in 1..Len(kinds) : frames[k].kind = kinds[l]
                 \/ next # t /\ frames[k].run = next /\ frames[k].kind = "queued"
  <2>1. CASE k \in 1..Len(kinds)
    BY <2>1, <1>4, <1>7
  <2>2. CASE k \notin 1..Len(kinds)
    <3>1. next # t /\ k = Len(kinds) + 1
      BY <2>2, <1>3, <1>7
    <3> QED BY <3>1, <1>6, <1>7
  <2> QED BY <2>1, <2>2
<1>11. \A i \in New : \E k \in 1..Len(frames) : i = Len(log) + k
  <2>1. ASSUME NEW i \in New PROVE i - Len(log) \in 1..Len(frames) /\ i = Len(log) + (i - Len(log))
    BY <1>2, <1>8, <1>9 DEF New
  <2> QED BY <2>1
<1>12. \A k \in 1..Len(frames) : Len(log) + k \in New
  BY <1>2, <1>8, <1>9 DEF New
<1>13. \A i \in New :
        /\ log'[i].tx = first
        /\ log'[i].after = after
        /\ \/ log'[i].run = t /\ \E k \in 1..Len(kinds) : log'[i].kind = kinds[k]
           \/ next # t /\ log'[i].run = next /\ log'[i].kind = "queued"
  <2> TAKE i \in New
  <2>1. PICK k \in 1..Len(frames) : i = Len(log) + k
    BY <1>11
  <2>2. log'[i] = frames[k]
    BY <1>8, <2>1
  <2> QED BY <1>10, <2>2
<1>14. \E i \in New : log'[i].run = t /\ log'[i].kind = kinds[Len(kinds)]
  <2>1. log'[Len(log) + Len(kinds)] = own[Len(kinds)]
    BY <1>7, <1>8, <1>9, <1>3
  <2>2. own[Len(kinds)].run = t /\ own[Len(kinds)].kind = kinds[Len(kinds)]
    BY <1>3, <1>4
  <2> QED BY <2>1, <2>2, <1>9, <1>12
<1>15. next # t => \E i \in New : log'[i].run = next /\ log'[i].kind = "queued"
  <2> SUFFICES ASSUME next # t PROVE \E i \in New : log'[i].run = next /\ log'[i].kind = "queued"
    OBVIOUS
  <2>1. Len(kinds) + 1 \in 1..Len(frames)
    BY <1>3, <1>7
  <2>2. log'[Len(log) + (Len(kinds) + 1)] = call
    BY <2>1, <1>7, <1>8
  <2> QED BY <2>1, <2>2, <1>6, <1>12
<1> QED BY <1>8, <1>9, <1>13, <1>14, <1>15 DEF Appends

-----------------------------------------------------------------------------
(* The writers' steps, told by what they append                              *)

\* A turn is submitted; it is announced if it is the only open one.
Submitted ==
    /\ submitted < Turns
    /\ submitted' = submitted + 1
    /\ \/ OpenTurns # {} /\ UNCHANGED <<log, kept>>
       \/ /\ OpenTurns = {}
          /\ \E after \in 0..Len(log) :
                Appends(after, submitted + 1, <<"queued">>, submitted + 1)
    /\ UNCHANGED <<cache, reader>>

\* The head is told of, and `next` is announced when it is another turn.
Telling(t, kinds, next) ==
    /\ IsHead(t)
    /\ t \in 1..Turns
    /\ kinds \in Openings \cup Sequels
    /\ next = IF Closes(kinds) /\ t < submitted THEN t + 1 ELSE t
    /\ next \in 1..Turns
    /\ Appends(Len(log), t, kinds, next)
    /\ UNCHANGED <<submitted, cache, reader>>

LEMMA SubmitAppends ==
    ASSUME TypeOK, Submit
    PROVE  Submitted
<1>1. /\ submitted \in Nat /\ Turns \in Nat /\ submitted + 1 \in 1..Turns
      /\ \A after \in 0..Len(log) : after \in Nat
  BY ConstantsAssumption DEF TypeOK, Submit
<1>2. <<"queued">> \in Bursts
  BY DEF Bursts
<1>3. CASE OpenTurns = {}
  <2>1. PICK after \in 0..Len(log) : Record(after, submitted + 1, <<"queued">>, submitted + 1)
    BY <1>3 DEF Submit
  <2>2. Appends(after, submitted + 1, <<"queued">>, submitted + 1)
    BY <2>1, <1>1, <1>2, RecordAppends
  <2> QED BY <2>2, <1>3 DEF Submit, Submitted
<1>4. CASE OpenTurns # {}
  BY <1>4 DEF Submit, Submitted
<1> QED BY <1>3, <1>4

LEMMA TellAppends ==
    ASSUME TypeOK, NEW t \in 1..Turns, NEW kinds \in Openings \cup Sequels, Tell(t, kinds)
    PROVE  \E next : Telling(t, kinds, next)
<1> DEFINE next == IF Closes(kinds) /\ t < submitted THEN t + 1 ELSE t
<1>1. next \in 1..Turns
  BY ConstantsAssumption DEF TypeOK
<1>2. kinds \in Bursts
  BY DEF Bursts
<1>3. Len(log) \in Nat
  BY DEF TypeOK
<1>4. Record(Len(log), t, kinds, next)
  BY DEF Tell
<1>5. Appends(Len(log), t, kinds, next)
  BY <1>1, <1>2, <1>3, <1>4, RecordAppends
<1>6. Telling(t, kinds, next)
  BY <1>1, <1>5 DEF Tell, Telling
<1> QED BY <1>6

-----------------------------------------------------------------------------
(* Types                                                                     *)

LEMMA AppendedTypes ==
    ASSUME TypeOK, NEW after, NEW t, NEW kinds, NEW next, Appends(after, t, kinds, next)
    PROVE  /\ log' \in Seq(Frame) /\ Len(log') <= MaxFrames
           /\ kept' \subseteq DOMAIN log'
           /\ DOMAIN log = 1..Len(log) /\ DOMAIN log' = 1..Len(log')
           /\ DOMAIN log' = DOMAIN log \cup New /\ DOMAIN log \cap New = {}
           /\ Len(log) \in Nat /\ Len(log') \in Nat
<1>1. /\ log \in Seq(Frame) /\ Len(log) \in Nat /\ DOMAIN log = 1..Len(log)
      /\ log' \in Seq(Frame) /\ Len(log') \in Nat /\ DOMAIN log' = 1..Len(log')
  BY DEF TypeOK, Appends
<1>2. Len(log) < Len(log') /\ Len(log') <= MaxFrames
  BY DEF Appends
<1>3. DOMAIN log' = DOMAIN log \cup New /\ DOMAIN log \cap New = {}
  BY <1>1, <1>2 DEF New
<1>4. kept' = kept \cup New /\ kept \subseteq DOMAIN log
  BY DEF Appends, TypeOK
<1> QED BY <1>1, <1>2, <1>3, <1>4

LEMMA PageTypes ==
    ASSUME TypeOK, NEW c \in Cursors, NEW page \in Pages(c)
    PROVE  page \in Page
<1>1. CASE page = Refusal
  BY <1>1 DEF Refusal, NoPage, Page
<1>2. CASE page # Refusal
  <2>1. PICK frames \in SUBSET {i \in kept : i > c} :
           page = [kind |-> "page", frames |-> frames, atHead |-> AtHead(frames, c),
                   terminal |-> LastRunOver]
    BY <1>2 DEF Pages, PagesAfter
  <2>2. frames \subseteq Cursors
    <3>1. kept \subseteq Cursors
      BY ConstantsAssumption DEF TypeOK, Cursors
    <3> QED BY <3>1
  <2>3. AtHead(frames, c) \in BOOLEAN /\ LastRunOver \in BOOLEAN
    BY DEF AtHead, LastRunOver
  <2> QED BY <2>1, <2>2, <2>3 DEF Page
<1> QED BY <1>1, <1>2

LEMMA OutcomeTypes ==
    ASSUME NEW c \in Cursors, NEW page \in Page
    PROVE  Outcomes(page, c) \subseteq Connection
<1>1. Closed \in Connection
  BY ConstantsAssumption DEF Closed, Connection, Cursors, Start
<1>2. ASSUME NEW last \in page.frames \cup {c}
      PROVE  [pc |-> IF page.atHead THEN "wait" ELSE "drain", cursor |-> last] \in Connection
  BY DEF Page, Connection
<1> QED BY <1>1, <1>2 DEF Outcomes

LEMMA NoPageTypes == NoPage \in Page
BY DEF NoPage, Page

LEMMA TypeInvariance == TypeOK /\ [Next]_vars => TypeOK'
<1> SUFFICES ASSUME TypeOK, [Next]_vars PROVE TypeOK'
  OBVIOUS
<1>1. ASSUME Submit PROVE TypeOK'
  <2>1. Submitted
    BY <1>1, SubmitAppends
  <2>2. submitted' \in 0..Turns
    BY ConstantsAssumption, <2>1 DEF Submitted, TypeOK
  <2>3. CASE UNCHANGED <<log, kept>>
    BY <2>1, <2>2, <2>3 DEF Submitted, TypeOK
  <2>4. CASE \E after \in 0..Len(log) :
                Appends(after, submitted + 1, <<"queued">>, submitted + 1)
    BY <2>1, <2>2, <2>4, AppendedTypes DEF Submitted, TypeOK
  <2> QED BY <2>1, <2>3, <2>4 DEF Submitted
<1>2. ASSUME NEW t \in 1..Turns, NEW kinds \in Openings \cup Sequels, Tell(t, kinds)
      PROVE  TypeOK'
  <2>1. PICK next : Telling(t, kinds, next)
    BY <1>2, TellAppends
  <2> QED BY <2>1, AppendedTypes DEF Telling, TypeOK
<1>3. ASSUME NEW old, NEW batch, CollectGarbage(old, batch) PROVE TypeOK'
  BY <1>3 DEF CollectGarbage, TypeOK
<1>4. ASSUME NEW r \in Readers, NEW c \in Cursors, Connect(r, c) PROVE TypeOK'
  <2>1. [pc |-> "drain", cursor |-> c] \in Connection
    BY DEF Connection
  <2> QED BY <1>4, <2>1 DEF Connect, TypeOK
<1>5. ASSUME NEW r \in Readers, TakeCached(r) PROVE TypeOK'
  <2>1. reader[r].cursor \in Cursors /\ cache[reader[r].cursor] \in Page
    BY DEF TypeOK, Connection
  <2>2. PICK next \in Connection : reader' = [reader EXCEPT ![r] = next]
    BY <1>5, <2>1, OutcomeTypes DEF TakeCached
  <2> QED BY <1>5, <2>2 DEF TakeCached, TypeOK
<1>6. ASSUME NEW r \in Readers, AwaitLoad(r) PROVE TypeOK'
  <2>1. [reader[r] EXCEPT !.pc = "load"] \in Connection
    BY DEF TypeOK, Connection
  <2> QED BY <1>6, <2>1 DEF AwaitLoad, TypeOK
<1>7. ASSUME NEW c \in Cursors, Load(c) PROVE TypeOK'
  <2>1. PICK page \in Pages(c), stay \in SUBSET (Cached \ {c}) :
          /\ cache' = [d \in Cursors |-> IF d = c THEN page
                                         ELSE IF d \in stay THEN cache[d] ELSE NoPage]
          /\ \E next \in [Loading(c) -> Outcomes(page, c)] :
                reader' = [r \in Readers |-> IF r \in Loading(c) THEN next[r] ELSE reader[r]]
    BY <1>7 DEF Load
  <2>2. page \in Page
    BY PageTypes
  <2>3. cache' \in [Cursors -> Page]
    BY <2>1, <2>2, NoPageTypes DEF TypeOK
  <2>4. PICK next \in [Loading(c) -> Outcomes(page, c)] :
          reader' = [r \in Readers |-> IF r \in Loading(c) THEN next[r] ELSE reader[r]]
    BY <2>1
  <2>5. \A r \in Loading(c) : next[r] \in Connection
    BY <2>2, OutcomeTypes
  <2>6. reader' \in [Readers -> Connection]
    BY <2>4, <2>5 DEF TypeOK
  <2> QED BY <1>7, <2>3, <2>6 DEF Load, TypeOK
<1>8. ASSUME NEW c \in Cursors, LoadFails(c) PROVE TypeOK'
  <2>1. Closed \in Connection
    BY ConstantsAssumption DEF Closed, Connection, Cursors, Start
  <2> QED BY <1>8, <2>1 DEF LoadFails, TypeOK
<1>9. ASSUME NEW c \in Cursors, Expire(c) PROVE TypeOK'
  BY <1>9, NoPageTypes DEF Expire, TypeOK
<1>10. ASSUME Wake PROVE TypeOK'
  <2>1. \A r \in Readers : [reader[r] EXCEPT !.pc = "drain"] \in Connection
    BY DEF TypeOK, Connection
  <2> QED BY <1>10, <2>1 DEF Wake, TypeOK
<1>11. ASSUME UNCHANGED vars PROVE TypeOK'
  BY <1>11 DEF vars, TypeOK
<1> QED BY <1>1, <1>2, <1>3, <1>4, <1>5, <1>6, <1>7, <1>8, <1>9, <1>10, <1>11 DEF Next

LEMMA InitTypes == Init => TypeOK
<1>1. Idle \in Connection
  BY ConstantsAssumption DEF Idle, Connection, Cursors, Start
<1> QED BY <1>1, NoPageTypes, ConstantsAssumption DEF Init, TypeOK

\* Every variable keeps its type.
THEOREM TypeCorrect == Spec => []TypeOK
BY InitTypes, TypeInvariance, PTL DEF Spec

-----------------------------------------------------------------------------
(* Turns: the frames written so far belong to no turn after the head, and the *)
(* head has been announced                                                    *)

RunsInv ==
    \A i \in DOMAIN log : /\ log[i].run \in 1..submitted
                          /\ \A u \in OpenTurns : log[i].run <= u

HeadAnnounced == \A t \in 1..submitted : IsHead(t) => Told(t, {"queued"})

Announced ==
    \A i \in DOMAIN log : \E q \in DOMAIN log :
        q <= i /\ log[q].run = log[i].run /\ log[q].kind = "queued"

TurnInv == RunsInv /\ HeadAnnounced /\ Announced

\* The frames stay as they are, and no turn that has some opens again.
Settled ==
    \A i \in DOMAIN log :
        log'[i] = log[i] /\ (log[i].run \in OpenTurns' => log[i].run \in OpenTurns)

LEMMA BurstEnds ==
    ASSUME NEW kinds \in Openings \cup Sequels, ~Closes(kinds), NEW k \in 1..Len(kinds)
    PROVE  kinds[k] \notin Ends
<1>1. /\ "queued" \notin Ends /\ "started" \notin Ends /\ "text" \notin Ends
      /\ "ended" \in Ends /\ "failed" \in Ends
  BY DEF Ends
<1>2. ASSUME NEW a, kinds = <<a>> PROVE kinds[k] \notin Ends
  <2>1. Len(kinds) = 1 /\ k = 1
    BY <1>2
  <2> QED BY <2>1 DEF Closes
<1>3. ASSUME NEW a, NEW b, a \notin Ends, kinds = <<a, b>> PROVE kinds[k] \notin Ends
  <2>1. Len(kinds) = 2 /\ kinds[1] = a /\ kinds[2] = b /\ (k = 1 \/ k = 2)
    BY <1>3
  <2> QED BY <2>1, <1>3 DEF Closes
<1>4. \/ \E a : kinds = <<a>>
      \/ \E b : kinds = <<"started", b>>
      \/ \E b : kinds = <<"text", b>>
  BY DEF Openings, Sequels
<1> QED BY <1>1, <1>2, <1>3, <1>4

LEMMA ToldAppends ==
    ASSUME TypeOK, NEW after, NEW t, NEW kinds, NEW next, Appends(after, t, kinds, next),
           NEW u, NEW K
    PROVE  Told(u, K)' <=> \/ Told(u, K)
                           \/ \E i \in New : log'[i].run = u /\ log'[i].kind \in K
<1>1. DOMAIN log' = DOMAIN log \cup New /\ DOMAIN log = 1..Len(log)
  BY AppendedTypes
<1>2. \A i \in 1..Len(log) : log'[i] = log[i]
  BY DEF Appends
<1> QED BY <1>1, <1>2 DEF Told

LEMMA SubmitTurns ==
    ASSUME TypeOK, TurnInv, Submitted
    PROVE  /\ TurnInv'
           /\ Settled
<1>1. submitted \in Nat /\ submitted' = submitted + 1
  BY DEF TypeOK, Submitted
<1>2. CASE OpenTurns # {} /\ UNCHANGED <<log, kept>>
  <2>1. \A u, K : Told(u, K)' <=> Told(u, K)
    BY <1>2 DEF Told
  <2>2. OpenTurns \subseteq OpenTurns' /\ OpenTurns' \subseteq OpenTurns \cup {submitted + 1}
    BY <1>1, <2>1 DEF OpenTurns
  <2>3. RunsInv'
    <3>1. \A i \in DOMAIN log : log[i].run \in 1..submitted /\ log[i].run \in 1..(submitted + 1)
      BY <1>1 DEF TurnInv, RunsInv
    <3>2. ASSUME NEW i \in DOMAIN log, NEW u \in OpenTurns' PROVE log[i].run <= u
      <4>1. CASE u \in OpenTurns
        BY <4>1 DEF TurnInv, RunsInv
      <4>2. CASE u = submitted + 1
        BY <3>1, <4>2, <1>1
      <4> QED BY <2>2, <4>1, <4>2
    <3>3. log' = log
      BY <1>2
    <3> QED BY <3>1, <3>2, <3>3, <1>1 DEF RunsInv
  <2>4. HeadAnnounced'
    <3> SUFFICES ASSUME NEW t \in 1..(submitted + 1), IsHead(t)'
                 PROVE  Told(t, {"queued"})
      BY <1>1, <2>1 DEF HeadAnnounced
    <3>1. PICK u : u \in OpenTurns
      BY <1>2
    <3>2. u \in 1..submitted /\ t <= u
      BY <3>1, <2>2 DEF IsHead, OpenTurns
    <3>3. t \in OpenTurns /\ t \in 1..submitted
      BY <3>2, <2>2, <1>1 DEF IsHead
    <3>4. IsHead(t)
      BY <3>3, <2>2 DEF IsHead
    <3> QED BY <3>3, <3>4 DEF TurnInv, HeadAnnounced
  <2>5. Announced'
    BY <1>2 DEF TurnInv, Announced
  <2>6. \A i \in DOMAIN log : log[i].run \in OpenTurns' => log[i].run \in OpenTurns
    BY <2>2, <1>1 DEF TurnInv, RunsInv
  <2> QED BY <1>2, <2>3, <2>4, <2>5, <2>6 DEF TurnInv, Settled
<1>3. ASSUME OpenTurns = {}, NEW after \in 0..Len(log),
             Appends(after, submitted + 1, <<"queued">>, submitted + 1)
      PROVE  /\ TurnInv'
             /\ Settled
  <2>1. /\ DOMAIN log' = DOMAIN log \cup New
        /\ \A i \in DOMAIN log : log'[i] = log[i]
    <3>1. DOMAIN log' = DOMAIN log \cup New /\ DOMAIN log = 1..Len(log)
      BY <1>3, AppendedTypes
    <3>2. \A i \in 1..Len(log) : log'[i] = log[i]
      BY <1>3 DEF Appends
    <3> QED BY <3>1, <3>2
  <2>2. \A i \in New : log'[i].run = submitted + 1 /\ log'[i].kind = "queued"
    <3>1. Len(<<"queued">>) = 1 /\ <<"queued">>[1] = "queued"
      OBVIOUS
    <3> QED BY <1>3, <3>1 DEF Appends
  <2>3. \E i \in New : log'[i].run = submitted + 1
    BY <1>3 DEF Appends
  <2>4. OpenTurns' \subseteq {submitted + 1}
    <3> SUFFICES ASSUME NEW u \in 1..submitted PROVE u \notin OpenTurns'
      BY <1>1 DEF OpenTurns
    <3>1. Told(u, Ends)
      BY <1>3 DEF OpenTurns
    <3>2. Told(u, Ends)'
      BY <3>1, <1>3, ToldAppends
    <3> QED BY <3>2 DEF OpenTurns
  <2>5. \A i \in DOMAIN log : log[i].run \in 1..submitted
    BY DEF TurnInv, RunsInv
  <2>6. RunsInv'
    <3> SUFFICES ASSUME NEW i \in DOMAIN log'
                 PROVE  log'[i].run \in 1..(submitted + 1)
      BY <1>1, <2>4 DEF RunsInv
    <3> QED BY <2>1, <2>2, <2>5, <1>1
  <2>7. HeadAnnounced'
    <3> PICK n : n = submitted + 1
      OBVIOUS
    <3>1. Told(n, {"queued"})'
      BY <2>1, <2>2, <2>3 DEF Told
    <3>2. \A t : IsHead(t)' => t = n
      BY <2>4 DEF IsHead
    <3> QED BY <3>1, <3>2 DEF HeadAnnounced
  <2>8. Announced'
    <3> SUFFICES ASSUME NEW i \in DOMAIN log'
                 PROVE  \E q \in DOMAIN log' :
                           q <= i /\ log'[q].run = log'[i].run /\ log'[q].kind = "queued"
      BY DEF Announced
    <3>1. CASE i \in DOMAIN log
      BY <3>1, <2>1 DEF TurnInv, Announced
    <3>2. CASE i \in New
      <4>1. i <= i
        BY <3>2, <1>3, AppendedTypes DEF New
      <4> QED BY <3>2, <4>1, <2>1, <2>2
    <3> QED BY <2>1, <3>1, <3>2
  <2>9. \A i \in DOMAIN log : log[i].run \in OpenTurns' => log[i].run \in OpenTurns
    BY <2>4, <2>5, <1>1
  <2> QED BY <2>1, <2>6, <2>7, <2>8, <2>9 DEF TurnInv, Settled
<1> QED BY <1>2, <1>3 DEF Submitted

LEMMA TellTurns ==
    ASSUME TypeOK, TurnInv, NEW t, NEW kinds, NEW next, Telling(t, kinds, next)
    PROVE  /\ TurnInv'
           /\ Settled
<1>1. /\ submitted \in Nat /\ submitted' = submitted
      /\ t \in OpenTurns /\ t \in 1..submitted /\ \A u \in OpenTurns : t <= u
      /\ next = IF Closes(kinds) /\ t < submitted THEN t + 1 ELSE t
      /\ Appends(Len(log), t, kinds, next)
  BY DEF TypeOK, Telling, IsHead, OpenTurns
<1>2. /\ DOMAIN log' = DOMAIN log \cup New
      /\ \A i \in DOMAIN log : log'[i] = log[i]
      /\ \A i \in DOMAIN log, j \in New : i \in Nat /\ j \in Nat /\ i < j
  <2>1. DOMAIN log' = DOMAIN log \cup New /\ DOMAIN log = 1..Len(log) /\ Len(log) \in Nat
    BY <1>1, AppendedTypes
  <2>2. \A i \in 1..Len(log) : log'[i] = log[i]
    BY <1>1 DEF Appends
  <2>3. \A i \in 1..Len(log), j \in New : i \in Nat /\ j \in Nat /\ i < j
    BY <1>1, AppendedTypes DEF New
  <2> QED BY <2>1, <2>2, <2>3
<1>3. \A i \in New :
        \/ log'[i].run = t /\ \E k \in 1..Len(kinds) : log'[i].kind = kinds[k]
        \/ next # t /\ log'[i].run = next /\ log'[i].kind = "queued"
  BY <1>1 DEF Appends
<1>4. \A i \in DOMAIN log : log[i].run \in 1..submitted /\ log[i].run <= t
  BY <1>1 DEF TurnInv, RunsInv
<1>5. \A u, K : Told(u, K) => Told(u, K)'
  BY <1>1, ToldAppends
<1>6. OpenTurns' \subseteq OpenTurns
  BY <1>1, <1>5 DEF OpenTurns
<1>7. next \in 1..submitted /\ \A u \in OpenTurns' : next <= u
  <2>1. CASE next = t
    BY <2>1, <1>1, <1>6
  <2>2. CASE next # t
    <3>1. Closes(kinds) /\ t < submitted /\ next = t + 1
      BY <2>2, <1>1
    <3>2. PICK i \in New : log'[i].run = t /\ log'[i].kind \in Ends
      BY <1>1, <3>1 DEF Appends, Closes
    <3>3. Told(t, Ends)'
      BY <3>2, <1>2 DEF Told
    <3>4. t \notin OpenTurns'
      BY <3>3 DEF OpenTurns
    <3>5. \A u \in OpenTurns' : u \in Nat /\ t <= u /\ u # t
      BY <1>1, <1>6, <3>4 DEF OpenTurns
    <3> QED BY <3>1, <3>5, <1>1
  <2> QED BY <2>1, <2>2
<1>8. RunsInv'
  <2>1. ASSUME NEW i \in DOMAIN log'
        PROVE  log'[i].run \in 1..submitted /\ log'[i].run <= next
    <3>1. CASE i \in DOMAIN log
      BY <3>1, <1>1, <1>2, <1>4
    <3>2. CASE i \in New
      BY <3>2, <1>1, <1>3, <1>7
    <3> QED BY <1>2, <3>1, <3>2
  <2>2. \A u \in OpenTurns' : u \in Nat
    BY <1>1 DEF OpenTurns
  <2>3. ASSUME NEW i \in DOMAIN log', NEW u \in OpenTurns' PROVE log'[i].run <= u
    BY <2>1, <2>2, <1>1, <1>7
  <2> QED BY <2>1, <2>3, <1>1 DEF RunsInv
<1>9. HeadAnnounced'
  <2>1. CASE next = t /\ ~Closes(kinds)
    <3>1. ~Told(t, Ends)'
      <4>1. ~Told(t, Ends)
        BY <1>1 DEF OpenTurns
      <4>2. \A i \in New : log'[i].kind \notin Ends
        <5>1. kinds \in Openings \cup Sequels
          BY DEF Telling
        <5> QED BY <2>1, <5>1, <1>3, BurstEnds
      <4> QED BY <4>1, <4>2, <1>1, ToldAppends
    <3>2. t \in OpenTurns'
      BY <3>1, <1>1 DEF OpenTurns
    <3>3. \A u : IsHead(u)' => u = t
      BY <3>2, <1>1, <1>6 DEF IsHead, OpenTurns
    <3>4. Told(t, {"queued"})'
      BY <1>1, <1>5 DEF TurnInv, HeadAnnounced, IsHead
    <3> QED BY <3>3, <3>4 DEF HeadAnnounced
  <2>2. CASE next # t
    <3>1. ~Told(next, Ends)'
      <4>1. ~Told(next, Ends)
        BY <2>2, <1>1, <1>4 DEF Told
      <4>2. \A i \in New : log'[i].run = next => log'[i].kind \notin Ends
        BY <2>2, <1>3 DEF Ends
      <4> QED BY <4>1, <4>2, <1>1, ToldAppends
    <3>2. next \in OpenTurns'
      BY <3>1, <1>1, <1>7 DEF OpenTurns
    <3>3. \A u : IsHead(u)' => u = next
      BY <3>2, <1>1, <1>7 DEF IsHead, OpenTurns
    <3>4. Told(next, {"queued"})'
      <4>1. PICK i \in New : log'[i].run = next /\ log'[i].kind = "queued"
        BY <2>2, <1>1 DEF Appends
      <4> QED BY <4>1, <1>2 DEF Told
    <3> QED BY <3>3, <3>4 DEF HeadAnnounced
  <2>3. CASE next = t /\ Closes(kinds)
    <3>1. t = submitted
      BY <2>3, <1>1
    <3>2. PICK i \in New : log'[i].run = t /\ log'[i].kind \in Ends
      BY <1>1, <2>3 DEF Appends, Closes
    <3>3. Told(t, Ends)'
      BY <3>2, <1>2 DEF Told
    <3>4. OpenTurns' = {}
      BY <1>1, <1>6, <3>1, <3>3 DEF OpenTurns
    <3> QED BY <3>4 DEF HeadAnnounced, IsHead
  <2> QED BY <2>1, <2>2, <2>3
<1>10. Announced'
  <2> SUFFICES ASSUME NEW i \in DOMAIN log'
               PROVE  \E q \in DOMAIN log' :
                         q <= i /\ log'[q].run = log'[i].run /\ log'[q].kind = "queued"
    BY DEF Announced
  <2>1. CASE i \in DOMAIN log
    BY <2>1, <1>2 DEF TurnInv, Announced
  <2>2. CASE i \in New /\ log'[i].run = t
    <3>1. Told(t, {"queued"})
      BY <1>1 DEF TurnInv, HeadAnnounced, IsHead
    <3>2. PICK q \in DOMAIN log : log[q].run = t /\ log[q].kind = "queued"
      BY <3>1 DEF Told
    <3>3. q \in DOMAIN log' /\ q <= i /\ log'[q] = log[q]
      BY <2>2, <1>2
    <3> QED BY <2>2, <3>2, <3>3
  <2>3. CASE i \in New /\ log'[i].kind = "queued"
    <3>1. i <= i
      BY <2>3, <1>1, AppendedTypes DEF New
    <3> QED BY <2>3, <3>1
  <2> QED BY <2>1, <2>2, <2>3, <1>2, <1>3
<1>11. \A i \in DOMAIN log : log[i].run \in OpenTurns' => log[i].run \in OpenTurns
  BY <1>6
<1> QED BY <1>2, <1>8, <1>9, <1>10, <1>11 DEF TurnInv, Settled

-----------------------------------------------------------------------------
(* What the ledger keeps                                                     *)

LEMMA FrameTypes ==
    ASSUME TypeOK, NEW i \in DOMAIN log
    PROVE  i \in Nat /\ log[i].tx \in Nat /\ log[i].after \in Nat
<1>1. log \in Seq(Frame) /\ DOMAIN log = 1..Len(log) /\ Len(log) \in Nat
  BY DEF TypeOK
<1>2. log[i] \in Frame /\ i \in Nat
  BY <1>1
<1> QED BY <1>2 DEF Frame

\* The frame at the head is never collected.
HeadKept == Len(log) > 0 => Len(log) \in kept

\* Transactions follow each other in the order of their frames.
TxInv ==
    /\ \A i \in DOMAIN log : log[i].tx <= i
    /\ \A i, j \in DOMAIN log : j <= i => log[j].tx <= log[i].tx

\* What was collected precedes all that is kept.
SuffixInv == Timely => \A i \in kept, j \in DOMAIN log : i < j => j \in kept

LedgerInv == HeadKept /\ OpenTurnKept /\ TxInv /\ SuffixInv

Grows ==
    \/ UNCHANGED <<log, kept>>
    \/ \E after, t, kinds, next : Appends(after, t, kinds, next)

LEMMA GrowthKeeps ==
    ASSUME TypeOK, LedgerInv, Grows,
           \A i \in DOMAIN log : log[i].run \in OpenTurns' => log[i].run \in OpenTurns
    PROVE  LedgerInv' /\ (Timely' => Timely)
<1>1. CASE UNCHANGED <<log, kept>>
  <2>1. OpenTurnKept'
    BY <1>1 DEF LedgerInv, OpenTurnKept
  <2> QED BY <1>1, <2>1 DEF LedgerInv, HeadKept, TxInv, SuffixInv, Timely
<1>2. ASSUME NEW after, NEW t, NEW kinds, NEW next, Appends(after, t, kinds, next)
      PROVE  LedgerInv' /\ (Timely' => Timely)
  <2>1. /\ DOMAIN log' = DOMAIN log \cup New
        /\ DOMAIN log = 1..Len(log) /\ DOMAIN log' = 1..Len(log')
        /\ Len(log) \in Nat /\ Len(log') \in Nat
    BY <1>2, AppendedTypes
  <2>2. /\ \A i \in DOMAIN log : log'[i] = log[i]
        /\ \A i \in New : log'[i].tx = Len(log) + 1
        /\ kept' = kept \cup New /\ Len(log) < Len(log')
    BY <1>2, <2>1 DEF Appends
  <2>3. \A i \in DOMAIN log, j \in New : i \in Nat /\ j \in Nat /\ i < j
                                          /\ i <= Len(log) /\ Len(log) + 1 <= j
    BY <2>1 DEF New
  <2>4. \A i \in DOMAIN log : log[i].tx \in Nat
    BY FrameTypes
  <2>5. HeadKept'
    <3>1. Len(log') \in New
      BY <2>1, <2>2 DEF New
    <3> QED BY <3>1, <2>2 DEF HeadKept
  <2>6. OpenTurnKept'
    <3> SUFFICES ASSUME NEW i \in DOMAIN log', log'[i].run \in OpenTurns' PROVE i \in kept'
      BY DEF OpenTurnKept
    <3>1. CASE i \in DOMAIN log
      BY <3>1, <2>2 DEF LedgerInv, OpenTurnKept
    <3> QED BY <3>1, <2>1, <2>2
  <2>7. TxInv'
    <3>1. ASSUME NEW i \in DOMAIN log' PROVE log'[i].tx <= i
      <4>1. CASE i \in DOMAIN log
        BY <4>1, <2>2 DEF LedgerInv, TxInv
      <4>2. CASE i \in New
        BY <4>2, <2>1, <2>2 DEF New
      <4> QED BY <4>1, <4>2, <2>1
    <3>2. ASSUME NEW i \in DOMAIN log', NEW j \in DOMAIN log', j <= i
          PROVE  log'[j].tx <= log'[i].tx
      <4>1. CASE i \in DOMAIN log /\ j \in DOMAIN log
        BY <4>1, <3>2, <2>2 DEF LedgerInv, TxInv
      <4>2. CASE i \in New /\ j \in DOMAIN log
        <5>1. log[j].tx <= j /\ j <= Len(log) /\ j \in Nat /\ log[j].tx \in Nat
          BY <4>2, <2>1, <2>4 DEF LedgerInv, TxInv
        <5> QED BY <4>2, <5>1, <2>1, <2>2
      <4>3. CASE i \in New /\ j \in New
        BY <4>3, <2>1, <2>2
      <4>4. ~(i \in DOMAIN log /\ j \in New)
        BY <3>2, <2>3
      <4> QED BY <4>1, <4>2, <4>3, <4>4, <2>1
    <3> QED BY <3>1, <3>2 DEF TxInv
  <2>8. Timely' => Timely
    BY <2>1, <2>2 DEF Timely
  <2>9. SuffixInv'
    <3> SUFFICES ASSUME Timely', NEW i \in kept', NEW j \in DOMAIN log', i < j PROVE j \in kept'
      BY DEF SuffixInv
    <3>1. CASE j \in New
      BY <3>1, <2>2
    <3>2. CASE j \in DOMAIN log
      <4>1. i \notin New
        BY <3>2, <2>3
      <4>2. i \in kept
        BY <4>1, <2>2
      <4> QED BY <3>2, <4>2, <2>2, <2>8 DEF LedgerInv, SuffixInv
    <3> QED BY <3>1, <3>2, <2>1
  <2> QED BY <2>5, <2>6, <2>7, <2>8, <2>9 DEF LedgerInv
<1> QED BY <1>1, <1>2 DEF Grows

\* Under Timely the frames recorded before an instant are the first ones.
LEMMA OldIsPrefix ==
    ASSUME TypeOK, TxInv, Timely, NEW old \in SUBSET DOMAIN log, RecordedBefore(old),
           NEW i \in old, NEW j \in DOMAIN log, j < i
    PROVE  j \in old
<1>1. /\ log[i].tx \in Nat /\ log[j].tx \in Nat /\ log[i].after \in Nat /\ log[j].after \in Nat
      /\ i \in Nat /\ j \in Nat /\ i \in DOMAIN log
  BY FrameTypes
<1>2. log[j].tx <= log[i].tx
  BY <1>1 DEF TxInv
<1>3. log[i].after + 1 = log[i].tx /\ log[j].after + 1 = log[j].tx
  BY <1>1 DEF Timely
<1>4. log[j].tx = log[i].tx \/ log[j].after < log[i].after
  BY <1>1, <1>2, <1>3
<1> QED BY <1>4 DEF RecordedBefore

LEMMA GarbageKeeps ==
    ASSUME TypeOK, TurnInv, LedgerInv, NEW old \in SUBSET DOMAIN log,
           NEW batch \in SUBSET Collectable(old), CollectGarbage(old, batch)
    PROVE  LedgerInv'
<1>1. /\ kept' = kept \ batch /\ UNCHANGED <<log, submitted>>
      /\ RecordedBefore(old)
      /\ \A i \in batch, j \in Collectable(old) \ batch : i < j
  BY DEF CollectGarbage, IsPrefix
<1>2. /\ kept \subseteq DOMAIN log /\ DOMAIN log = 1..Len(log) /\ Len(log) \in Nat
  BY DEF TypeOK
<1>3. \A i \in batch : i \in kept /\ i \in old /\ Unpinned(i) /\ SliceComplete
  BY DEF Collectable
<1>4. OpenTurns' = OpenTurns
  BY <1>1 DEF OpenTurns, Told
<1>5. HeadKept'
  <2>1. \A i \in batch : i # Len(log)
    BY <1>2, <1>3 DEF Unpinned
  <2> QED BY <1>1, <2>1 DEF LedgerInv, HeadKept
<1>6. OpenTurnKept'
  <2> SUFFICES ASSUME NEW i \in DOMAIN log, log[i].run \in OpenTurns
               PROVE  i \in kept /\ i \notin batch
    BY <1>1, <1>4 DEF OpenTurnKept
  <2>1. PICK q \in DOMAIN log : q <= i /\ log[q].run = log[i].run /\ log[q].kind = "queued"
    BY DEF TurnInv, Announced
  <2>2. i \in kept /\ q \in kept
    BY <2>1 DEF LedgerInv, OpenTurnKept
  <2>3. ~Unpinned(i)
    BY <1>2, <2>1, <2>2 DEF Unpinned
  <2> QED BY <1>3, <2>2, <2>3
<1>7. TxInv'
  BY <1>1 DEF LedgerInv, TxInv
<1>8. SuffixInv'
  <2> SUFFICES ASSUME Timely, NEW i \in kept \ batch, NEW j \in DOMAIN log, i < j
               PROVE  j \in kept /\ j \notin batch
    BY <1>1 DEF SuffixInv, Timely
  <2>1. j \in kept
    BY DEF LedgerInv, SuffixInv
  <2>2. ASSUME j \in batch PROVE FALSE
    <3>1. i \in old
      BY <2>2, <1>1, <1>2, <1>3, OldIsPrefix DEF LedgerInv
    <3>2. Unpinned(i)
      <4>1. Unpinned(j)
        BY <2>2, <1>3
      <4> QED BY <4>1, <1>2 DEF Unpinned
    <3>3. i \in Collectable(old)
      BY <2>2, <3>1, <3>2, <1>3 DEF Collectable
    <3> QED BY <2>2, <3>3, <1>1, <1>2
  <2> QED BY <2>1, <2>2
<1> QED BY <1>5, <1>6, <1>7, <1>8 DEF LedgerInv

-----------------------------------------------------------------------------
(* What the cache holds                                                      *)

LEMMA PageContiguous ==
    ASSUME TypeOK, LedgerInv, Timely, NEW c \in Cursors, NEW page \in Pages(c)
    PROVE  Contiguous(page, c)
<1>1. CASE page = Refusal
  BY <1>1 DEF Refusal, NoPage, Contiguous, GapFree
<1>2. CASE page # Refusal
  <2> DEFINE following == {i \in kept : i > c}
  <2>1. PICK frames \in SUBSET following :
          /\ page = [kind |-> "page", frames |-> frames, atHead |-> AtHead(frames, c),
                     terminal |-> LastRunOver]
          /\ \A i \in frames, j \in following \ frames : i < j
    BY <1>2 DEF Pages, PagesAfter, IsPrefix
  <2>2. c = Start \/ c \in kept
    BY <1>2 DEF Pages
  <2>3. /\ kept \subseteq DOMAIN log /\ DOMAIN log = 1..Len(log) /\ Len(log) \in Nat
        /\ c \in Nat
    BY ConstantsAssumption DEF TypeOK, Cursors
  <2>4. \A i \in kept, j \in DOMAIN log : i < j => j \in kept
    BY DEF LedgerInv, SuffixInv
  <2>5. GapFree(frames)
    <3> SUFFICES ASSUME NEW i \in frames, NEW j \in frames, NEW k \in i..j PROVE k \in frames
      BY DEF GapFree
    <3>1. /\ i \in kept /\ j \in kept /\ i \in Nat /\ j \in Nat /\ k \in Nat
          /\ c < i /\ i <= k /\ k <= j /\ j <= Len(log) /\ 1 <= i
      BY <2>3
    <3>2. k \in kept /\ k > c
      BY <3>1, <2>3, <2>4
    <3>3. k \in frames \/ j < k
      BY <3>2, <2>1
    <3> QED BY <3>1, <3>3
  <2>6. ASSUME c # Start, frames # {} PROVE c + 1 \in frames
    <3>1. PICK x : x \in frames
      BY <2>6
    <3>2. x \in kept /\ x \in Nat /\ c + 1 <= x /\ x <= Len(log)
      BY <3>1, <2>3
    <3>3. c + 1 \in DOMAIN log /\ c + 1 > c /\ c < c + 1
      BY <3>2, <2>3
    <3>4. c + 1 \in following
      BY <2>2, <2>4, <2>6, <3>3
    <3>5. c + 1 \in frames \/ x < c + 1
      BY <3>1, <3>4, <2>1
    <3> QED BY <3>2, <3>5, <2>3
  <2> HIDE DEF following
  <2>7. page.frames = frames
    BY <2>1
  <2> QED BY <2>5, <2>6, <2>7 DEF Contiguous
<1> QED BY <1>1, <1>2

LEMMA NoPageContiguous == \A c : Contiguous(NoPage, c)
BY DEF Contiguous, GapFree, NoPage

-----------------------------------------------------------------------------
(* The theorems                                                              *)

IInv == TypeOK /\ TurnInv /\ LedgerInv /\ OrderedLossless

LEMMA Quiet ==
    ASSUME IInv, TypeOK', UNCHANGED <<log, kept, submitted>>,
           \A c \in Cursors : cache'[c] = cache[c] \/ (Timely => Contiguous(cache'[c], c))
    PROVE  IInv'
<1>1. OpenTurns' = OpenTurns /\ (Timely' <=> Timely)
  BY DEF OpenTurns, Told, Timely
<1>2. TurnInv'
  BY <1>1 DEF IInv, TurnInv, RunsInv, HeadAnnounced, Announced, IsHead, Told
<1>3. LedgerInv'
  BY <1>1 DEF IInv, LedgerInv, HeadKept, OpenTurnKept, TxInv, SuffixInv
<1>4. OrderedLossless'
  BY <1>1 DEF IInv, OrderedLossless
<1> QED BY <1>2, <1>3, <1>4 DEF IInv

LEMMA Written ==
    ASSUME IInv, TypeOK', TurnInv', Grows, UNCHANGED cache,
           \A i \in DOMAIN log : log[i].run \in OpenTurns' => log[i].run \in OpenTurns
    PROVE  IInv'
<1>1. LedgerInv' /\ (Timely' => Timely)
  BY GrowthKeeps DEF IInv
<1>2. OrderedLossless'
  BY <1>1 DEF IInv, OrderedLossless
<1> QED BY <1>1, <1>2 DEF IInv

LEMMA Inductive == IInv /\ [Next]_vars => IInv'
<1> SUFFICES ASSUME IInv, [Next]_vars PROVE IInv'
  OBVIOUS
<1> TypeOK /\ TypeOK' /\ TurnInv /\ LedgerInv
  BY TypeInvariance DEF IInv
<1>1. ASSUME Submit PROVE IInv'
  <2>1. Submitted
    BY <1>1, SubmitAppends
  <2>2. Grows /\ UNCHANGED cache
    BY <2>1 DEF Submitted, Grows
  <2> QED BY <2>1, <2>2, SubmitTurns, Written DEF Settled
<1>2. ASSUME NEW t \in 1..Turns, NEW kinds \in Openings \cup Sequels, Tell(t, kinds)
      PROVE  IInv'
  <2>1. PICK next : Telling(t, kinds, next)
    BY <1>2, TellAppends
  <2>2. Grows /\ UNCHANGED cache
    BY <2>1 DEF Telling, Grows
  <2> QED BY <2>1, <2>2, TellTurns, Written DEF Settled
<1>3. ASSUME NEW old \in SUBSET DOMAIN log, NEW batch \in SUBSET Collectable(old),
             CollectGarbage(old, batch)
      PROVE  IInv'
  <2>1. UNCHANGED <<log, submitted, cache>>
    BY <1>3 DEF CollectGarbage
  <2>2. TurnInv'
    BY <2>1 DEF TurnInv, RunsInv, HeadAnnounced, Announced, IsHead, OpenTurns, Told
  <2>3. OrderedLossless'
    BY <2>1 DEF IInv, OrderedLossless, Timely
  <2> QED BY <1>3, <2>2, <2>3, GarbageKeeps DEF IInv
<1>4. ASSUME NEW c \in Cursors, Load(c) PROVE IInv'
  <2>1. PICK page \in Pages(c), stay \in SUBSET (Cached \ {c}) :
          cache' = [d \in Cursors |-> IF d = c THEN page
                                     ELSE IF d \in stay THEN cache[d] ELSE NoPage]
    BY <1>4 DEF Load
  <2>2. Timely => Contiguous(page, c)
    BY PageContiguous
  <2>3. \A d \in Cursors : cache'[d] = cache[d] \/ (Timely => Contiguous(cache'[d], d))
    BY <2>1, <2>2, NoPageContiguous
  <2> QED BY <1>4, <2>3, Quiet DEF Load
<1>5. ASSUME NEW c \in Cursors, Expire(c) PROVE IInv'
  <2>1. \A d \in Cursors : cache'[d] = cache[d] \/ (Timely => Contiguous(cache'[d], d))
    BY <1>5, NoPageContiguous DEF Expire, TypeOK
  <2> QED BY <1>5, <2>1, Quiet DEF Expire
<1>6. ASSUME UNCHANGED <<log, kept, submitted, cache>> PROVE IInv'
  BY <1>6, Quiet
<1>7. ASSUME NEW r \in Readers, NEW c \in Cursors, Connect(r, c) PROVE IInv'
  BY <1>6, <1>7 DEF Connect
<1>8. ASSUME NEW r \in Readers, TakeCached(r) \/ AwaitLoad(r) PROVE IInv'
  BY <1>6, <1>8 DEF TakeCached, AwaitLoad
<1>9. ASSUME NEW c \in Cursors, LoadFails(c) PROVE IInv'
  BY <1>6, <1>9 DEF LoadFails
<1>10. ASSUME Wake PROVE IInv'
  BY <1>6, <1>10 DEF Wake
<1>11. ASSUME UNCHANGED vars PROVE IInv'
  BY <1>6, <1>11 DEF vars
<1> QED BY <1>1, <1>2, <1>3, <1>4, <1>5, <1>7, <1>8, <1>9, <1>10, <1>11 DEF Next

LEMMA InitInv == Init => IInv
<1> SUFFICES ASSUME Init PROVE IInv
  OBVIOUS
<1>1. DOMAIN log = {} /\ Len(log) = 0 /\ submitted = 0 /\ kept = {}
  BY DEF Init
<1>2. TurnInv
  BY <1>1 DEF TurnInv, RunsInv, HeadAnnounced, Announced
<1>3. LedgerInv
  BY <1>1 DEF LedgerInv, HeadKept, OpenTurnKept, TxInv, SuffixInv
<1>4. OrderedLossless
  BY NoPageContiguous DEF Init, OrderedLossless
<1> QED BY <1>2, <1>3, <1>4, InitTypes DEF IInv

\* The inductive invariant: types, turns and their announcements, what the ledger
\* keeps, and what the cache holds.
THEOREM Invariance == Spec => []IInv
BY InitInv, Inductive, PTL DEF Spec

\* Every page that connections share omits nothing after its cursor, unless a
\* transaction began before commits that its frames follow.
THEOREM Lossless == Spec => []OrderedLossless
<1>1. IInv => OrderedLossless
  BY DEF IInv
<1> QED BY <1>1, Invariance, PTL

\* The collector takes no frame of an open turn.
THEOREM OpenTurnsKept == Spec => []OpenTurnKept
<1>1. IInv => OpenTurnKept
  BY DEF IInv, LedgerInv
<1> QED BY <1>1, Invariance, PTL

\* A reader can be served every frame: those after its cursor, and those of the
\* open turns.
THEOREM ReadersAreServed == Spec => []LedgerServed
<1>1. OrderedLossless /\ OpenTurnKept => LedgerServed
  BY DEF LedgerServed
<1> QED BY <1>1, Lossless, OpenTurnsKept, PTL

\* A page that is not at the head has frames, so that draining the ledger
\* advances with every page.
THEOREM DrainAdvances == Spec => []ReplayProgress
<1>1. ASSUME IInv PROVE ReplayProgress
  <2> SUFFICES ASSUME NEW c \in 0..Len(log), NEW page \in Pages(c),
                      page.kind = "page", ~page.atHead
               PROVE  page.frames # {}
    BY DEF ReplayProgress
  <2> DEFINE following == {i \in kept : i > c}
  <2>1. page # Refusal
    BY DEF Refusal, NoPage
  <2>2. PICK frames \in SUBSET following :
          /\ page = [kind |-> "page", frames |-> frames, atHead |-> AtHead(frames, c),
                     terminal |-> LastRunOver]
          /\ following # {} => frames # {}
    <3>1. page \in PagesAfter(following, c)
      BY <2>1 DEF Pages
    <3> HIDE DEF following
    <3> QED BY <3>1 DEF PagesAfter
  <2>3. Len(log) \in Nat /\ Len(log) # c
    <3>1. ~AtHead(frames, c)
      BY <2>2
    <3> QED BY <1>1, <3>1 DEF AtHead, IInv, TypeOK
  <2>4. c < Len(log)
    BY <2>3
  <2>5. Len(log) \in following
    BY <1>1, <2>4, <2>3 DEF IInv, LedgerInv, HeadKept
  <2> HIDE DEF following
  <2>6. page.frames = frames /\ frames # {}
    BY <2>2, <2>5
  <2> QED BY <2>6
<1> QED BY <1>1, Invariance, PTL
=============================================================================
