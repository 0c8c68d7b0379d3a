-------------------------- MODULE AgentStateProofs --------------------------
(***************************************************************************)
(* Theorems about AgentState, for every set of agents and all bounds: that *)
(* the agents without an info row are the untracked ones, and that an info *)
(* row is never anything but what one of its two writers has last seen.    *)
(***************************************************************************)
EXTENDS AgentState, SequenceTheorems, TLAPS

ChainEvent == [kind : Kinds, agent : Agent]

-----------------------------------------------------------------------------
(* What a history says of an agent, as a function of the history.          *)

OccurredIn(h, kind, a, k) ==
    { i \in 1 .. k : i <= Len(h) /\ h[i] = [kind |-> kind, agent |-> a] }
AvailableIn(h, a, k) ==
    \E i \in OccurredIn(h, "AgentAvailable", a, k) :
        \A j \in OccurredIn(h, "AvailableAgentExited", a, k) : j < i

LEMMA SameHistory ==
    /\ \A kind, a, k : Occurred(kind, a, k) = OccurredIn(history, kind, a, k)
    /\ \A a, k : Available(a, k) = AvailableIn(history, a, k)
BY DEF Occurred, OccurredIn, Available, AvailableIn

\* The past does not change.
LEMMA PastStays ==
    ASSUME NEW h \in Seq(ChainEvent), NEW e \in ChainEvent, NEW a, NEW k \in 0 .. Len(h)
    PROVE  /\ \A kind : OccurredIn(Append(h, e), kind, a, k) = OccurredIn(h, kind, a, k)
           /\ AvailableIn(Append(h, e), a, k) = AvailableIn(h, a, k)
<1>1. Len(Append(h, e)) = Len(h) + 1 /\ \A i \in 1 .. Len(h) : Append(h, e)[i] = h[i]
  BY AppendProperties
<1>2. ASSUME NEW kind
      PROVE  OccurredIn(Append(h, e), kind, a, k) = OccurredIn(h, kind, a, k)
  BY <1>1 DEF OccurredIn
<1>3. QED
  BY <1>2 DEF AvailableIn

\* One event further.
LEMMA NextEvent ==
    ASSUME NEW h \in Seq(ChainEvent), NEW k \in Nat, k + 1 <= Len(h), NEW kind, NEW a
    PROVE  OccurredIn(h, kind, a, k + 1) =
               OccurredIn(h, kind, a, k)
               \cup (IF h[k + 1] = [kind |-> kind, agent |-> a] THEN {k + 1} ELSE {})
BY DEF OccurredIn

LEMMA AvailabilityAfter ==
    ASSUME NEW h \in Seq(ChainEvent), NEW k \in Nat, k + 1 <= Len(h), NEW a
    PROVE  /\ h[k + 1] = [kind |-> "AgentAvailable", agent |-> a] => AvailableIn(h, a, k + 1)
           /\ h[k + 1] = [kind |-> "AvailableAgentExited", agent |-> a] =>
                  ~AvailableIn(h, a, k + 1)
           /\ (h[k + 1].agent # a
               \/ h[k + 1].kind \notin {"AgentAvailable", "AvailableAgentExited"}) =>
                  AvailableIn(h, a, k + 1) = AvailableIn(h, a, k)
<1> DEFINE Entered(n) == OccurredIn(h, "AgentAvailable", a, n)
           Left(n) == OccurredIn(h, "AvailableAgentExited", a, n)
<1>1. \A n \in Nat : \A i \in Entered(n) \cup Left(n) : i \in 1 .. n
  BY DEF OccurredIn
<1> DEFINE In == [kind |-> "AgentAvailable", agent |-> a]
           Out == [kind |-> "AvailableAgentExited", agent |-> a]
<1>2. /\ In.kind = "AgentAvailable" /\ In.agent = a
      /\ Out.kind = "AvailableAgentExited" /\ Out.agent = a
      /\ In # Out
  <2>1. In.kind = "AgentAvailable" /\ In.agent = a
    OBVIOUS
  <2>2. Out.kind = "AvailableAgentExited" /\ Out.agent = a
    OBVIOUS
  <2>3. QED
    BY <2>1, <2>2
<1>3. /\ Entered(k + 1) = Entered(k) \cup (IF h[k + 1] = In THEN {k + 1} ELSE {})
      /\ Left(k + 1) = Left(k) \cup (IF h[k + 1] = Out THEN {k + 1} ELSE {})
  BY NextEvent
<1>4. ASSUME h[k + 1] = In
      PROVE  AvailableIn(h, a, k + 1)
  <2>1. Entered(k + 1) = Entered(k) \cup {k + 1} /\ Left(k + 1) = Left(k)
    BY <1>2, <1>3, <1>4
  <2>2. \A j \in Left(k + 1) : j < k + 1
    BY <1>1, <2>1
  <2>3. QED
    BY <2>1, <2>2 DEF AvailableIn
<1>5. ASSUME h[k + 1] = Out
      PROVE  ~AvailableIn(h, a, k + 1)
  <2>1. Left(k + 1) = Left(k) \cup {k + 1}
    BY <1>3, <1>5
  <2>2. \A i \in Entered(k + 1) : ~(k + 1 < i)
    BY <1>1
  <2>3. QED
    BY <2>1, <2>2 DEF AvailableIn
<1>6. ASSUME h[k + 1] # In, h[k + 1] # Out
      PROVE  AvailableIn(h, a, k + 1) = AvailableIn(h, a, k)
  <2>1. Left(k + 1) = Left(k) /\ Entered(k + 1) = Entered(k)
    BY <1>3, <1>6
  <2>2. QED
    BY <2>1 DEF AvailableIn
<1>7. h[k + 1].agent # a \/ h[k + 1].kind \notin {"AgentAvailable", "AvailableAgentExited"}
      => h[k + 1] # In /\ h[k + 1] # Out
  <2> HIDE DEF In, Out
  <2>1. QED
    BY <1>2
<1>8. QED
  BY <1>4, <1>5, <1>6, <1>7

-----------------------------------------------------------------------------
(* The inductive invariant.                                                *)

\* A vault is created once.
HistoryInv ==
    /\ history \in Seq(ChainEvent) /\ handled \in 0 .. Len(history)
    /\ \A i, j \in 1 .. Len(history) :
           /\ history[i].kind = "AgentVaultCreated" /\ history[j].kind = "AgentVaultCreated"
           /\ history[i].agent = history[j].agent
           => i = j

RowInv ==
    /\ vault \in [DOMAIN vault -> BOOLEAN] /\ info \in [DOMAIN info -> BOOLEAN]
    /\ DOMAIN vault = { a \in Agent : OccurredIn(history, "AgentVaultCreated", a, handled) # {} }
    /\ gone = { a \in Agent : OccurredIn(history, "AgentDestroyed", a, handled) # {} }
    /\ untracked \subseteq DOMAIN vault
    /\ DOMAIN info = DOMAIN vault \ untracked /\ DOMAIN seen = DOMAIN info
    /\ \A a \in DOMAIN seen : seen[a] \in 0 .. Len(history)

\* A round only touches agents that have an info row, and an info row stays.
RoundInv ==
    /\ inRound \in BOOLEAN /\ todo \subseteq DOMAIN vault
    /\ got # <<>> => got[1] \in DOMAIN info /\ got[2] \in 0 .. Len(history)
    /\ pending \in [DOMAIN pending -> 0 .. Len(history)]
    /\ DOMAIN pending \subseteq DOMAIN info

\* What a handler has read is still in the row, or a round has written it.
ReadingInv ==
    reading # <<>> =>
        /\ handled < Len(history)
        /\ Subject \in Agent
        /\ Due("AgentVaultCreated") => reading[1] \in 0 .. Len(history)
        /\ ~Due("AgentVaultCreated") =>
               /\ DueAvailability /\ Subject \in DOMAIN info /\ reading[1] \in BOOLEAN
               /\ \/ info[Subject] = reading[1]
                  \/ info[Subject] = AvailableIn(history, Subject, seen[Subject])

Explained(a) ==
    \/ info[a] = AvailableIn(history, a, handled)
    \/ info[a] = AvailableIn(history, a, seen[a])

ExplainedInv == \A a \in DOMAIN info : Explained(a)

IInv == HistoryInv /\ RowInv /\ RoundInv /\ ReadingInv /\ ExplainedInv

-----------------------------------------------------------------------------
LEMMA Initially == Init => IInv
<1> SUFFICES ASSUME Init
             PROVE  IInv
  OBVIOUS
<1>1. /\ history = <<>> /\ handled = 0
      /\ vault = <<>> /\ info = <<>> /\ untracked = {} /\ gone = {} /\ reading = <<>>
      /\ inRound = FALSE /\ todo = {} /\ got = <<>> /\ pending = <<>> /\ seen = <<>>
  BY DEF Init
<1>2. \A kind, a : OccurredIn(<<>>, kind, a, 0) = {}
  BY DEF OccurredIn
<1>3. HistoryInv
  BY <1>1 DEF HistoryInv
<1>4. DOMAIN vault = {} /\ DOMAIN info = {} /\ DOMAIN seen = {} /\ DOMAIN pending = {}
  BY <1>1
<1>5. /\ vault \in [DOMAIN vault -> BOOLEAN] /\ info \in [DOMAIN info -> BOOLEAN]
      /\ pending \in [DOMAIN pending -> 0 .. Len(history)]
  BY <1>1
<1>6. /\ { a \in Agent : OccurredIn(history, "AgentVaultCreated", a, handled) # {} } = {}
      /\ { a \in Agent : OccurredIn(history, "AgentDestroyed", a, handled) # {} } = {}
  BY <1>1, <1>2
<1>7. RowInv
  BY <1>1, <1>4, <1>5, <1>6 DEF RowInv
<1>8. RoundInv /\ ReadingInv /\ ExplainedInv
  BY <1>1, <1>4, <1>5 DEF RoundInv, ReadingInv, ExplainedInv
<1>9. QED
  BY <1>3, <1>7, <1>8 DEF IInv

\* The event of the handler at hand.
LEMMA SubjectIs ==
    ASSUME HistoryInv, NEW kind, Due(kind)
    PROVE  /\ handled \in Nat /\ handled + 1 <= Len(history)
           /\ Subject \in Agent
           /\ history[handled + 1] = [kind |-> kind, agent |-> Subject]
           /\ \A a : a # Subject => history[handled + 1].agent # a
<1>1. handled \in Nat /\ handled + 1 \in 1 .. Len(history)
  BY DEF HistoryInv, Due
<1>2. history[handled + 1] \in ChainEvent
  BY <1>1 DEF HistoryInv
<1>3. QED
  BY <1>1, <1>2 DEF Due, Subject, ChainEvent

\* A vault that is being created has no row yet.
LEMMA NewVault ==
    ASSUME HistoryInv, RowInv, Due("AgentVaultCreated")
    PROVE  Subject \notin DOMAIN vault
<1>1. /\ handled \in Nat /\ handled + 1 \in 1 .. Len(history)
      /\ history[handled + 1] = [kind |-> "AgentVaultCreated", agent |-> Subject]
  BY SubjectIs DEF HistoryInv
<1>2. ASSUME NEW i \in OccurredIn(history, "AgentVaultCreated", Subject, handled)
      PROVE  FALSE
  <2>1. /\ i \in 1 .. handled /\ i \in 1 .. Len(history)
        /\ history[i] = [kind |-> "AgentVaultCreated", agent |-> Subject]
    BY <1>1, <1>2 DEF OccurredIn
  <2>2. i = handled + 1
    BY <1>1, <2>1 DEF HistoryInv
  <2>3. QED
    BY <1>1, <2>1, <2>2
<1>3. QED
  BY <1>2 DEF RowInv

\* What the commit of a handler adds to the sets that follow the history.
LEMMA RowsAfter ==
    ASSUME HistoryInv, NEW kind, Due(kind), NEW k \in {"AgentVaultCreated", "AgentDestroyed"}
    PROVE  { a \in Agent : OccurredIn(history, k, a, handled + 1) # {} }
           = { a \in Agent : OccurredIn(history, k, a, handled) # {} }
             \cup (IF kind = k THEN {Subject} ELSE {})
<1>1. /\ handled \in Nat /\ handled + 1 <= Len(history) /\ Subject \in Agent
      /\ history[handled + 1] = [kind |-> kind, agent |-> Subject]
  BY SubjectIs
<1>2. ASSUME NEW a \in Agent
      PROVE  (OccurredIn(history, k, a, handled + 1) # {})
             <=> (OccurredIn(history, k, a, handled) # {} \/ (kind = k /\ a = Subject))
  <2>1. OccurredIn(history, k, a, handled + 1) =
            OccurredIn(history, k, a, handled)
            \cup (IF history[handled + 1] = [kind |-> k, agent |-> a] THEN {handled + 1} ELSE {})
    <3>1. history \in Seq(ChainEvent)
      BY DEF HistoryInv
    <3>2. QED
      BY <1>1, <3>1, NextEvent, ZenonT(60)
  <2>2. history[handled + 1] = [kind |-> k, agent |-> a] <=> (kind = k /\ a = Subject)
    BY <1>1
  <2>3. QED
    BY <2>1, <2>2
<1>3. QED
  BY <1>1, <1>2

-----------------------------------------------------------------------------
LEMMA EmitPreserves ==
    ASSUME IInv, Emit
    PROVE  IInv'
<1>1. PICK e \in ChainEvent : Emittable(e) /\ history' = Append(history, e)
  BY DEF Emit, ChainEvent
<1>2. /\ history \in Seq(ChainEvent) /\ history' \in Seq(ChainEvent)
      /\ Len(history) \in Nat /\ Len(history') = Len(history) + 1
      /\ \A i \in 1 .. Len(history) : history'[i] = history[i]
      /\ history'[Len(history) + 1] = e
  BY <1>1, AppendProperties DEF IInv, HistoryInv
<1>3. \A a : \A k \in 0 .. Len(history) :
          /\ AvailableIn(history', a, k) = AvailableIn(history, a, k)
          /\ \A kind : OccurredIn(history', kind, a, k) = OccurredIn(history, kind, a, k)
  <2>1. ASSUME NEW a, NEW k \in 0 .. Len(history)
        PROVE  /\ AvailableIn(history', a, k) = AvailableIn(history, a, k)
               /\ \A kind : OccurredIn(history', kind, a, k) = OccurredIn(history, kind, a, k)
    <3>1. /\ AvailableIn(Append(history, e), a, k) = AvailableIn(history, a, k)
          /\ \A kind : OccurredIn(Append(history, e), kind, a, k) = OccurredIn(history, kind, a, k)
      <4>1. history \in Seq(ChainEvent) /\ e \in ChainEvent
        BY <1>2
      <4>2. QED
        BY <4>1, PastStays
    <3>2. QED
      BY <3>1, <1>1
  <2>2. QED
    BY <2>1
<1>4. handled' = handled /\ vault' = vault /\ info' = info /\ untracked' = untracked
      /\ gone' = gone /\ reading' = reading /\ inRound' = inRound /\ todo' = todo /\ got' = got
      /\ pending' = pending /\ seen' = seen
  BY DEF Emit, indexerVars, watchdogVars, infoVars
<1>5. HistoryInv'
  <2>1. ASSUME e.kind = "AgentVaultCreated", NEW i \in 1 .. Len(history),
               history[i].kind = "AgentVaultCreated", history[i].agent = e.agent
        PROVE  FALSE
    <3>1. Occurred("AgentVaultCreated", e.agent, Len(history)) = {}
      BY <1>1, <2>1 DEF Emittable
    <3>2. history[i] \in ChainEvent
      BY <1>2
    <3>3. history[i] = [kind |-> "AgentVaultCreated", agent |-> e.agent]
      BY <2>1, <3>2 DEF ChainEvent
    <3>4. QED
      BY <1>2, <3>1, <3>3 DEF Occurred
  <2>2. QED
    BY <1>2, <1>4, <2>1 DEF IInv, HistoryInv
<1>6. RowInv' /\ RoundInv'
  <2>1. handled \in 0 .. Len(history) /\ 0 .. Len(history) \subseteq 0 .. Len(history')
    BY <1>2 DEF IInv, HistoryInv
  <2>2. \A kind, a : OccurredIn(history', kind, a, handled) = OccurredIn(history, kind, a, handled)
    BY <1>3, <2>1
  <2>3. RowInv'
    BY <1>4, <2>1, <2>2 DEF IInv, RowInv
  <2>4. RoundInv'
    BY <1>4, <2>1 DEF IInv, RoundInv
  <2>5. QED
    BY <2>3, <2>4
<1>7. ReadingInv'
  <2>1. SUFFICES ASSUME reading # <<>>
                 PROVE  ReadingInv'
    BY <1>4 DEF ReadingInv
  <2>2. /\ handled + 1 \in 1 .. Len(history) /\ Subject' = Subject
        /\ \A kind \in Kinds : Due(kind)' <=> Due(kind)
    BY <1>2, <1>4, <2>1 DEF IInv, HistoryInv, ReadingInv, Subject, Due
  <2>3. DueAvailability' <=> DueAvailability
    BY <2>2 DEF DueAvailability, Kinds
  <2>4. Subject \in DOMAIN info =>
            AvailableIn(history', Subject, seen[Subject]) = AvailableIn(history, Subject, seen[Subject])
    BY <1>3 DEF IInv, RowInv
  <2>5. Due("AgentVaultCreated")' <=> Due("AgentVaultCreated")
    BY <2>2 DEF Kinds
  <2>6. handled < Len(history) /\ handled' < Len(history') /\ Subject' \in Agent
    BY <1>2, <1>4, <2>1, <2>2 DEF IInv, HistoryInv, ReadingInv
  <2>7. CASE Due("AgentVaultCreated")
    BY <1>2, <1>4, <2>1, <2>5, <2>6, <2>7 DEF IInv, ReadingInv
  <2>8. CASE ~Due("AgentVaultCreated")
    <3>1. /\ DueAvailability /\ Subject \in DOMAIN info /\ reading[1] \in BOOLEAN
          /\ \/ info[Subject] = reading[1]
             \/ info[Subject] = AvailableIn(history, Subject, seen[Subject])
      BY <2>1, <2>8 DEF IInv, ReadingInv
    <3>2. /\ Subject' \in DOMAIN info' /\ reading'[1] \in BOOLEAN
          /\ \/ info'[Subject'] = reading'[1]
             \/ info'[Subject'] = AvailableIn(history', Subject', seen'[Subject'])
      BY <1>4, <2>2, <2>4, <3>1
    <3>3. QED
      BY <2>3, <2>5, <2>6, <2>8, <3>1, <3>2 DEF ReadingInv
  <2>9. QED
    BY <2>7, <2>8
<1>8. ExplainedInv'
  BY <1>3, <1>4 DEF IInv, HistoryInv, RowInv, ExplainedInv, Explained
<1>9. QED
  BY <1>5, <1>6, <1>7, <1>8 DEF IInv

-----------------------------------------------------------------------------
(* The handlers.                                                           *)

LEMMA CommitMovesOn ==
    ASSUME HistoryInv, NEW kind, Due(kind), Commit
    PROVE  HistoryInv' /\ ReadingInv'
<1>1. handled \in Nat /\ handled + 1 <= Len(history)
  BY SubjectIs
<1>2. HistoryInv'
  BY <1>1 DEF HistoryInv, Commit
<1>3. QED
  BY <1>2 DEF Commit, ReadingInv

\* The event of a handler changes the availability of no other agent, nor of
\* its own unless it is about that.
LEMMA AvailabilityStays ==
    ASSUME HistoryInv, NEW kind, Due(kind), NEW a,
           a # Subject \/ kind \notin {"AgentAvailable", "AvailableAgentExited"}
    PROVE  AvailableIn(history, a, handled + 1) = AvailableIn(history, a, handled)
<1>1. /\ handled \in Nat /\ handled + 1 <= Len(history) /\ history \in Seq(ChainEvent)
      /\ history[handled + 1] = [kind |-> kind, agent |-> Subject]
      /\ a # Subject => history[handled + 1].agent # a
  BY SubjectIs DEF HistoryInv
<1>2. \/ history[handled + 1].agent # a
      \/ history[handled + 1].kind \notin {"AgentAvailable", "AvailableAgentExited"}
  BY <1>1
<1>3. QED
  BY <1>1, <1>2, AvailabilityAfter

LEMMA CreateVaultPreserves ==
    ASSUME IInv, CreateVault
    PROVE  IInv'
<1>1. /\ Due("AgentVaultCreated") /\ Commit /\ reading # <<>>
      /\ HistoryInv /\ RowInv /\ Subject \in Agent /\ Subject \notin DOMAIN vault
  BY NewVault, SubjectIs DEF CreateVault, IInv
<1>2. /\ handled' = handled + 1 /\ history' = history /\ untracked' = untracked /\ gone' = gone
      /\ inRound' = inRound /\ todo' = todo /\ got' = got /\ pending' = pending
      /\ reading[1] \in 0 .. Len(history)
  BY <1>1 DEF CreateVault, Commit, watchdogVars, IInv, ReadingInv
<1>3. /\ vault' = [a \in DOMAIN vault \cup {Subject} |-> IF a = Subject THEN FALSE ELSE vault[a]]
      /\ info' = [a \in DOMAIN info \cup {Subject} |->
                     IF a = Subject THEN AvailableIn(history, Subject, reading[1]) ELSE info[a]]
      /\ seen' = [a \in DOMAIN seen \cup {Subject} |-> IF a = Subject THEN reading[1] ELSE seen[a]]
  BY SameHistory DEF CreateVault, Put
<1>4. AvailableIn(history, Subject, reading[1]) \in BOOLEAN
  BY DEF AvailableIn
<1>5. RowInv'
  <2>1. /\ vault' \in [DOMAIN vault' -> BOOLEAN] /\ info' \in [DOMAIN info' -> BOOLEAN]
        /\ \A a \in DOMAIN seen' : seen'[a] \in 0 .. Len(history)
    BY <1>1, <1>2, <1>3, <1>4 DEF RowInv
  <2>2. /\ DOMAIN vault' = DOMAIN vault \cup {Subject} /\ DOMAIN info' = DOMAIN info \cup {Subject}
        /\ DOMAIN seen' = DOMAIN seen \cup {Subject}
    BY <1>3
  <2>3. /\ DOMAIN vault' = { a \in Agent : OccurredIn(history, "AgentVaultCreated", a, handled + 1) # {} }
        /\ gone = { a \in Agent : OccurredIn(history, "AgentDestroyed", a, handled + 1) # {} }
    BY <1>1, <2>2, RowsAfter DEF RowInv
  <2>4. QED
    BY <1>1, <1>2, <2>1, <2>2, <2>3 DEF RowInv
<1>6. RoundInv'
  BY <1>2, <1>3 DEF IInv, RoundInv
<1>7. ExplainedInv'
  <2>1. ASSUME NEW a \in DOMAIN info'
        PROVE  Explained(a)'
    <3>1. CASE a = Subject
      BY <1>2, <1>3, <2>1, <3>1 DEF Explained, RowInv
    <3>2. CASE a # Subject
      <4>1. a \in DOMAIN info /\ info'[a] = info[a] /\ seen'[a] = seen[a]
        BY <1>1, <1>3, <2>1, <3>2 DEF RowInv
      <4>2. AvailableIn(history, a, handled + 1) = AvailableIn(history, a, handled)
        BY <1>1, <3>2, AvailabilityStays
      <4>3. QED
        BY <1>2, <4>1, <4>2 DEF IInv, ExplainedInv, Explained
    <3>3. QED
      BY <3>1, <3>2
  <2>2. QED
    BY <2>1 DEF ExplainedInv
<1>8. QED
  BY <1>1, <1>5, <1>6, <1>7, CommitMovesOn DEF IInv

\* Handlers that leave the info rows alone.
LEMMA RowlessPreserves ==
    ASSUME IInv, CreateUntracked \/ SkipUntracked \/ DestroyVault
    PROVE  IInv'
<1>1. /\ HistoryInv /\ RowInv /\ Commit /\ handled' = handled + 1 /\ history' = history
      /\ info' = info /\ seen' = seen
      /\ inRound' = inRound /\ todo' = todo /\ got' = got /\ pending' = pending
  BY DEF IInv, CreateUntracked, SkipUntracked, DestroyVault, Commit, infoVars, watchdogVars
<1>2. PICK kind \in Kinds : Due(kind)
  BY DEF CreateUntracked, SkipUntracked, DestroyVault, DueAvailability, Kinds
<1>3. RowInv' /\ DOMAIN vault \subseteq DOMAIN vault'
  <2>1. CASE CreateUntracked
    <3>1. /\ Due("AgentVaultCreated") /\ Subject \in Agent /\ Subject \notin DOMAIN vault
          /\ vault' = [a \in DOMAIN vault \cup {Subject} |-> IF a = Subject THEN TRUE ELSE vault[a]]
          /\ untracked' = untracked \cup {Subject} /\ gone' = gone
      BY <1>1, <2>1, NewVault, SubjectIs DEF CreateUntracked, Put
    <3>2. /\ vault' \in [DOMAIN vault' -> BOOLEAN] /\ DOMAIN vault' = DOMAIN vault \cup {Subject}
      BY <1>1, <3>1 DEF RowInv
    <3>3. /\ DOMAIN vault' = { a \in Agent : OccurredIn(history, "AgentVaultCreated", a, handled + 1) # {} }
          /\ gone = { a \in Agent : OccurredIn(history, "AgentDestroyed", a, handled + 1) # {} }
      BY <1>1, <3>1, <3>2, RowsAfter DEF RowInv
    <3>4. QED
      BY <1>1, <3>1, <3>2, <3>3 DEF RowInv
  <2>2. CASE SkipUntracked
    <3>1. /\ Due("AgentAvailable") \/ Due("AvailableAgentExited")
          /\ vault' = vault /\ untracked' = untracked /\ gone' = gone
      BY <2>2 DEF SkipUntracked, DueAvailability
    <3>2. /\ DOMAIN vault = { a \in Agent : OccurredIn(history, "AgentVaultCreated", a, handled + 1) # {} }
          /\ gone = { a \in Agent : OccurredIn(history, "AgentDestroyed", a, handled + 1) # {} }
      BY <1>1, <3>1, RowsAfter DEF RowInv
    <3>3. QED
      BY <1>1, <3>1, <3>2 DEF RowInv
  <2>3. CASE DestroyVault
    <3>1. /\ Due("AgentDestroyed") /\ vault' = vault /\ untracked' = untracked
          /\ gone' = gone \cup {Subject}
      BY <2>3 DEF DestroyVault
    <3>2. /\ DOMAIN vault = { a \in Agent : OccurredIn(history, "AgentVaultCreated", a, handled + 1) # {} }
          /\ gone' = { a \in Agent : OccurredIn(history, "AgentDestroyed", a, handled + 1) # {} }
      BY <1>1, <3>1, RowsAfter DEF RowInv
    <3>3. QED
      BY <1>1, <3>1, <3>2 DEF RowInv
  <2>4. QED
    BY <2>1, <2>2, <2>3
<1>4. RoundInv'
  BY <1>1, <1>3 DEF IInv, RoundInv
<1>5. ExplainedInv'
  <2>1. ASSUME NEW a \in DOMAIN info
        PROVE  AvailableIn(history, a, handled + 1) = AvailableIn(history, a, handled)
    <3>1. CASE SkipUntracked
      <4>1. a # Subject
        BY <1>1, <2>1, <3>1 DEF SkipUntracked, RowInv
      <4>2. QED
        BY <1>1, <1>2, <4>1, AvailabilityStays
    <3>2. CASE CreateUntracked \/ DestroyVault
      <4>1. Due("AgentVaultCreated") \/ Due("AgentDestroyed")
        BY <3>2 DEF CreateUntracked, DestroyVault
      <4>2. QED
        BY <1>1, <4>1, AvailabilityStays
    <3>3. QED
      BY <3>1, <3>2
  <2>2. QED
    BY <1>1, <2>1 DEF IInv, ExplainedInv, Explained
<1>6. QED
  BY <1>1, <1>2, <1>3, <1>4, <1>5, CommitMovesOn DEF IInv

\* The one handler that writes an info row a round may write too.
LEMMA SetAvailabilityPreserves ==
    ASSUME IInv, SetAvailability
    PROVE  IInv'
<1> DEFINE available == Due("AgentAvailable")
<1>1. /\ HistoryInv /\ RowInv /\ Commit /\ handled' = handled + 1 /\ history' = history
      /\ vault' = vault /\ untracked' = untracked /\ gone' = gone /\ seen' = seen
      /\ inRound' = inRound /\ todo' = todo /\ got' = got /\ pending' = pending
      /\ info' = info \/ info' = [info EXCEPT ![Subject] = available]
      /\ reading # <<>> /\ DueAvailability
  BY DEF IInv, SetAvailability, Commit, watchdogVars
<1>2. /\ handled \in Nat /\ handled + 1 <= Len(history) /\ history \in Seq(ChainEvent)
      /\ Due("AgentAvailable") \/ Due("AvailableAgentExited")
      /\ ~Due("AgentVaultCreated")
  BY <1>1, SubjectIs DEF DueAvailability, HistoryInv, Due
<1>3. /\ Subject \in DOMAIN info
      /\ info[Subject] = reading[1] \/ info[Subject] = AvailableIn(history, Subject, seen[Subject])
  BY <1>1, <1>2 DEF IInv, ReadingInv
<1>4. available \in BOOLEAN
  BY DEF Due
<1>5. DOMAIN info' = DOMAIN info /\ info' \in [DOMAIN info' -> BOOLEAN]
  BY <1>1, <1>4 DEF RowInv
<1>6. RowInv'
  <2>1. /\ DOMAIN vault = { a \in Agent : OccurredIn(history, "AgentVaultCreated", a, handled + 1) # {} }
        /\ gone = { a \in Agent : OccurredIn(history, "AgentDestroyed", a, handled + 1) # {} }
    BY <1>1, <1>2, RowsAfter DEF RowInv
  <2>2. QED
    BY <1>1, <1>5, <2>1 DEF RowInv
<1>7. RoundInv'
  BY <1>1, <1>5 DEF IInv, RoundInv
<1>8. AvailableIn(history, Subject, handled + 1) = available
  <2>1. CASE Due("AgentAvailable")
    <3>1. history[handled + 1] = [kind |-> "AgentAvailable", agent |-> Subject]
      BY <1>1, <2>1, SubjectIs
    <3>2. AvailableIn(history, Subject, handled + 1)
      BY <1>2, <3>1, AvailabilityAfter
    <3>3. AvailableIn(history, Subject, handled + 1) = TRUE
      BY <3>2 DEF AvailableIn
    <3>4. Due("AgentAvailable") = TRUE
      BY <2>1 DEF Due
    <3>5. QED
      BY <3>3, <3>4
  <2>2. CASE Due("AvailableAgentExited")
    <3>1. history[handled + 1] = [kind |-> "AvailableAgentExited", agent |-> Subject]
      BY <1>1, <2>2, SubjectIs
    <3>2. ~AvailableIn(history, Subject, handled + 1)
      BY <1>2, <3>1, AvailabilityAfter
    <3>3. ~Due("AgentAvailable")
      BY <2>2 DEF Due
    <3>4. AvailableIn(history, Subject, handled + 1) = FALSE
      BY <3>2 DEF AvailableIn
    <3>5. Due("AgentAvailable") = FALSE
      BY <3>3 DEF Due
    <3>6. QED
      BY <3>4, <3>5
  <2>3. QED
    BY <1>2, <2>1, <2>2
<1>9. ASSUME NEW a \in DOMAIN info
      PROVE  Explained(a)'
  <2>1. CASE a # Subject
    <3>1. info'[a] = info[a]
      BY <1>1, <2>1
    <3>2. AvailableIn(history, a, handled + 1) = AvailableIn(history, a, handled)
      BY <1>1, <1>2, <2>1, AvailabilityStays
    <3>3. QED
      BY <1>1, <3>1, <3>2 DEF IInv, ExplainedInv, Explained
  <2>2. CASE a = Subject
    <3>1. CASE info' = info /\ reading[1] = available
      BY <1>1, <1>3, <1>8, <2>2, <3>1 DEF Explained
    <3>2. CASE info' = [info EXCEPT ![Subject] = available]
      BY <1>1, <1>3, <1>8, <2>2, <3>2 DEF Explained
    <3>3. QED
      BY <3>1, <3>2 DEF SetAvailability
  <2>3. QED
    BY <2>1, <2>2
<1>10. ExplainedInv'
  BY <1>5, <1>9 DEF ExplainedInv
<1>11. QED
  BY <1>1, <1>2, <1>6, <1>7, <1>10, CommitMovesOn DEF IInv

LEMMA ReadingPreserves ==
    ASSUME IInv, ReadAgentInfo \/ ReadAvailability \/ HandlerFails
    PROVE  IInv'
<1>1. /\ handled' = handled /\ history' = history
      /\ vault' = vault /\ info' = info /\ seen' = seen /\ untracked' = untracked /\ gone' = gone
      /\ inRound' = inRound /\ todo' = todo /\ got' = got /\ pending' = pending
  BY DEF ReadAgentInfo, ReadAvailability, HandlerFails, infoVars, watchdogVars
<1>2. HistoryInv' /\ RowInv' /\ RoundInv' /\ ExplainedInv'
  BY <1>1 DEF IInv, HistoryInv, RowInv, RoundInv, ExplainedInv, Explained
<1>3. ReadingInv'
  <2>1. CASE ReadAgentInfo
    <3>1. Due("AgentVaultCreated") /\ handled < Len(history) /\ reading' = <<Len(history)>>
      BY <2>1 DEF ReadAgentInfo, Due
    <3>2. Subject \in Agent
      BY <3>1, SubjectIs DEF IInv
    <3>3. Len(history) \in 0 .. Len(history)
      BY DEF IInv, HistoryInv
    <3>4. reading'[1] = Len(history)
      BY <3>1
    <3>5. Subject' = Subject /\ Due("AgentVaultCreated")'
      BY <1>1, <3>1 DEF Subject, Due
    <3>6. QED
      BY <1>1, <3>1, <3>2, <3>3, <3>4, <3>5 DEF ReadingInv
  <2>2. CASE ReadAvailability
    <3>1. /\ DueAvailability /\ handled < Len(history) /\ Subject \in Agent
          /\ ~Due("AgentVaultCreated")
      BY <2>2, SubjectIs DEF ReadAvailability, DueAvailability, IInv, HistoryInv, Due
    <3>2. /\ Subject \in DOMAIN info /\ reading' = <<info[Subject]>> /\ info[Subject] \in BOOLEAN
      BY <2>2 DEF ReadAvailability, IInv, RowInv
    <3>3. reading'[1] = info[Subject]
      BY <3>2
    <3>4. /\ Subject' = Subject /\ DueAvailability' = DueAvailability
          /\ Due("AgentVaultCreated")' = Due("AgentVaultCreated")
      BY <1>1 DEF Subject, Due, DueAvailability
    <3>5. QED
      BY <1>1, <3>1, <3>2, <3>3, <3>4 DEF ReadingInv
  <2>3. CASE HandlerFails
    BY <2>3 DEF HandlerFails, ReadingInv
  <2>4. QED
    BY <2>1, <2>2, <2>3
<1>4. QED
  BY <1>2, <1>3 DEF IInv

-----------------------------------------------------------------------------
(* The watchdog.                                                           *)

LEMMA RoundPreserves ==
    ASSUME IInv, BeginRound \/ UpsertAgentInfo \/ RoundFails \/ \E a \in Agent : GetAgentInfo(a)
    PROVE  IInv'
<1>1. /\ handled' = handled /\ history' = history /\ reading' = reading
      /\ vault' = vault /\ info' = info /\ seen' = seen /\ untracked' = untracked /\ gone' = gone
  BY DEF BeginRound, UpsertAgentInfo, RoundFails, GetAgentInfo, Leave, indexerVars, infoVars
<1>2. HistoryInv' /\ RowInv' /\ ExplainedInv'
  BY <1>1 DEF IInv, HistoryInv, RowInv, ExplainedInv, Explained
<1>3. ReadingInv'
  BY <1>1 DEF IInv, ReadingInv, Subject, Due, DueAvailability
<1>4. RoundInv'
  <2>1. CASE BeginRound
    BY <1>1, <2>1 DEF BeginRound, IInv, RoundInv
  <2>2. ASSUME NEW a \in Agent, GetAgentInfo(a)
        PROVE  RoundInv'
    <3>1. a \in DOMAIN vault /\ Len(history) \in 0 .. Len(history)
      BY <2>2 DEF GetAgentInfo, IInv, HistoryInv, RoundInv
    <3>2. CASE a \notin untracked /\ got' = <<a, Len(history)>> /\ todo' = todo
      <4>1. a \in DOMAIN info /\ got'[1] = a /\ got'[2] = Len(history)
        BY <3>1, <3>2 DEF IInv, RowInv
      <4>2. QED
        BY <1>1, <2>2, <3>1, <3>2, <4>1 DEF GetAgentInfo, IInv, RoundInv
    <3>3. CASE todo' = todo \ {a} /\ got' = got
      BY <1>1, <2>2, <3>3 DEF GetAgentInfo, IInv, RoundInv
    <3>4. QED
      BY <2>2, <3>2, <3>3 DEF GetAgentInfo
  <2>3. CASE UpsertAgentInfo
    <3>1. /\ pending' = [a \in DOMAIN pending \cup {got[1]} |->
                             IF a = got[1] THEN got[2] ELSE pending[a]]
          /\ todo' = todo \ {got[1]} /\ got' = <<>> /\ inRound' = inRound
          /\ got[1] \in DOMAIN info /\ got[2] \in 0 .. Len(history)
      BY <2>3 DEF UpsertAgentInfo, Put, IInv, RoundInv
    <3>2. /\ pending' \in [DOMAIN pending' -> 0 .. Len(history)]
          /\ DOMAIN pending' = DOMAIN pending \cup {got[1]}
      BY <3>1 DEF IInv, RoundInv
    <3>3. QED
      BY <1>1, <3>1, <3>2 DEF IInv, RoundInv
  <2>4. CASE RoundFails
    <3>1. inRound' = FALSE /\ todo' = {} /\ got' = <<>> /\ pending' = <<>>
      BY <2>4 DEF RoundFails, Leave
    <3>2. DOMAIN pending' = {} /\ pending' \in [DOMAIN pending' -> 0 .. Len(history)]
      BY <3>1
    <3>3. QED
      BY <1>1, <3>1, <3>2 DEF RoundInv
  <2>5. QED
    BY <2>1, <2>2, <2>3, <2>4
<1>5. QED
  BY <1>2, <1>3, <1>4 DEF IInv

\* A round that commits explains the rows it has written, and its readings
\* take the place of what a handler may have read.
LEMMA CommitRoundPreserves ==
    ASSUME IInv, CommitRound
    PROVE  IInv'
<1>1. /\ handled' = handled /\ history' = history /\ reading' = reading
      /\ vault' = vault /\ untracked' = untracked /\ gone' = gone
      /\ inRound' = FALSE /\ todo' = {} /\ got' = <<>> /\ pending' = <<>>
  BY DEF CommitRound, Leave, indexerVars
<1>2. /\ DOMAIN info' = DOMAIN info /\ DOMAIN seen' = DOMAIN info
      /\ \A a \in DOMAIN pending : /\ info'[a] = AvailableIn(history, a, pending[a])
                                  /\ seen'[a] = pending[a]
      /\ \A a \in DOMAIN info \ DOMAIN pending : info'[a] = info[a] /\ seen'[a] = seen[a]
      /\ info' \in [DOMAIN info' -> BOOLEAN]
  <2>1. /\ info' = [a \in DOMAIN info \cup DOMAIN pending |->
                       IF a \in DOMAIN pending THEN AvailableIn(history, a, pending[a]) ELSE info[a]]
        /\ seen' = [a \in DOMAIN seen \cup DOMAIN pending |->
                       IF a \in DOMAIN pending THEN pending[a] ELSE seen[a]]
    BY SameHistory DEF CommitRound
  <2>2. DOMAIN pending \subseteq DOMAIN info /\ DOMAIN seen = DOMAIN info
    BY DEF IInv, RowInv, RoundInv
  <2>3. \A a : AvailableIn(history, a, pending[a]) \in BOOLEAN
    BY DEF AvailableIn
  <2>4. QED
    BY <2>1, <2>2, <2>3 DEF IInv, RowInv
<1>3. HistoryInv'
  BY <1>1 DEF IInv, HistoryInv
<1>4. RowInv'
  <2>1. \A a \in DOMAIN seen' : seen'[a] \in 0 .. Len(history)
    BY <1>2 DEF IInv, RowInv, RoundInv
  <2>2. QED
    BY <1>1, <1>2, <2>1 DEF IInv, RowInv
<1>5. RoundInv'
  <2>1. DOMAIN pending' = {} /\ pending' \in [DOMAIN pending' -> 0 .. Len(history)]
    BY <1>1
  <2>2. QED
    BY <1>1, <2>1 DEF RoundInv
<1>6. ReadingInv'
  <2>1. SUFFICES ASSUME reading # <<>>
                 PROVE  ReadingInv'
    BY <1>1 DEF ReadingInv
  <2>2. /\ Subject' = Subject /\ (DueAvailability' <=> DueAvailability)
        /\ Due("AgentVaultCreated")' <=> Due("AgentVaultCreated")
    BY <1>1 DEF Subject, Due, DueAvailability
  <2>3. CASE Due("AgentVaultCreated")
    BY <1>1, <2>1, <2>2, <2>3 DEF IInv, ReadingInv
  <2>4. CASE ~Due("AgentVaultCreated")
    <3>1. /\ DueAvailability /\ Subject \in DOMAIN info /\ reading[1] \in BOOLEAN
          /\ \/ info[Subject] = reading[1]
             \/ info[Subject] = AvailableIn(history, Subject, seen[Subject])
      BY <2>1, <2>4 DEF IInv, ReadingInv
    <3>2. \/ info'[Subject] = reading[1]
          \/ info'[Subject] = AvailableIn(history, Subject, seen'[Subject])
      BY <1>2, <3>1
    <3>3. QED
      BY <1>1, <1>2, <2>1, <2>2, <2>4, <3>1, <3>2 DEF IInv, ReadingInv
  <2>5. QED
    BY <2>3, <2>4
<1>7. ExplainedInv'
  <2>1. ASSUME NEW a \in DOMAIN info
        PROVE  \/ info'[a] = AvailableIn(history, a, handled)
               \/ info'[a] = AvailableIn(history, a, seen'[a])
    BY <1>2 DEF IInv, ExplainedInv, Explained
  <2>2. QED
    BY <1>1, <1>2, <2>1 DEF ExplainedInv, Explained
<1>8. QED
  BY <1>3, <1>4, <1>5, <1>6, <1>7 DEF IInv

-----------------------------------------------------------------------------
LEMMA Preserved ==
    ASSUME IInv, [Next]_vars
    PROVE  IInv'
<1>1. CASE UNCHANGED vars
  BY <1>1 DEF vars, indexerVars, watchdogVars, infoVars, IInv, HistoryInv, RowInv, RoundInv,
              ReadingInv, ExplainedInv, Explained, Subject, Due, DueAvailability
<1>2. QED
  BY <1>1, EmitPreserves, CreateVaultPreserves, RowlessPreserves, SetAvailabilityPreserves,
     ReadingPreserves, RoundPreserves, CommitRoundPreserves DEF Next, Index, Watch

\* The invariant the other theorems rest on.
THEOREM Invariance == Spec => []IInv
<1>1. Init => IInv
  BY Initially
<1>2. IInv /\ [Next]_vars => IInv'
  BY Preserved
<1>3. QED
  BY <1>1, <1>2, PTL DEF Spec

\* The type invariant; it includes which vaults the handled events created
\* and destroyed.
THEOREM TypeCorrect == Spec => []TypeOK
<1>1. ASSUME IInv
      PROVE  TypeOK
  <2>1. todo \subseteq Agent /\ DOMAIN info = DOMAIN seen
    BY <1>1 DEF IInv, RowInv, RoundInv
  <2>2. QED
    BY <1>1, <2>1, SameHistory DEF IInv, HistoryInv, RowInv, RoundInv, TypeOK
<1>2. QED
  BY <1>1, Invariance, PTL

\* "untracked agents don't have agent vault info property" and all others
\* have, however rounds, handlers and failures cross.
THEOREM InfoOfAllTracked == Spec => []InfoUnlessUntracked
<1>1. IInv => InfoUnlessUntracked
  BY DEF IInv, RowInv, RoundInv, InfoUnlessUntracked
<1>2. QED
  BY <1>1, Invariance, PTL

\* An info row is what the indexer's last event says or what the chain said
\* when it was last read, whichever way a round and a handler cross.
THEOREM InfoAlwaysExplained == Spec => []InfoExplained
<1>1. ASSUME IInv
      PROVE  InfoExplained
  BY <1>1, SameHistory DEF IInv, ExplainedInv, Explained, InfoExplained
<1>2. QED
  BY <1>1, Invariance, PTL
=============================================================================
