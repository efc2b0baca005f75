------------------------- MODULE BootHistoryProofs --------------------------
(* The events and the losses of the Mini SSD that are read off the kernel  *)
(* logs, for any number of drives, probes, messages and boots.             *)
EXTENDS BootHistory, FiniteSetTheorems, WellFoundedInduction, SequenceTheorems, TLAPS

Kinds == {"loss", "io_error", "aftermath", "recovery", "other"}

Truths == [about : Drives, probe : Nat, due : BOOLEAN]

EventRecords ==
  [kind : Kinds, controller : Nat \cup {None},
   episode_start : BOOLEAN, truth : Truths]

Parsers ==
  [controller : Nat \cup {None}, active : Nat \cup {None}, suspend_count : Nat,
   events : Seq(EventRecords), pcie_enumerated : BOOLEAN, nvme_probed : BOOLEAN,
   in_loss : BOOLEAN, loss_seen : BOOLEAN, loss_episodes : Nat]

Typed ==
  /\ name \in [Drives -> Nat \cup {None}]
  /\ held \in SUBSET Nat /\ IsFiniteSet(held)
  /\ count \in [probes : Nat, messages : 0 .. MaxMessages, suspends : Nat]
  /\ losses \in SUBSET Nat /\ due \in Nat
  /\ parser \in Parsers /\ parser.loss_episodes <= count.messages

(* The Mini SSD's number, while it has one, is the one the parser follows, *)
(* and no two drives have the same.                                        *)
Numbered ==
  /\ name[Mini] # None => parser.active = name[Mini]
  /\ \A d, e \in Drives : d # e /\ name[d] # None => name[d] # name[e]

Base == Typed /\ Numbered /\ NothingMissed

-----------------------------------------------------------------------------
(* Numbers.                                                                *)

LEMMA LeastNatural ==
  ASSUME NEW T \in SUBSET Nat, T # {}
  PROVE  \E n \in T : \A m \in T : n <= m
<1> DEFINE R == OpToRel(<, Nat)
<1>1. PICK n \in T : \A m \in T : <<m, n>> \notin R
  <2> HIDE DEF R
  <2>1. IsWellFoundedOn(R, Nat)
    BY NatLessThanWellFounded DEF R
  <2> QED BY <2>1, WFMin
<1>2. \A m \in T : ~(m < n)
  <2> SUFFICES ASSUME NEW m \in T, m < n PROVE FALSE
    OBVIOUS
  <2>1. <<m, n>> \in R
    BY DEF OpToRel
  <2> QED BY <1>1, <2>1
<1>3. n \in Nat /\ \A m \in T : m \in Nat
  OBVIOUS
<1> QED BY <1>2, <1>3

(* There is a number for every drive that is probed.                       *)
LEMMA NumberIsFree ==
  ASSUME Typed
  PROVE  /\ FreeNumber \in Nat
         /\ \A d \in Drives : name[d] # FreeNumber
         /\ FreeNumber \notin held
<1> USE BootLogAssumption
<1> DEFINE names == {name[d] : d \in Drives}
           used == names \cup held
           top == Cardinality(Drives) + Cardinality(held)
           free == (0 .. top) \ used
<1>1. IsFiniteSet(Drives) /\ Cardinality(Drives) \in Nat
  <2>1. IsFiniteSet({Mini})
    BY FS_Singleton
  <2> QED BY <2>1, FS_Union, FS_CardinalityType DEF Drives
<1>2. IsFiniteSet(held) /\ Cardinality(held) \in Nat
  BY FS_CardinalityType DEF Typed
<1>3. IsFiniteSet(names) /\ Cardinality(names) <= Cardinality(Drives)
  <2>1. name \in Surjection(Drives, names)
    BY DEF Surjection, Typed
  <2> QED BY <1>1, <2>1, FS_Surjection
<1>4. IsFiniteSet(used) /\ Cardinality(used) <= top
  <2> HIDE DEF names
  <2>1. /\ IsFiniteSet(used)
        /\ Cardinality(used)
             = Cardinality(names) + Cardinality(held) - Cardinality(names \cap held)
    BY <1>2, <1>3, FS_Union
  <2>2. Cardinality(names \cap held) \in Nat /\ Cardinality(names) \in Nat
    BY <1>3, FS_CardinalityType, FS_Subset
  <2> QED BY <1>1, <1>2, <1>3, <2>1, <2>2
<1> HIDE DEF used
<1>5. free # {}
  <2> SUFFICES ASSUME 0 .. top \subseteq used PROVE FALSE
    OBVIOUS
  <2>1. top \in Nat /\ 0 \in Int
    BY <1>1, <1>2
  <2> HIDE DEF top
  <2>2. IsFiniteSet(0 .. top) /\ Cardinality(0 .. top) = top + 1
    BY <2>1, FS_Interval
  <2>3. Cardinality(0 .. top) <= Cardinality(used) /\ Cardinality(used) \in Nat
    BY <1>4, FS_Subset, FS_CardinalityType
  <2> QED BY <1>4, <2>1, <2>2, <2>3
<1>6. PICK n \in free : \A m \in free : n <= m
  <2>1. free \in SUBSET Nat
    OBVIOUS
  <2> HIDE DEF free
  <2> QED BY <1>5, <2>1, LeastNatural
<1>7. n \in 0 .. top /\ n \notin used /\ \A m \in 0 .. n - 1 : m \in used
  BY <1>1, <1>2, <1>6
<1>8. FreeNumber \in 0 .. top /\ FreeNumber \notin used
  BY <1>7 DEF FreeNumber, used
<1> QED BY <1>1, <1>2, <1>8 DEF used

-----------------------------------------------------------------------------
(* What a line does to the parser.                                         *)

LEMMA FreshParser == Fresh \in Parsers /\ Fresh.active = None /\ Fresh.events = <<>>
                     /\ Fresh.loss_episodes = 0 /\ Fresh.in_loss = FALSE
<1>1. <<>> \in Seq(EventRecords)
  BY EmptySeq
<1> QED BY <1>1 DEF Fresh, Parsers

(* A line is an event of the Mini SSD if it is labelled so and has one of  *)
(* the keywords.                                                           *)
Parsed(p, label, text, truth, q) ==
  /\ q \in Parsers /\ q.active = p.active
  /\ ~(Scoped(label, p.active) /\ text # {}) => q = p
  /\ Scoped(label, p.active) /\ text # {} =>
       \E event \in EventRecords :
         /\ q.events = Append(p.events, event)
         /\ event.truth = truth
         /\ event.kind = "loss" <=> "loss" \in text
         /\ event.episode_start <=> ("loss" \in text /\ ~p.in_loss)
         /\ q.in_loss <=> (p.in_loss \/ "loss" \in text)
         /\ q.loss_episodes = IF event.episode_start THEN p.loss_episodes + 1
                              ELSE p.loss_episodes

LEMMA MessageParsed ==
  ASSUME NEW p \in Parsers, NEW label, NEW text \in Texts, NEW truth \in Truths,
         NEW q, q = OnMessage(p, label, text, truth)
  PROVE  Parsed(p, label, text, truth, q)
<1>1. CASE ~(Scoped(label, p.active) /\ text # {})
  BY <1>1 DEF OnMessage, Parsed
<1>2. CASE Scoped(label, p.active) /\ text # {}
  <2> DEFINE kind == EventKind(text, p.loss_seen)
             start == kind = "loss" /\ ~p.in_loss
             event == [kind |-> kind, controller |-> p.active,
                       episode_start |-> start, truth |-> truth]
  <2>1. q = [p EXCEPT !.loss_seen = @ \/ kind = "loss",
                      !.in_loss = @ \/ kind = "loss",
                      !.loss_episodes = IF start THEN @ + 1 ELSE @,
                      !.events = Append(@, event)]
    BY <1>2 DEF OnMessage
  <2>2. kind \in Kinds /\ (kind = "loss" <=> "loss" \in text)
    BY DEF EventKind, Kinds, Texts
  <2> HIDE DEF kind
  <2>3. start \in BOOLEAN /\ (start <=> "loss" \in text /\ ~p.in_loss)
    BY <2>2
  <2>4. event \in EventRecords
    BY <2>2, <2>3 DEF EventRecords, Parsers
  <2>5. /\ event.truth = truth /\ event.kind = kind
        /\ event.episode_start = start
    OBVIOUS
  <2> HIDE DEF event, start
  <2>6. /\ p.events \in Seq(EventRecords) /\ p.loss_episodes \in Nat
        /\ p.in_loss \in BOOLEAN /\ p.loss_seen \in BOOLEAN
        /\ DOMAIN p = {"controller", "active", "suspend_count", "events",
                       "pcie_enumerated", "nvme_probed", "in_loss", "loss_seen",
                       "loss_episodes"}
    BY DEF Parsers
  <2>7. Append(p.events, event) \in Seq(EventRecords)
    BY <2>4, <2>6, AppendProperties
  <2> DEFINE seen == p.loss_seen \/ kind = "loss"
             lost == p.in_loss \/ kind = "loss"
             n == IF start THEN p.loss_episodes + 1 ELSE p.loss_episodes
             more == Append(p.events, event)
  <2>8. q = [p EXCEPT !.loss_seen = seen, !.in_loss = lost, !.loss_episodes = n,
                      !.events = more]
    BY <2>1
  <2>9. seen \in BOOLEAN /\ lost \in BOOLEAN /\ n \in Nat /\ more \in Seq(EventRecords)
    BY <2>6, <2>7
  <2> HIDE DEF seen, lost, n, more
  <2>10. /\ q.loss_episodes = n /\ q.events = more /\ q.in_loss = lost
         /\ q.active = p.active
    BY <2>6, <2>8
  <2>11. q \in Parsers
    BY <2>8, <2>9 DEF Parsers
  <2>12. /\ q.in_loss <=> (p.in_loss \/ "loss" \in text)
         /\ event.episode_start <=> ("loss" \in text /\ ~p.in_loss)
    BY <2>2, <2>3, <2>5, <2>10 DEF lost
  <2>13. /\ q.events = Append(p.events, event)
         /\ q.loss_episodes = IF event.episode_start THEN p.loss_episodes + 1
                              ELSE p.loss_episodes
    BY <2>5, <2>10 DEF n, more
  <2>14. event.truth = truth /\ (event.kind = "loss" <=> "loss" \in text)
    BY <2>2, <2>5
  <2>15. \E e \in EventRecords :
           /\ q.events = Append(p.events, e)
           /\ e.truth = truth
           /\ e.kind = "loss" <=> "loss" \in text
           /\ e.episode_start <=> ("loss" \in text /\ ~p.in_loss)
           /\ q.in_loss <=> (p.in_loss \/ "loss" \in text)
           /\ q.loss_episodes = IF e.episode_start THEN p.loss_episodes + 1
                                ELSE p.loss_episodes
    BY <2>4, <2>12, <2>13, <2>14
  <2> QED BY <1>2, <2>10, <2>11, <2>15 DEF Parsed
<1> QED BY <1>1, <1>2
LEMMA EventAppended ==
  ASSUME parser \in Parsers, NEW event \in EventRecords,
         parser'.events = Append(parser.events, event)
  PROVE  /\ Len(Events) \in Nat /\ DOMAIN Events = 1 .. Len(Events)
         /\ DOMAIN Events' = 1 .. Len(Events) + 1
         /\ \A i \in 1 .. Len(Events) : Events'[i] = Events[i]
         /\ Events'[Len(Events) + 1] = event
<1>1. Events \in Seq(EventRecords)
  BY DEF Events, Parsers
<1>2. /\ Append(Events, event) \in Seq(EventRecords)
      /\ Len(Append(Events, event)) = Len(Events) + 1
      /\ \A i \in 1 .. Len(Events) : Append(Events, event)[i] = Events[i]
      /\ Append(Events, event)[Len(Events) + 1] = event
  BY <1>1, AppendProperties
<1>3. /\ Len(Events) \in Nat /\ DOMAIN Events = 1 .. Len(Events)
      /\ DOMAIN Append(Events, event) = 1 .. Len(Append(Events, event))
  BY <1>1, <1>2, LenProperties
<1> QED BY <1>2, <1>3 DEF Events

DueEvents == {i \in DOMAIN Events : Events[i].truth.due}

LEMMA DueIsCounted ==
  /\ NothingMissed <=> Cardinality(DueEvents) = due
  /\ NothingMissed' <=> Cardinality(DueEvents)' = due'
BY DEF NothingMissed, Quantify, DueEvents

LEMMA DueFinite ==
  ASSUME parser \in Parsers
  PROVE  IsFiniteSet(DueEvents) /\ Cardinality(DueEvents) \in Nat
<1>1. Events \in Seq(EventRecords)
  BY DEF Events, Parsers
<1>2. DOMAIN Events = 1 .. Len(Events) /\ Len(Events) \in Nat
  BY <1>1, LenProperties
<1>3. IsFiniteSet(1 .. Len(Events))
  BY <1>2, FS_Interval
<1>4. DueEvents \in SUBSET (1 .. Len(Events))
  BY <1>2 DEF DueEvents
<1> QED BY <1>3, <1>4, FS_Subset, FS_CardinalityType

-----------------------------------------------------------------------------
(* Types, numbers, and the lines that are due: any drive may come and go.  *)

LEMMA FreshBase ==
  ASSUME name' = [d \in Drives |-> None], held' = {}, losses' = {}, due' = 0, parser' = Fresh,
         count' \in [probes : Nat, messages : 0 .. MaxMessages, suspends : Nat]
  PROVE  Base'
<1> USE BootLogAssumption
<1>1. IsFiniteSet({}) /\ Cardinality({}) = 0
  BY FS_EmptySet
<1>2. Typed'
  BY <1>1, FreshParser DEF Typed
<1>3. Numbered'
  BY DEF Numbered, Drives
<1>4. DueEvents' = {}
  BY FreshParser DEF DueEvents, Events
<1>5. NothingMissed'
  BY <1>1, <1>4, DueIsCounted
<1> QED BY <1>2, <1>3, <1>5 DEF Base

LEMMA InitBase == HistoryInit => Base
<1> SUFFICES ASSUME HistoryInit PROVE Base
  OBVIOUS
<1> USE BootLogAssumption
<1>1. /\ name = [d \in Drives |-> None] /\ held = {} /\ losses = {} /\ due = 0
      /\ parser = Fresh
      /\ count \in [probes : Nat, messages : 0 .. MaxMessages, suspends : Nat]
  BY DEF HistoryInit, Init
<1>2. IsFiniteSet({}) /\ Cardinality({}) = 0
  BY FS_EmptySet
<1>3. Typed
  BY <1>1, <1>2, FreshParser DEF Typed
<1>4. Numbered
  BY <1>1 DEF Numbered, Drives
<1>5. DueEvents = {}
  BY <1>1, FreshParser DEF DueEvents, Events
<1>6. NothingMissed
  BY <1>1, <1>2, <1>5, DueIsCounted
<1> QED BY <1>3, <1>4, <1>6 DEF Base

(* Lines that leave no event.                                              *)
LEMMA QuietBase ==
  ASSUME Base, parser' \in Parsers, parser'.events = parser.events,
         parser'.loss_episodes = parser.loss_episodes, UNCHANGED due
  PROVE  NothingMissed' /\ parser'.loss_episodes <= count.messages
<1>1. DueEvents' = DueEvents
  BY DEF DueEvents, Events
<1> QED BY <1>1, DueIsCounted DEF Base, Typed

LEMMA EnumerateParsed ==
  ASSUME Typed, Enumerate
  PROVE  /\ parser' \in Parsers /\ parser'.events = parser.events
         /\ parser'.loss_episodes = parser.loss_episodes
         /\ parser'.active = parser.active /\ parser'.in_loss = parser.in_loss
         /\ UNCHANGED <<name, held, removed, count, due, losses>>
BY DEF Typed, Enumerate, OnEnumeration, Parsers

LEMMA SuspendParsed ==
  ASSUME Typed, Suspend
  PROVE  /\ parser' \in Parsers /\ parser'.events = parser.events
         /\ parser'.loss_episodes = parser.loss_episodes
         /\ parser'.active = parser.active /\ parser'.in_loss = parser.in_loss
         /\ count' \in [probes : Nat, messages : 0 .. MaxMessages, suspends : Nat]
         /\ count'.probes = count.probes /\ count'.messages = count.messages
         /\ UNCHANGED <<name, held, removed, due, losses>>
<1>1. count' = [count EXCEPT !.suspends = @ + 1] /\ parser' = OnSuspend(parser)
      /\ UNCHANGED <<name, held, removed, due, losses>>
  BY DEF Suspend
<1>2. count \in [probes : Nat, messages : 0 .. MaxMessages, suspends : Nat] /\ parser \in Parsers
  BY DEF Typed
<1>3. /\ parser' \in Parsers /\ parser'.events = parser.events
      /\ parser'.loss_episodes = parser.loss_episodes
      /\ parser'.active = parser.active /\ parser'.in_loss = parser.in_loss
  BY <1>1, <1>2 DEF OnSuspend, Parsers
<1> QED BY <1>1, <1>2, <1>3

LEMMA ProbeParsed ==
  ASSUME Typed, NEW d \in Drives, Probe(d)
  PROVE  /\ parser' \in Parsers /\ parser'.events = parser.events
         /\ parser'.loss_episodes = parser.loss_episodes
         /\ name[d] = None /\ FreeNumber \in Nat /\ \A e \in Drives : name[e] # FreeNumber
         /\ name' \in [Drives -> Nat \cup {None}]
         /\ \A e \in Drives : name'[e] = IF e = d THEN FreeNumber ELSE name[e]
         /\ d = Mini => /\ parser'.active = FreeNumber /\ parser'.in_loss = FALSE
                        /\ count'.probes = count.probes + 1
         /\ d # Mini => /\ parser' = parser /\ count' = count
                        /\ ~removed \/ d \in Hotplug
         /\ count' \in [probes : Nat, messages : 0 .. MaxMessages, suspends : Nat]
         /\ count'.messages = count.messages
         /\ UNCHANGED <<held, removed, due, losses>>
<1>1. FreeNumber \in Nat /\ \A e \in Drives : name[e] # FreeNumber
  BY NumberIsFree
<1>2. /\ name[d] = None /\ name' = [name EXCEPT ![d] = FreeNumber]
      /\ count' = IF d = Mini THEN [count EXCEPT !.probes = @ + 1] ELSE count
      /\ parser' = OnFunction(parser, FreeNumber, d)
      /\ d # Mini => ~removed \/ d \in Hotplug
      /\ UNCHANGED <<held, removed, due, losses>>
  BY DEF Probe
<1>3. /\ parser \in Parsers /\ name \in [Drives -> Nat \cup {None}]
      /\ count \in [probes : Nat, messages : 0 .. MaxMessages, suspends : Nat]
  BY DEF Typed
<1>4. CASE d = Mini
  <2> DEFINE first == IF parser.controller = None THEN FreeNumber ELSE parser.controller
  <2>1. parser' = [parser EXCEPT !.nvme_probed = TRUE, !.controller = first,
                                 !.active = FreeNumber, !.in_loss = FALSE]
    BY <1>2, <1>4 DEF OnFunction
  <2>2. first \in Nat \cup {None}
    BY <1>1, <1>3 DEF Parsers
  <2> HIDE DEF first
  <2>3. /\ parser' \in Parsers /\ parser'.events = parser.events
        /\ parser'.loss_episodes = parser.loss_episodes
        /\ parser'.active = FreeNumber /\ parser'.in_loss = FALSE
    BY <1>1, <1>3, <2>1, <2>2 DEF Parsers
  <2>4. /\ count' \in [probes : Nat, messages : 0 .. MaxMessages, suspends : Nat]
        /\ count'.messages = count.messages /\ count'.probes = count.probes + 1
    BY <1>2, <1>3, <1>4
  <2> QED BY <1>1, <1>2, <1>3, <1>4, <2>3, <2>4
<1>5. CASE d # Mini
  BY <1>1, <1>2, <1>3, <1>5 DEF OnFunction
<1> QED BY <1>4, <1>5

LEMMA UnplugMoves ==
  ASSUME Typed, Unplug
  PROVE  /\ name' \in [Drives -> Nat \cup {None}] /\ removed' = TRUE
         /\ \A e \in Drives : name'[e] = IF e = Mini THEN None ELSE name[e]
         /\ held' \in SUBSET Nat /\ IsFiniteSet(held')
         /\ UNCHANGED <<count, due, losses, parser>>
<1> USE BootLogAssumption
<1>1. /\ removed' = TRUE /\ name' = [name EXCEPT ![Mini] = None]
      /\ held' = held \/ held' = held \cup ({name[Mini]} \ {None})
      /\ UNCHANGED <<count, due, losses, parser>>
  BY DEF Unplug
<1>2. /\ Mini \in Drives /\ name \in [Drives -> Nat \cup {None}]
      /\ held \in SUBSET Nat /\ IsFiniteSet(held)
  BY DEF Typed, Drives
<1>3. held' \in SUBSET Nat /\ IsFiniteSet(held')
  <2>1. CASE held' = held \/ name[Mini] = None
    <3>1. held' = held
      BY <1>1, <2>1
    <3> QED BY <1>2, <3>1
  <2>2. CASE held' # held /\ name[Mini] # None
    <3>1. held' = held \cup {name[Mini]} /\ name[Mini] \in Nat
      BY <1>1, <1>2, <2>2
    <3> QED BY <1>2, <3>1, FS_AddElement
  <2> QED BY <2>1, <2>2
<1> QED BY <1>1, <1>2, <1>3

Counts == [probes : Nat, messages : 0 .. MaxMessages, suspends : Nat]

(* A line about the Mini SSD or another drive: it is kept when it is due.  *)
LEMMA MessageBase ==
  ASSUME Base, NEW label, NEW text \in Texts, NEW truth \in Truths,
         parser' = OnMessage(parser, label, text, truth),
         count.messages < MaxMessages, count' = [count EXCEPT !.messages = @ + 1],
         truth.due => Scoped(label, parser.active) /\ text # {},
         due' = IF truth.due THEN due + 1 ELSE due,
         losses' \in SUBSET Nat, UNCHANGED <<name, held>>
  PROVE  Base'
<1> USE BootLogAssumption
<1>1. /\ parser \in Parsers /\ parser.loss_episodes \in Nat /\ due \in Nat
      /\ count \in Counts /\ parser.loss_episodes <= count.messages
      /\ truth.due \in BOOLEAN
  BY DEF Base, Typed, Parsers, Truths, Counts
<1>2. count' \in Counts /\ count'.messages = count.messages + 1
  BY <1>1 DEF Counts
<1>2a. Parsed(parser, label, text, truth, parser')
  BY <1>1, MessageParsed
<1>3. /\ parser' \in Parsers /\ parser'.active = parser.active
      /\ ~(Scoped(label, parser.active) /\ text # {}) => parser' = parser
      /\ Scoped(label, parser.active) /\ text # {} =>
           \E event \in EventRecords :
             /\ parser'.events = Append(parser.events, event)
             /\ event.truth = truth
             /\ event.kind = "loss" <=> "loss" \in text
             /\ event.episode_start <=> ("loss" \in text /\ ~parser.in_loss)
             /\ parser'.in_loss <=> (parser.in_loss \/ "loss" \in text)
             /\ parser'.loss_episodes = IF event.episode_start THEN parser.loss_episodes + 1
                                        ELSE parser.loss_episodes
  BY <1>2a DEF Parsed
<1>4. Numbered'
  BY <1>3 DEF Base, Numbered
<1>5. due' \in Nat
  BY <1>1
<1>6. CASE ~(Scoped(label, parser.active) /\ text # {})
  <2>1. parser' = parser /\ due' = due
    BY <1>1, <1>3, <1>6
  <2>2. NothingMissed'
    BY <1>3, <2>1, QuietBase
  <2>3. parser'.loss_episodes <= count'.messages
    BY <1>1, <1>2, <2>1 DEF Counts
  <2> QED BY <1>2, <1>3, <1>4, <1>5, <2>2, <2>3 DEF Base, Typed, Counts
<1>7. CASE Scoped(label, parser.active) /\ text # {}
  <2>1. PICK event \in EventRecords :
          /\ parser'.events = Append(parser.events, event)
          /\ event.truth = truth
          /\ parser'.loss_episodes = IF event.episode_start THEN parser.loss_episodes + 1
                                     ELSE parser.loss_episodes
    BY <1>3, <1>7
  <2>2. /\ Len(Events) \in Nat /\ DOMAIN Events = 1 .. Len(Events)
        /\ DOMAIN Events' = 1 .. Len(Events) + 1
        /\ \A i \in 1 .. Len(Events) : Events'[i] = Events[i]
        /\ Events'[Len(Events) + 1] = event
    BY <1>1, <2>1, EventAppended
  <2>3. parser'.loss_episodes <= count'.messages
    BY <1>1, <1>2, <2>1 DEF Counts
  <2> DEFINE last == Len(Events) + 1
  <2>4. DueEvents' = IF truth.due THEN DueEvents \cup {last} ELSE DueEvents
    BY <2>1, <2>2 DEF DueEvents
  <2>5. last \notin DueEvents
    BY <2>2 DEF DueEvents
  <2>6. IsFiniteSet(DueEvents) /\ Cardinality(DueEvents) = due
    BY <1>1, DueFinite, DueIsCounted DEF Base
  <2>7. Cardinality(DueEvents \cup {last}) = due + 1
    <3> HIDE DEF last
    <3> QED BY <2>5, <2>6, FS_AddElement
  <2>8. Cardinality(DueEvents') = due'
    BY <2>4, <2>6, <2>7
  <2>9. NothingMissed'
    BY <2>8, DueIsCounted
  <2> QED BY <1>2, <1>3, <1>4, <1>5, <2>3, <2>9 DEF Base, Typed, Counts
<1> QED BY <1>6, <1>7

LEMMA LineBase ==
  ASSUME Base,
         \/ \E d \in Drives : \E label \in {d, name[d]}, text \in Texts : Message(d, label, text)
         \/ \E n \in held : LateMessage(n)
  PROVE  Base'
<1> USE BootLogAssumption
<1>1. /\ count \in Counts /\ count.probes \in Nat /\ losses \in SUBSET Nat
      /\ Mini \in Drives
  BY DEF Base, Typed, Counts, Drives
<1>2. ASSUME NEW d \in Drives, NEW label, NEW text \in Texts, Message(d, label, text)
      PROVE  Base'
  <2> DEFINE isDue == d = Mini /\ text # {}
             truth == [about |-> d, probe |-> count.probes, due |-> isDue]
  <2>1. /\ count.messages < MaxMessages /\ count' = [count EXCEPT !.messages = @ + 1]
        /\ label \in ({name[d]} \ {None}) \cup (IF d # Mini \/ pci THEN {d} ELSE {})
        /\ due' = IF isDue THEN due + 1 ELSE due
        /\ losses' = IF d = Mini /\ "loss" \in text THEN losses \cup {count.probes} ELSE losses
        /\ parser' = OnMessage(parser, label, text, truth)
        /\ UNCHANGED <<name, pci, held, removed>>
    BY <1>2 DEF Message
  <2>2. losses' \in SUBSET Nat
    BY <1>1, <2>1
  <2>3. isDue => Scoped(label, parser.active) /\ text # {}
    BY <2>1 DEF Scoped, Base, Numbered
  <2>4. isDue \in BOOLEAN
    OBVIOUS
  <2>5. truth \in Truths /\ truth.due = isDue
    BY <1>1 DEF Truths
  <2> HIDE DEF isDue, truth
  <2> QED BY <2>1, <2>2, <2>3, <2>5, MessageBase
<1>3. ASSUME NEW n \in held, LateMessage(n)
      PROVE  Base'
  <2> DEFINE truth == [about |-> Mini, probe |-> count.probes, due |-> FALSE]
  <2>1. /\ count.messages < MaxMessages /\ count' = [count EXCEPT !.messages = @ + 1]
        /\ parser' = OnMessage(parser, n, {"io_error"}, truth)
        /\ UNCHANGED <<name, pci, held, removed, due, losses>>
    BY <1>3 DEF LateMessage
  <2>2. truth \in Truths /\ truth.due = FALSE
    BY <1>1 DEF Truths
  <2>3. {"io_error"} \in Texts
    BY DEF Texts
  <2> HIDE DEF truth
  <2> QED BY <1>1, <2>1, <2>2, <2>3, MessageBase
<1> QED BY <1>2, <1>3

LEMMA EnumerateBase == Base /\ Enumerate => Base'
<1> SUFFICES ASSUME Base, Enumerate PROVE Base'
  OBVIOUS
<1>1. Typed /\ Numbered
  BY DEF Base
<1>2. /\ parser' \in Parsers /\ parser'.events = parser.events
      /\ parser'.loss_episodes = parser.loss_episodes /\ parser'.active = parser.active
      /\ UNCHANGED <<name, held, removed, count, due, losses>>
  BY <1>1, EnumerateParsed
<1>3. NothingMissed' /\ parser'.loss_episodes <= count.messages
  BY <1>2, QuietBase
<1> QED BY <1>1, <1>2, <1>3 DEF Base, Typed, Numbered

LEMMA SuspendBase == Base /\ Suspend => Base'
<1> SUFFICES ASSUME Base, Suspend PROVE Base'
  OBVIOUS
<1>1. Typed /\ Numbered
  BY DEF Base
<1>2. /\ parser' \in Parsers /\ parser'.events = parser.events
      /\ parser'.loss_episodes = parser.loss_episodes /\ parser'.active = parser.active
      /\ count' \in [probes : Nat, messages : 0 .. MaxMessages, suspends : Nat]
      /\ count'.messages = count.messages
      /\ UNCHANGED <<name, held, removed, due, losses>>
  BY <1>1, SuspendParsed
<1>3. NothingMissed' /\ parser'.loss_episodes <= count.messages
  BY <1>2, QuietBase
<1> QED BY <1>1, <1>2, <1>3 DEF Base, Typed, Numbered

LEMMA ProbeBase == ASSUME Base, NEW d \in Drives, Probe(d) PROVE Base'
<1> USE BootLogAssumption
<1>1. Typed /\ Numbered
  BY DEF Base
<1>2. /\ parser' \in Parsers /\ parser'.events = parser.events
      /\ parser'.loss_episodes = parser.loss_episodes
      /\ FreeNumber \in Nat /\ \A e \in Drives : name[e] # FreeNumber
      /\ name' \in [Drives -> Nat \cup {None}]
      /\ \A e \in Drives : name'[e] = IF e = d THEN FreeNumber ELSE name[e]
      /\ d = Mini => parser'.active = FreeNumber
      /\ d # Mini => parser' = parser
      /\ count' \in [probes : Nat, messages : 0 .. MaxMessages, suspends : Nat]
      /\ count'.messages = count.messages
      /\ UNCHANGED <<held, removed, due, losses>>
  BY <1>1, ProbeParsed
<1>3. NothingMissed' /\ parser'.loss_episodes <= count.messages
  BY <1>2, QuietBase
<1>4. Numbered'
  <2>1. Mini \in Drives
    BY DEF Drives
  <2>2. name'[Mini] # None => parser'.active = name'[Mini]
    BY <1>1, <1>2, <2>1 DEF Numbered
  <2>3. \A a, b \in Drives : a # b /\ name'[a] # None => name'[a] # name'[b]
    BY <1>1, <1>2 DEF Numbered
  <2> QED BY <2>2, <2>3 DEF Numbered
<1>5. Typed'
  BY <1>1, <1>2, <1>3 DEF Typed
<1> QED BY <1>3, <1>4, <1>5 DEF Base

LEMMA UnplugBase == Base /\ Unplug => Base'
<1> SUFFICES ASSUME Base, Unplug PROVE Base'
  OBVIOUS
<1>1. Typed /\ Numbered
  BY DEF Base
<1>2. /\ name' \in [Drives -> Nat \cup {None}]
      /\ \A e \in Drives : name'[e] = IF e = Mini THEN None ELSE name[e]
      /\ held' \in SUBSET Nat /\ IsFiniteSet(held')
      /\ UNCHANGED <<count, due, losses, parser>>
  BY <1>1, UnplugMoves
<1>3. NothingMissed'
  BY <1>1, <1>2, QuietBase DEF Typed
<1>4. Mini \in Drives
  BY DEF Drives
<1>5. Numbered'
  BY <1>1, <1>2, <1>4 DEF Numbered
<1> QED BY <1>1, <1>2, <1>3, <1>5 DEF Base, Typed

LEMMA NextBase == Base /\ [HistoryNext]_<<vars, history>> => Base'
<1> SUFFICES ASSUME Base, [HistoryNext]_<<vars, history>> PROVE Base'
  OBVIOUS
<1>1. CASE UNCHANGED vars
  <2>1. UNCHANGED <<name, held, count, due, losses, parser>>
    BY <1>1 DEF vars
  <2>2. NothingMissed'
    BY <2>1, QuietBase DEF Base, Typed
  <2> QED BY <2>1, <2>2 DEF Base, Typed, Numbered
<1>2. CASE KernelLogs
  BY <1>2, EnumerateBase, ProbeBase, UnplugBase, SuspendBase, LineBase DEF KernelLogs, Next
<1>3. CASE Reboot
  <2>1. count' \in [probes : Nat, messages : 0 .. MaxMessages, suspends : Nat]
    BY <1>3 DEF Base, Typed, Reboot
  <2> QED BY <1>3, <2>1, FreshBase DEF Reboot
<1>4. CASE Vacuum \/ ListBoots \/ ReadBoot \/ Reported
  BY <1>1, <1>4 DEF Vacuum, ListBoots, ReadBoot, Reported
<1>5. CASE UNCHANGED <<vars, history>>
  BY <1>1, <1>5
<1> QED BY <1>2, <1>3, <1>4, <1>5 DEF HistoryNext

LEMMA BaseHolds == HistorySpec => []Base
<1> QED BY InitBase, NextBase, PTL DEF HistorySpec

LEMMA EventTypes ==
  ASSUME parser \in Parsers, NEW i \in DOMAIN Events
  PROVE  Events[i] \in EventRecords
<1>1. Events \in Seq(EventRecords)
  BY DEF Events, Parsers
<1>2. DOMAIN Events = 1 .. Len(Events)
  BY <1>1, LenProperties
<1> QED BY <1>1, <1>2, ElementOfSeq

(* The state of the kernel and of the parser keeps its type, whatever the  *)
(* drives do and however many boots follow each other.                     *)
THEOREM TypeCorrect == HistorySpec => []TypeOK
<1>1. Base => TypeOK
  <2> SUFFICES ASSUME Base PROVE TypeOK
    OBVIOUS
  <2>1. Typed
    BY DEF Base
  <2>2. parser.active \in Nat \cup {None} /\ parser.loss_episodes \in 0 .. MaxMessages
    BY <2>1, BootLogAssumption DEF Typed, Parsers
  <2>3. \A i \in DOMAIN Events : Events[i].kind \in Kinds
    BY <2>1, EventTypes DEF Typed, EventRecords
  <2> QED BY <2>1, <2>2, <2>3 DEF Typed, TypeOK, Kinds
<1> QED BY <1>1, BaseHolds, PTL

(* Every keyword line under the Mini SSD's address, or under the number it *)
(* has then, becomes an event: in any boot, for any drives beside it, and  *)
(* those that come once it is gone included.                               *)
THEOREM DueLinesAreKept == HistorySpec => []NothingMissed
<1>1. Base => NothingMissed
  BY DEF Base
<1> QED BY <1>1, BaseHolds, PTL

-----------------------------------------------------------------------------
(* Nothing is plugged in after the Mini SSD was pulled: no other drive has *)
(* the number the parser follows.                                          *)
NoHotplug == Hotplug = {}

Followed ==
  /\ \A d \in Others : name[d] # None => name[d] # parser.active
  /\ ~removed => parser.active = name[Mini]
  /\ NoMisattribution

(* The open episode is that of the last probe, and the episodes are those  *)
(* of the probes with a loss line among the events.                        *)
LossEvents == {i \in DOMAIN Events : Events[i].kind = "loss"}

Counted ==
  /\ losses = {Events[i].truth.probe : i \in LossEvents}
  /\ IsFiniteSet(losses) /\ \A p \in losses : p <= count.probes
  /\ parser.in_loss <=> count.probes \in losses
  /\ EpisodesMatch

IInv == Base /\ Followed /\ Counted

(* What a line leaves: nothing, or an event of the Mini SSD.               *)
MiniEvent(event, lost) ==
  /\ parser'.events = Append(parser.events, event)
  /\ event.truth.about = Mini /\ event.truth.probe = count.probes
  /\ event.kind = "loss" <=> lost
  /\ event.episode_start <=> (lost /\ ~parser.in_loss)
  /\ parser'.in_loss <=> (parser.in_loss \/ lost)
  /\ parser'.loss_episodes = IF event.episode_start THEN parser.loss_episodes + 1
                             ELSE parser.loss_episodes
  /\ losses' = IF lost THEN losses \cup {count.probes} ELSE losses

LineMeant ==
  /\ parser'.active = parser.active /\ count'.probes = count.probes
  /\ UNCHANGED <<name, held, removed>>
  /\ \/ parser' = parser /\ losses' = losses
     \/ \E event \in EventRecords, lost \in BOOLEAN : MiniEvent(event, lost)

LEMMA MessageMeant ==
  ASSUME Base, Followed, NEW d \in Drives, NEW label, NEW text \in Texts,
         Message(d, label, text)
  PROVE  LineMeant
<1> USE BootLogAssumption
<1> DEFINE isDue == d = Mini /\ text # {}
           truth == [about |-> d, probe |-> count.probes, due |-> isDue]
           lost == "loss" \in text
<1>1. /\ count' = [count EXCEPT !.messages = @ + 1]
      /\ label \in ({name[d]} \ {None}) \cup (IF d # Mini \/ pci THEN {d} ELSE {})
      /\ losses' = IF d = Mini /\ lost THEN losses \cup {count.probes} ELSE losses
      /\ parser' = OnMessage(parser, label, text, truth)
      /\ UNCHANGED <<name, pci, held, removed>>
  BY DEF Message
<1>2. /\ parser \in Parsers /\ count.probes \in Nat /\ Mini \in Drives
      /\ name \in [Drives -> Nat \cup {None}] /\ parser.active \in Nat \cup {None}
  BY DEF Base, Typed, Drives, Parsers
<1>3. count'.probes = count.probes
  BY <1>1 DEF Base, Typed
<1>4. truth \in Truths /\ truth.about = d /\ truth.probe = count.probes
  BY <1>2 DEF Truths
<1> HIDE DEF truth, isDue
<1>5. Parsed(parser, label, text, truth, parser')
  BY <1>1, <1>2, <1>4, MessageParsed
<1>6. Scoped(label, parser.active) => d = Mini
  <2> SUFFICES ASSUME Scoped(label, parser.active), d # Mini PROVE FALSE
    OBVIOUS
  <2>1. d \in Others /\ d \notin Nat /\ Mini \notin Nat
    BY DEF Drives
  <2>2. label = name[d] /\ name[d] \in Nat
    BY <1>1, <1>2, <2>1 DEF Scoped
  <2> QED BY <1>2, <2>1, <2>2 DEF Scoped, Followed
<1>7. d = Mini => Scoped(label, parser.active)
  BY <1>1 DEF Scoped, Base, Numbered
<1>8. text = {} => ~lost
  OBVIOUS
<1>9. lost \in BOOLEAN
  OBVIOUS
<1> HIDE DEF lost
<1>10. CASE ~(Scoped(label, parser.active) /\ text # {})
  <2>1. parser' = parser
    BY <1>5, <1>10 DEF Parsed
  <2>2. losses' = losses
    BY <1>1, <1>7, <1>8, <1>10
  <2> QED BY <1>1, <1>3, <2>1, <2>2 DEF LineMeant
<1>11. CASE Scoped(label, parser.active) /\ text # {}
  <2>1. PICK event \in EventRecords :
          /\ parser'.events = Append(parser.events, event)
          /\ event.truth = truth
          /\ event.kind = "loss" <=> lost
          /\ event.episode_start <=> (lost /\ ~parser.in_loss)
          /\ parser'.in_loss <=> (parser.in_loss \/ lost)
          /\ parser'.loss_episodes = IF event.episode_start THEN parser.loss_episodes + 1
                                     ELSE parser.loss_episodes
    BY <1>5, <1>11 DEF Parsed, lost
  <2>2. d = Mini
    BY <1>6, <1>11
  <2>3. MiniEvent(event, lost)
    BY <1>1, <1>4, <2>1, <2>2 DEF MiniEvent
  <2>4. parser'.active = parser.active
    BY <1>5 DEF Parsed
  <2> QED BY <1>1, <1>3, <1>9, <2>3, <2>4 DEF LineMeant
<1> QED BY <1>10, <1>11

LEMMA LateMeant ==
  ASSUME Base, NEW n \in held, LateMessage(n)
  PROVE  LineMeant
<1> USE BootLogAssumption
<1> DEFINE truth == [about |-> Mini, probe |-> count.probes, due |-> FALSE]
           text == {"io_error"}
<1>1. /\ count' = [count EXCEPT !.messages = @ + 1]
      /\ parser' = OnMessage(parser, n, text, truth)
      /\ UNCHANGED <<name, pci, held, removed, due, losses>>
  BY DEF LateMessage
<1>2. parser \in Parsers /\ count.probes \in Nat /\ Mini \in Drives
  BY DEF Base, Typed, Drives, Parsers
<1>3. count'.probes = count.probes
  BY <1>1 DEF Base, Typed
<1>4. truth \in Truths /\ truth.about = Mini /\ truth.probe = count.probes
  BY <1>2 DEF Truths
<1>5. text \in Texts /\ "loss" \notin text
  BY DEF Texts
<1> HIDE DEF truth, text
<1>6. Parsed(parser, n, text, truth, parser')
  BY <1>1, <1>2, <1>4, <1>5, MessageParsed
<1>7. CASE ~(Scoped(n, parser.active) /\ text # {})
  BY <1>1, <1>3, <1>6, <1>7 DEF LineMeant, Parsed
<1>8. CASE Scoped(n, parser.active) /\ text # {}
  <2>1. PICK event \in EventRecords :
          /\ parser'.events = Append(parser.events, event)
          /\ event.truth = truth
          /\ event.kind # "loss" /\ ~event.episode_start
          /\ parser'.in_loss <=> parser.in_loss
          /\ parser'.loss_episodes = parser.loss_episodes
    BY <1>5, <1>6, <1>8 DEF Parsed
  <2>2. MiniEvent(event, FALSE)
    BY <1>1, <1>4, <2>1 DEF MiniEvent
  <2> QED BY <1>1, <1>3, <1>6, <2>2 DEF LineMeant, Parsed
<1> QED BY <1>7, <1>8

LEMMA LineFollowed == Base /\ Followed /\ LineMeant => Followed'
<1> SUFFICES ASSUME Base, Followed, LineMeant PROVE Followed'
  OBVIOUS
<1>1. /\ parser'.active = parser.active /\ UNCHANGED <<name, held, removed>>
      /\ \/ parser' = parser
         \/ \E event \in EventRecords, lost \in BOOLEAN : MiniEvent(event, lost)
  BY DEF LineMeant
<1>2. NoMisattribution'
  <2>1. CASE parser' = parser
    BY <2>1 DEF Followed, NoMisattribution, Events
  <2>2. ASSUME NEW event \in EventRecords, NEW lost \in BOOLEAN, MiniEvent(event, lost)
        PROVE  NoMisattribution'
    <3>1. parser'.events = Append(parser.events, event) /\ event.truth.about = Mini
      BY <2>2 DEF MiniEvent
    <3>2. /\ DOMAIN Events = 1 .. Len(Events) /\ Len(Events) \in Nat
          /\ DOMAIN Events' = 1 .. Len(Events) + 1
          /\ \A i \in 1 .. Len(Events) : Events'[i] = Events[i]
          /\ Events'[Len(Events) + 1] = event
      BY <3>1, EventAppended DEF Base, Typed
    <3>3. \A i \in 1 .. Len(Events) : Events[i].truth.about = Mini
      BY <3>2 DEF Followed, NoMisattribution
    <3> QED BY <3>1, <3>2, <3>3 DEF NoMisattribution
  <2> QED BY <1>1, <2>1, <2>2
<1> QED BY <1>1, <1>2 DEF Followed

LEMMA CountedStays ==
  ASSUME Counted, parser'.events = parser.events, UNCHANGED losses,
         parser'.loss_episodes = parser.loss_episodes,
         parser'.in_loss <=> count'.probes \in losses, \A p \in losses : p <= count'.probes
  PROVE  Counted'
<1>1. LossEvents' = LossEvents
  BY DEF LossEvents, Events
<1>2. losses = {Events'[i].truth.probe : i \in LossEvents'}
  BY <1>1 DEF Counted, Events
<1>3. EpisodesMatch'
  BY DEF Counted, EpisodesMatch, Events
<1> QED BY <1>2, <1>3 DEF Counted

LEMMA LineCounted == Base /\ Counted /\ LineMeant => Counted'
<1> SUFFICES ASSUME Base, Counted, LineMeant PROVE Counted'
  OBVIOUS
<1>1. /\ parser \in Parsers /\ count.probes \in Nat /\ count'.probes = count.probes
      /\ losses \in SUBSET Nat
  BY DEF Base, Typed, LineMeant
<1>2. CASE parser' = parser /\ losses' = losses
  BY <1>1, <1>2, CountedStays DEF Counted
<1>3. ASSUME NEW event \in EventRecords, NEW lost \in BOOLEAN, MiniEvent(event, lost)
      PROVE  Counted'
  <2> DEFINE last == Len(Events) + 1
             again == count.probes \in losses
  <2>1. /\ DOMAIN Events = 1 .. Len(Events) /\ Len(Events) \in Nat
        /\ DOMAIN Events' = 1 .. last
        /\ \A i \in 1 .. Len(Events) : Events'[i] = Events[i]
        /\ Events'[last] = event
    BY <1>1, <1>3, EventAppended DEF MiniEvent
  <2>2. /\ event.truth.probe = count.probes
        /\ event.kind = "loss" <=> lost
        /\ event.episode_start <=> (lost /\ ~again)
        /\ parser'.in_loss <=> (again \/ lost)
        /\ parser'.loss_episodes = IF event.episode_start THEN parser.loss_episodes + 1
                                   ELSE parser.loss_episodes
        /\ losses' = IF lost THEN losses \cup {count.probes} ELSE losses
    BY <1>3 DEF MiniEvent, Counted
  <2>3. /\ losses = {Events[i].truth.probe : i \in LossEvents}
        /\ IsFiniteSet(losses) /\ \A p \in losses : p <= count.probes
        /\ parser.loss_episodes = Cardinality(losses)
    BY DEF Counted, EpisodesMatch
  <2>4. /\ LossEvents \subseteq 1 .. Len(Events)
        /\ LossEvents' = IF lost THEN LossEvents \cup {last} ELSE LossEvents
    BY <2>1, <2>2 DEF LossEvents
  <2>5. \A i \in LossEvents : Events'[i] = Events[i]
    BY <2>1, <2>4
  <2>6. losses' = {Events'[i].truth.probe : i \in LossEvents'}
    <3>1. CASE ~lost
      BY <2>2, <2>3, <2>4, <2>5, <3>1
    <3>2. CASE lost
      <4>1. LossEvents' = LossEvents \cup {last} /\ Events'[last].truth.probe = count.probes
        BY <2>1, <2>2, <2>4, <3>2
      <4>2. losses' = {Events[i].truth.probe : i \in LossEvents} \cup {count.probes}
        BY <2>2, <2>3, <3>2
      <4> HIDE DEF last
      <4> QED BY <2>5, <4>1, <4>2
    <3> QED BY <3>1, <3>2
  <2>7. IsFiniteSet(losses') /\ parser'.loss_episodes = Cardinality(losses')
    <3>1. CASE lost /\ ~again
      <4>1. count.probes \notin losses /\ losses' = losses \cup {count.probes}
        BY <2>2, <3>1
      <4>2. IsFiniteSet(losses') /\ Cardinality(losses') = Cardinality(losses) + 1
        BY <2>3, <4>1, FS_AddElement
      <4>3. event.episode_start
        BY <2>2, <3>1
      <4> QED BY <2>2, <2>3, <4>2, <4>3
    <3>2. CASE ~lost \/ again
      <4>1. losses' = losses
        BY <2>2, <3>2
      <4> QED BY <2>2, <2>3, <3>2, <4>1
    <3> QED BY <3>1, <3>2
  <2>8. (\A p \in losses' : p <= count'.probes)
        /\ (parser'.in_loss <=> count'.probes \in losses')
    BY <1>1, <2>2, <2>3
  <2>9. \A i \in DOMAIN Events' :
          Events'[i].episode_start <=>
            /\ Events'[i].kind = "loss"
            /\ \A j \in 1 .. i - 1 :
                 Events'[j].kind = "loss" => Events'[j].truth.probe # Events'[i].truth.probe
    <3>1. ASSUME NEW i \in 1 .. Len(Events)
          PROVE  Events'[i].episode_start <=>
                   /\ Events'[i].kind = "loss"
                   /\ \A j \in 1 .. i - 1 : Events'[j].kind = "loss" =>
                        Events'[j].truth.probe # Events'[i].truth.probe
      <4>1. Events[i].episode_start <=>
              /\ Events[i].kind = "loss"
              /\ \A j \in 1 .. i - 1 :
                   Events[j].kind = "loss" => Events[j].truth.probe # Events[i].truth.probe
        BY <2>1 DEF Counted, EpisodesMatch
      <4>2. \A j \in 1 .. i - 1 : Events'[j] = Events[j]
        BY <2>1
      <4>3. Events'[i] = Events[i]
        BY <2>1
      <4> QED BY <4>1, <4>2, <4>3, Zenon
    <3>2. again <=> \E j \in 1 .. Len(Events) :
                      Events[j].kind = "loss" /\ Events[j].truth.probe = count.probes
      BY <2>1, <2>3 DEF LossEvents
    <3>3. event.episode_start <=>
            /\ event.kind = "loss"
            /\ \A j \in 1 .. Len(Events) :
                 Events[j].kind = "loss" => Events[j].truth.probe # event.truth.probe
      BY <2>2, <3>2
    <3>4. last - 1 = Len(Events)
      BY <2>1
    <3>5. Events'[last].episode_start <=>
            /\ Events'[last].kind = "loss"
            /\ \A j \in 1 .. last - 1 : Events'[j].kind = "loss" =>
                 Events'[j].truth.probe # Events'[last].truth.probe
      <4> HIDE DEF last
      <4> QED BY <2>1, <3>3, <3>4
    <3>6. \A i \in 1 .. last : i \in 1 .. Len(Events) \/ i = last
      BY <2>1
    <3> HIDE DEF last
    <3> QED BY <2>1, <3>1, <3>5, <3>6
  <2> QED BY <2>6, <2>7, <2>8, <2>9 DEF Counted, EpisodesMatch
<1> QED BY <1>2, <1>3 DEF LineMeant

LEMMA FreshFollowed ==
  ASSUME name' = [d \in Drives |-> None], losses' = {}, parser' = Fresh
  PROVE  Followed' /\ Counted'
<1>1. /\ parser'.active = None /\ parser'.events = <<>> /\ parser'.in_loss = FALSE
      /\ parser'.loss_episodes = 0
  BY FreshParser
<1>2. IsFiniteSet({}) /\ Cardinality({}) = 0
  BY FS_EmptySet
<1>3. LossEvents' = {} /\ DOMAIN Events' = {}
  BY <1>1 DEF LossEvents, Events
<1>4. Followed'
  BY <1>1, <1>3 DEF Followed, NoMisattribution, Drives
<1>5. EpisodesMatch'
  BY <1>1, <1>2, <1>3 DEF EpisodesMatch
<1>6. losses' = {Events'[i].truth.probe : i \in LossEvents'}
  BY <1>3
<1> QED BY <1>1, <1>2, <1>4, <1>5, <1>6 DEF Counted

LEMMA InitFollowed == HistoryInit => Followed /\ Counted
<1> SUFFICES ASSUME HistoryInit PROVE Followed /\ Counted
  OBVIOUS
<1>1. name = [d \in Drives |-> None] /\ losses = {} /\ parser = Fresh
  BY DEF HistoryInit, Init
<1>2. /\ parser.active = None /\ parser.events = <<>> /\ parser.in_loss = FALSE
      /\ parser.loss_episodes = 0
  BY <1>1, FreshParser
<1>3. IsFiniteSet({}) /\ Cardinality({}) = 0
  BY FS_EmptySet
<1>4. LossEvents = {} /\ DOMAIN Events = {}
  BY <1>2 DEF LossEvents, Events
<1>5. Followed
  BY <1>1, <1>2, <1>4 DEF Followed, NoMisattribution, Drives
<1>6. EpisodesMatch
  BY <1>1, <1>2, <1>3, <1>4 DEF EpisodesMatch
<1>7. losses = {Events[i].truth.probe : i \in LossEvents}
  BY <1>1, <1>4
<1> QED BY <1>1, <1>2, <1>3, <1>5, <1>6, <1>7 DEF Counted

LEMMA QuietFollowed ==
  ASSUME Followed, parser'.events = parser.events, parser'.active = parser.active,
         UNCHANGED <<name, removed>>
  PROVE  Followed'
BY DEF Followed, NoMisattribution, Events

LEMMA ProbeFollowed ==
  ASSUME NoHotplug, Base, Followed, NEW d \in Drives, Probe(d)
  PROVE  Followed'
<1> USE BootLogAssumption
<1>1. /\ parser' \in Parsers /\ parser'.events = parser.events
      /\ name[d] = None /\ FreeNumber \in Nat /\ \A e \in Drives : name[e] # FreeNumber
      /\ \A e \in Drives : name'[e] = IF e = d THEN FreeNumber ELSE name[e]
      /\ d = Mini => parser'.active = FreeNumber
      /\ d # Mini => parser' = parser /\ (~removed \/ d \in Hotplug)
      /\ UNCHANGED removed
  BY ProbeParsed DEF Base
<1>2. NoMisattribution'
  BY <1>1 DEF Followed, NoMisattribution, Events
<1>3. Mini \in Drives /\ Others \subseteq Drives /\ Mini \notin Others
  BY DEF Drives
<1>4. CASE d = Mini
  BY <1>1, <1>2, <1>3, <1>4 DEF Followed
<1>5. CASE d # Mini
  <2>1. ~removed /\ parser' = parser /\ name'[Mini] = name[Mini]
    BY <1>1, <1>3, <1>5 DEF NoHotplug
  <2>2. parser.active = name[Mini]
    BY <2>1 DEF Followed
  <2>3. \A e \in Others : name'[e] # None => name'[e] # parser.active
    BY <1>1, <1>3, <2>2 DEF Followed
  <2> QED BY <1>1, <1>2, <2>1, <2>2, <2>3 DEF Followed
<1> QED BY <1>4, <1>5

LEMMA ProbeCounted ==
  ASSUME Base, Counted, NEW d \in Drives, Probe(d)
  PROVE  Counted'
<1>1. /\ parser'.events = parser.events /\ UNCHANGED losses
      /\ parser'.loss_episodes = parser.loss_episodes
      /\ d = Mini => parser'.in_loss = FALSE /\ count'.probes = count.probes + 1
      /\ d # Mini => parser' = parser /\ count' = count
  BY ProbeParsed DEF Base
<1>2. count.probes \in Nat /\ losses \in SUBSET Nat
  BY DEF Base, Typed
<1>3. \A p \in losses : p <= count.probes
  BY DEF Counted
<1>4. CASE d = Mini
  <2>1. count'.probes \notin losses /\ \A p \in losses : p <= count'.probes
    BY <1>1, <1>2, <1>3, <1>4
  <2> QED BY <1>1, <1>4, <2>1, CountedStays
<1>5. CASE d # Mini
  BY <1>1, <1>3, <1>5, CountedStays DEF Counted
<1> QED BY <1>4, <1>5

LEMMA UnplugFollowed == Base /\ Followed /\ Unplug => Followed'
<1> SUFFICES ASSUME Base, Followed, Unplug PROVE Followed'
  OBVIOUS
<1>1. /\ removed' = TRUE /\ UNCHANGED parser
      /\ \A e \in Drives : name'[e] = IF e = Mini THEN None ELSE name[e]
  BY UnplugMoves DEF Base
<1>2. Others \subseteq Drives
  BY DEF Drives
<1> QED BY <1>1, <1>2 DEF Followed, NoMisattribution, Events

LEMMA KernelFollowed ==
  ASSUME NoHotplug, Base, Followed, Counted, Next
  PROVE  Followed' /\ Counted'
<1>1. CASE Enumerate
  <2>1. /\ parser'.events = parser.events /\ parser'.loss_episodes = parser.loss_episodes
        /\ parser'.active = parser.active /\ parser'.in_loss = parser.in_loss
        /\ UNCHANGED <<name, removed, count, losses>>
    BY <1>1, EnumerateParsed DEF Base
  <2> QED BY <2>1, QuietFollowed, CountedStays DEF Counted
<1>2. CASE Suspend
  <2>1. /\ parser'.events = parser.events /\ parser'.loss_episodes = parser.loss_episodes
        /\ parser'.active = parser.active /\ parser'.in_loss = parser.in_loss
        /\ count'.probes = count.probes /\ UNCHANGED <<name, removed, losses>>
    BY <1>2, SuspendParsed DEF Base
  <2> QED BY <2>1, QuietFollowed, CountedStays DEF Counted
<1>3. CASE Unplug
  <2>1. UNCHANGED <<count, losses, parser>>
    BY <1>3, UnplugMoves DEF Base
  <2> QED BY <1>3, <2>1, UnplugFollowed, CountedStays DEF Counted
<1>4. ASSUME NEW d \in Drives, Probe(d)
      PROVE  Followed' /\ Counted'
  BY <1>4, ProbeFollowed, ProbeCounted
<1>5. CASE \/ \E d \in Drives : \E label \in {d, name[d]}, text \in Texts :
                Message(d, label, text)
           \/ \E n \in held : LateMessage(n)
  BY <1>5, MessageMeant, LateMeant, LineFollowed, LineCounted
<1> QED BY <1>1, <1>2, <1>3, <1>4, <1>5 DEF Next

LEMMA NextIInv == NoHotplug /\ IInv /\ [HistoryNext]_<<vars, history>> => IInv'
<1> SUFFICES ASSUME NoHotplug, IInv, [HistoryNext]_<<vars, history>> PROVE IInv'
  OBVIOUS
<1>1. Base'
  BY NextBase DEF IInv
<1>2. CASE UNCHANGED vars
  <2>1. UNCHANGED <<name, removed, count, losses, parser>>
    BY <1>2 DEF vars
  <2> QED BY <1>1, <2>1, QuietFollowed, CountedStays DEF IInv, Counted
<1>3. CASE KernelLogs
  BY <1>1, <1>3, KernelFollowed DEF KernelLogs, IInv
<1>4. CASE Reboot
  BY <1>1, <1>4, FreshFollowed DEF Reboot, IInv
<1>5. CASE Vacuum \/ ListBoots \/ ReadBoot \/ Reported
  BY <1>2, <1>5 DEF Vacuum, ListBoots, ReadBoot, Reported
<1>6. CASE UNCHANGED <<vars, history>>
  BY <1>2, <1>6
<1> QED BY <1>3, <1>4, <1>5, <1>6 DEF HistoryNext

LEMMA IInvHolds == NoHotplug => (HistorySpec => []IInv)
<1> SUFFICES ASSUME NoHotplug PROVE HistorySpec => []IInv
  OBVIOUS
<1>1. HistoryInit => IInv
  BY InitBase, InitFollowed DEF IInv
<1>2. IInv /\ [HistoryNext]_<<vars, history>> => IInv'
  BY NextIInv
<1> QED BY <1>1, <1>2, PTL DEF HistorySpec

(* While no drive comes after the Mini SSD was pulled, no event is another *)
(* drive's: whatever the drives are, and in whatever order the kernel      *)
(* probes, numbers and pulls them, the line's label is the Mini SSD's.     *)
THEOREM EventsAreTheMinis == NoHotplug => (HistorySpec => []NoMisattribution)
<1>1. IInv => NoMisattribution
  BY DEF IInv, Followed
<1> QED BY <1>1, IInvHolds, PTL

(* The losses of a boot are counted as its episodes: one for each probe    *)
(* the kernel logged a loss after, however many lines tell of it.          *)
THEOREM LossesAreEpisodes == NoHotplug => (HistorySpec => []EpisodesMatch)
<1>1. IInv => EpisodesMatch
  BY DEF IInv, Counted
<1> QED BY <1>1, IInvHolds, PTL

-----------------------------------------------------------------------------
(* The report: what the boots of the past hold, and what is in the result  *)
(* while it is made. The first boot listed is First + 1.                   *)
Entries == [boot : Nat, available : BOOLEAN, loss_episodes : Nat, whole : BOOLEAN]

(* What a row says of a boot with so many losses when the boots were listed *)
(* and so many by now.                                                      *)
Fits(row, least, most) ==
  row.loss_episodes \in
    IF row.available THEN (IF row.whole THEN least ELSE 0) .. most ELSE {0}

Retained ==
  /\ past \in Seq([losses : Nat, episodes : Nat])
  /\ \A b \in 1 .. Len(past) : past[b].losses = past[b].episodes
  /\ vacuumed \in 0 .. Len(past)

First == Boots - Len(report.boots) - Len(report.todo)

Reading ==
  /\ report.at \in {"idle", "reading", "done"} /\ report.available \in BOOLEAN
  /\ DOMAIN report = {"at", "available", "todo", "boots", "logged"}
  /\ report.boots \in Seq(Entries) /\ report.todo \in Seq(Nat)
  /\ report.at # "done" => ~report.available
  /\ report.at = "reading" => report.todo # <<>>
  /\ (report.at = "reading" \/ report.available) =>
       /\ DOMAIN report.logged = 1 .. Boots /\ First \in Nat
       /\ \A b \in 1 .. Boots : report.logged[b] \in 0 .. LossesOf(b)
       /\ \A i \in 1 .. Len(report.todo) : report.todo[i] = First + Len(report.boots) + i
       /\ \A i \in 1 .. Len(report.boots) : report.boots[i].boot = First + i
       /\ \A i \in 1 .. Len(report.boots), b \in 1 .. Boots :
            report.boots[i].boot = b =>
              Fits(report.boots[i], report.logged[b], LossesOf(b))

LEMMA BootNumbers ==
  ASSUME Base, Counted, Retained
  PROVE  /\ Boots \in Nat \ {0} /\ Boots = Len(past) + 1
         /\ Cardinality(losses) \in Nat /\ parser.loss_episodes = Cardinality(losses)
         /\ \A b \in 1 .. Boots : /\ LossesOf(b) \in Nat /\ Episodes(b) \subseteq 0 .. LossesOf(b)
                                  /\ HasBeginning(b) => Episodes(b) = {LossesOf(b)}
<1>1. Len(past) \in Nat /\ \A b \in 1 .. Len(past) : past[b] \in [losses : Nat, episodes : Nat]
  BY LenProperties, ElementOfSeq DEF Retained
<1>2. Boots \in Nat \ {0} /\ Boots = Len(past) + 1
  BY <1>1 DEF Boots
<1>3. Cardinality(losses) \in Nat /\ parser.loss_episodes = Cardinality(losses)
  BY FS_CardinalityType DEF Counted, EpisodesMatch
<1>4. ASSUME NEW b \in 1 .. Boots
      PROVE  /\ LossesOf(b) \in Nat /\ Episodes(b) \subseteq 0 .. LossesOf(b)
             /\ HasBeginning(b) => Episodes(b) = {LossesOf(b)}
  <2>1. CASE b = Boots
    BY <1>3, <2>1 DEF LossesOf, Episodes
  <2>2. CASE b # Boots
    <3>1. b \in 1 .. Len(past)
      BY <1>1, <1>2, <2>2
    <3>2. past[b].losses \in Nat /\ past[b].losses = past[b].episodes
      BY <1>1, <3>1 DEF Retained
    <3> QED BY <2>2, <3>2 DEF LossesOf, Episodes
  <2> QED BY <2>1, <2>2
<1> QED BY <1>2, <1>3, <1>4

(* A boot's losses are not taken back.                                     *)
LEMMA LossesGrow == Base /\ Next => losses \subseteq losses'
<1> SUFFICES ASSUME Base, Next PROVE losses \subseteq losses'
  OBVIOUS
<1>1. CASE Enumerate \/ Unplug \/ Suspend
  BY <1>1 DEF Enumerate, Unplug, Suspend
<1>2. CASE \E d \in Drives : Probe(d)
  BY <1>2 DEF Probe
<1>3. ASSUME NEW d \in Drives, NEW label \in {d, name[d]}, NEW text \in Texts,
             Message(d, label, text)
      PROVE  losses \subseteq losses'
  <2>1. losses' = IF d = Mini /\ "loss" \in text THEN losses \cup {count.probes} ELSE losses
    BY <1>3 DEF Message
  <2> QED BY <2>1
<1>4. CASE \E n \in held : LateMessage(n)
  BY <1>4 DEF LateMessage
<1> QED BY <1>1, <1>2, <1>3, <1>4 DEF Next

LEMMA KernelReading ==
  ASSUME Base, Counted, Retained, Reading, Counted', KernelLogs
  PROVE  Retained' /\ Reading'
<1>1. UNCHANGED <<past, vacuumed, report>> /\ Next
  BY DEF KernelLogs, history
<1>2. Cardinality(losses) <= Cardinality(losses')
  <2>1. losses \subseteq losses' /\ IsFiniteSet(losses')
    BY <1>1, LossesGrow DEF Counted
  <2> QED BY <2>1, FS_Subset
<1>3. Retained'
  BY <1>1 DEF Retained
<1>4. Cardinality(losses)' \in Nat
  <2>1. IsFiniteSet(losses')
    BY DEF Counted
  <2> QED BY <2>1, FS_CardinalityType
<1>5. Boots' = Boots /\ First' = First /\ Boots \in Nat
  BY <1>1, BootNumbers DEF Boots, First
<1>6. ASSUME NEW b \in 1 .. Boots
      PROVE  LossesOf(b)' \in Nat /\ LossesOf(b) \in Nat /\ LossesOf(b) <= LossesOf(b)'
  <2>1. LossesOf(b) \in Nat
    BY BootNumbers
  <2>2. CASE b = Boots
    BY <1>2, <1>4, <1>5, <2>1, <2>2 DEF LossesOf
  <2>3. CASE b # Boots
    <3>1. LossesOf(b)' = LossesOf(b)
      BY <1>1, <1>5, <2>3 DEF LossesOf
    <3> QED BY <2>1, <3>1
  <2> QED BY <2>2, <2>3
<1>7. ASSUME report.at = "reading" \/ report.available
      PROVE  /\ \A b \in 1 .. Boots : report.logged[b] \in 0 .. LossesOf(b)'
             /\ \A i \in 1 .. Len(report.boots), b \in 1 .. Boots :
                  report.boots[i].boot = b =>
                    Fits(report.boots[i], report.logged[b], LossesOf(b)')
  <2>1. \A b \in 1 .. Boots : report.logged[b] \in 0 .. LossesOf(b)
    BY <1>7 DEF Reading
  <2>2. \A b \in 1 .. Boots : report.logged[b] \in 0 .. LossesOf(b)'
    BY <1>6, <2>1
  <2>3. ASSUME NEW i \in 1 .. Len(report.boots), NEW b \in 1 .. Boots,
               report.boots[i].boot = b
        PROVE  Fits(report.boots[i], report.logged[b], LossesOf(b)')
    <3>1. Fits(report.boots[i], report.logged[b], LossesOf(b))
      BY <1>7, <2>3 DEF Reading
    <3>2. /\ LossesOf(b)' \in Nat /\ LossesOf(b) \in Nat /\ LossesOf(b) <= LossesOf(b)'
          /\ report.logged[b] \in 0 .. LossesOf(b)
      BY <1>6, <2>1
    <3> QED BY <3>1, <3>2 DEF Fits
  <2> QED BY <2>2, <2>3
<1>8. Reading'
  BY <1>1, <1>5, <1>7 DEF Reading
<1> QED BY <1>3, <1>8

LEMMA NoReportReads == report' = NoReport => Reading'
<1> SUFFICES ASSUME report' = NoReport PROVE Reading'
  OBVIOUS
<1>1. <<>> \in Seq(Entries) /\ <<>> \in Seq(Nat)
  BY EmptySeq
<1> QED BY <1>1 DEF NoReport, Reading

LEMMA RebootReading ==
  ASSUME Base, Counted, Retained, Reboot
  PROVE  Retained' /\ Reading'
<1> DEFINE boot == [losses |-> Cardinality(losses), episodes |-> parser.loss_episodes]
<1>1. past' = Append(past, boot) /\ report' = NoReport /\ vacuumed' = vacuumed
  BY DEF Reboot
<1>2. /\ Cardinality(losses) \in Nat /\ boot.losses = boot.episodes
      /\ boot \in [losses : Nat, episodes : Nat]
  BY BootNumbers
<1> HIDE DEF boot
<1>3. past \in Seq([losses : Nat, episodes : Nat]) /\ vacuumed \in 0 .. Len(past)
      /\ Len(past) \in Nat
  BY LenProperties DEF Retained
<1>4. /\ past' \in Seq([losses : Nat, episodes : Nat]) /\ Len(past') = Len(past) + 1
      /\ \A b \in 1 .. Len(past) : past'[b] = past[b]
      /\ past'[Len(past) + 1] = boot
  BY <1>1, <1>2, <1>3, AppendProperties
<1>5. ASSUME NEW b \in 1 .. Len(past')
      PROVE  past'[b].losses = past'[b].episodes
  <2>1. CASE b = Len(past) + 1
    BY <1>2, <1>4, <2>1
  <2>2. CASE b # Len(past) + 1
    <3>1. b \in 1 .. Len(past)
      BY <1>3, <1>4, <2>2
    <3> QED BY <1>4, <3>1 DEF Retained
  <2> QED BY <2>1, <2>2
<1>6. Retained'
  BY <1>1, <1>3, <1>4, <1>5 DEF Retained
<1> QED BY <1>1, <1>6, NoReportReads

(* The boots and their losses stay what they are.                          *)
LEMMA StillBoots ==
  ASSUME UNCHANGED <<vars, past>>
  PROVE  Boots' = Boots /\ \A b \in 1 .. Boots : LossesOf(b)' = LossesOf(b)
<1>1. Boots' = Boots
  BY DEF Boots
<1>2. losses' = losses
  BY DEF vars
<1> QED BY <1>1, <1>2 DEF LossesOf

LEMMA VacuumReading ==
  ASSUME Retained, Reading, UNCHANGED <<vars, past, report>>,
         vacuumed' \in 0 .. Len(past)
  PROVE  Retained' /\ Reading'
<1>1. Retained'
  BY DEF Retained
<1>2. Boots' = Boots /\ First' = First /\ \A b \in 1 .. Boots : LossesOf(b)' = LossesOf(b)
  BY StillBoots DEF First
<1>3. Reading'
  BY <1>2 DEF Reading
<1> QED BY <1>1, <1>3

LEMMA ListReading ==
  ASSUME Base, Counted, Retained, ListBoots
  PROVE  Reading'
<1>1. Boots' = Boots /\ \A b \in 1 .. Boots : LossesOf(b)' = LossesOf(b)
  BY StillBoots DEF ListBoots
<1>2. /\ Boots \in Nat \ {0} /\ vacuumed \in 0 .. Boots - 1 /\ Len(past) \in Nat
      /\ \A b \in 1 .. Boots : LossesOf(b) \in Nat
  BY BootNumbers, LenProperties DEF Retained
<1>3. <<>> \in Seq(Entries) /\ <<>> \in Seq(Nat)
  BY EmptySeq
<1>4. CASE report' = [NoReport EXCEPT !.at = "done"]
  BY <1>3, <1>4 DEF NoReport, Reading
<1>5. CASE report' = [NoReport EXCEPT !.at = "reading",
                         !.todo = [i \in 1 .. Boots - vacuumed |-> vacuumed + i],
                         !.logged = [b \in 1 .. Boots |-> LossesOf(b)]]
  <2> DEFINE todo == [i \in 1 .. Boots - vacuumed |-> vacuumed + i]
             logged == [b \in 1 .. Boots |-> LossesOf(b)]
  <2>1. /\ todo \in Seq(Nat) /\ Len(todo) = Boots - vacuumed
        /\ \A i \in 1 .. Len(todo) : todo[i] = vacuumed + i
    <3>1. Boots - vacuumed \in Nat
      BY <1>2
    <3>2. \A i \in 1 .. Boots - vacuumed : vacuumed + i \in Nat
      BY <1>2
    <3> QED BY <3>1, <3>2
  <2>2. todo # <<>>
    BY <1>2, <2>1
  <2>3. DOMAIN logged = 1 .. Boots /\ \A b \in 1 .. Boots : logged[b] \in 0 .. LossesOf(b)
    BY <1>2
  <2>4. report' = [at |-> "reading", available |-> FALSE, todo |-> todo, boots |-> <<>>,
                   logged |-> logged]
    BY <1>5 DEF NoReport
  <2> HIDE DEF todo, logged
  <2>5. /\ report'.at = "reading" /\ report'.available = FALSE /\ report'.todo = todo
        /\ report'.boots = <<>> /\ report'.logged = logged
        /\ DOMAIN report' = {"at", "available", "todo", "boots", "logged"}
    BY <2>4
  <2>6. Len(<<>>) = 0
    OBVIOUS
  <2>7. First' = vacuumed
    BY <1>1, <1>2, <2>1, <2>5, <2>6 DEF First
  <2>8. \A i \in 1 .. Len(report'.todo) : report'.todo[i] = First' + Len(report'.boots) + i
    BY <1>2, <2>1, <2>5, <2>6, <2>7
  <2>9. \A b \in 1 .. Boots' : report'.logged[b] \in 0 .. LossesOf(b)'
    BY <1>1, <2>3, <2>5
  <2>10. DOMAIN report'.logged = 1 .. Boots' /\ First' \in Nat
    BY <1>1, <1>2, <2>3, <2>5, <2>7
  <2>11. \A i \in 1 .. Len(report'.boots) : FALSE
    BY <2>5, <2>6
  <2> QED BY <1>3, <2>1, <2>2, <2>5, <2>8, <2>9, <2>10, <2>11 DEF Reading
<1> QED BY <1>4, <1>5 DEF ListBoots

LEMMA ReadReading ==
  ASSUME Base, Counted, Retained, Reading, ReadBoot
  PROVE  Reading'
<1> DEFINE b == Head(report.todo)
           n == Len(report.boots)
           m == Len(report.todo)
<1>1. /\ Boots' = Boots /\ Boots \in Nat
      /\ \A c \in 1 .. Boots : /\ LossesOf(c)' = LossesOf(c)
                               /\ LossesOf(c) \in Nat /\ Episodes(c) \subseteq 0 .. LossesOf(c)
                               /\ HasBeginning(c) => Episodes(c) = {LossesOf(c)}
  BY StillBoots, BootNumbers DEF ReadBoot
<1>2. /\ report.at = "reading" /\ report.todo # <<>> /\ report.todo \in Seq(Nat)
      /\ report.boots \in Seq(Entries)
      /\ DOMAIN report = {"at", "available", "todo", "boots", "logged"}
      /\ DOMAIN report.logged = 1 .. Boots /\ First \in Nat
      /\ \A c \in 1 .. Boots : report.logged[c] \in 0 .. LossesOf(c)
      /\ \A i \in 1 .. m : report.todo[i] = First + n + i
      /\ \A i \in 1 .. n : report.boots[i].boot = First + i
      /\ \A i \in 1 .. n, c \in 1 .. Boots :
            report.boots[i].boot = c =>
              Fits(report.boots[i], report.logged[c], LossesOf(c))
  BY DEF ReadBoot, Reading
<1>3. PICK entry \in {Entry(b, FALSE, 0)}
                     \cup (IF b > vacuumed
                           THEN {Entry(b, TRUE, k) : k \in Episodes(b)} ELSE {}) :
        report' = [report EXCEPT !.todo = Tail(@), !.boots = Append(@, entry),
                                 !.at = IF m = 1 THEN "done" ELSE @,
                                 !.available = m = 1]
  BY DEF ReadBoot
<1>4. /\ n \in Nat /\ m \in Nat \ {0} /\ First = Boots - n - m
      /\ b = report.todo[1] /\ Tail(report.todo) \in Seq(Nat)
      /\ Len(Tail(report.todo)) = m - 1
      /\ \A i \in 1 .. m - 1 : Tail(report.todo)[i] = report.todo[i + 1]
  BY <1>2, LenProperties, EmptySeq, HeadTailProperties DEF First
<1>5. b = First + n + 1 /\ b \in 1 .. Boots
  <2>1. 1 \in 1 .. m
    BY <1>4
  <2>2. b = First + n + 1
    BY <1>2, <1>4, <2>1
  <2>3. First \in Nat /\ n \in Nat /\ m \in Nat \ {0} /\ First = Boots - n - m /\ Boots \in Nat
    BY <1>1, <1>2, <1>4
  <2> HIDE DEF b, n, m
  <2> QED BY <2>2, <2>3
<1>6. /\ LossesOf(b) \in Nat /\ Episodes(b) \subseteq 0 .. LossesOf(b)
      /\ HasBeginning(b) => Episodes(b) = {LossesOf(b)}
      /\ report.logged[b] \in 0 .. LossesOf(b)
  BY <1>1, <1>2, <1>5
<1> HIDE DEF b
<1>7. /\ entry.boot = b /\ entry \in Entries
      /\ Fits(entry, report.logged[b], LossesOf(b))
  <2> DEFINE begins == HasBeginning(b)
  <2>1. begins \in BOOLEAN /\ (begins => Episodes(b) = {LossesOf(b)})
    BY <1>6 DEF HasBeginning
  <2>2. CASE entry = Entry(b, FALSE, 0)
    <3>1. entry = [boot |-> b, available |-> FALSE, loss_episodes |-> 0, whole |-> TRUE]
      BY <2>2 DEF Entry
    <3> QED BY <1>5, <3>1 DEF Entries, Fits
  <2>3. ASSUME NEW k \in Episodes(b), entry = Entry(b, TRUE, k)
        PROVE  entry.boot = b /\ entry \in Entries /\ Fits(entry, report.logged[b], LossesOf(b))
    <3>1. entry = [boot |-> b, available |-> TRUE, loss_episodes |-> k, whole |-> begins]
      BY <2>1, <2>3 DEF Entry
    <3>2. k \in 0 .. LossesOf(b) /\ (begins => k = LossesOf(b))
      BY <1>6, <2>1
    <3> HIDE DEF begins
    <3>3. entry.boot = b /\ entry \in Entries
      BY <1>5, <1>6, <2>1, <3>1, <3>2 DEF Entries
    <3>4. k \in (IF begins THEN report.logged[b] ELSE 0) .. LossesOf(b)
      BY <1>6, <2>1, <3>2
    <3> QED BY <3>1, <3>3, <3>4 DEF Fits
  <2> QED BY <1>3, <2>2, <2>3
<1> DEFINE full == m = 1
           at == IF full THEN "done" ELSE report.at
           boots == Append(report.boots, entry)
           todo == Tail(report.todo)
<1>8. report' = [report EXCEPT !.todo = todo, !.boots = boots, !.at = at,
                               !.available = full]
  BY <1>3
<1>9. /\ boots \in Seq(Entries) /\ Len(boots) = n + 1
      /\ \A i \in 1 .. n : boots[i] = report.boots[i]
      /\ boots[n + 1] = entry
  BY <1>2, <1>7, AppendProperties
<1>10. full \in BOOLEAN
  OBVIOUS
<1> HIDE DEF full, at, boots, todo
<1>11. /\ report'.todo = todo /\ report'.boots = boots /\ report'.at = at
       /\ report'.available = full /\ report'.logged = report.logged
       /\ DOMAIN report' = {"at", "available", "todo", "boots", "logged"}
  BY <1>2, <1>8
<1>12. First' = First
  <2>1. Len(report'.boots) = n + 1 /\ Len(report'.todo) = m - 1
    BY <1>4, <1>9, <1>11 DEF todo
  <2>2. First' = Boots - (n + 1) - (m - 1)
    BY <1>1, <2>1 DEF First
  <2>3. n \in Nat /\ m \in Nat /\ First = Boots - n - m
    BY <1>4
  <2> QED BY <1>1, <2>2, <2>3
<1>13. /\ at \in {"reading", "done"} /\ (at # "done" => ~full)
       /\ (at = "reading" => todo # <<>>)
  <2>1. at = "reading" => m - 1 > 0
    <3>1. at = "reading" => m # 1
      BY DEF at, full
    <3>2. m \in Nat \ {0}
      BY <1>4
    <3>3. \A k \in Nat \ {0} : k # 1 => k - 1 > 0
      OBVIOUS
    <3> HIDE DEF m
    <3> QED BY <3>1, <3>2, <3>3
  <2>2. at \in {"reading", "done"} /\ (at # "done" => ~full)
    BY <1>2 DEF at
  <2>3. Len(<<>>) = 0
    OBVIOUS
  <2>4. Len(todo) = m - 1
    BY <1>4 DEF todo
  <2> QED BY <1>4, <2>1, <2>2, <2>3, <2>4
<1>14. \A i \in 1 .. Len(todo) : todo[i] = First + Len(boots) + i
  <2> SUFFICES ASSUME NEW i \in 1 .. Len(todo) PROVE todo[i] = First + Len(boots) + i
    OBVIOUS
  <2>1. i \in 1 .. m - 1 /\ todo[i] = report.todo[i + 1]
    BY <1>4 DEF todo
  <2>2. i + 1 \in 1 .. m
    BY <1>4, <2>1
  <2>3. report.todo[i + 1] = First + n + (i + 1)
    BY <1>2, <2>2
  <2> QED BY <1>2, <1>4, <1>9, <2>1, <2>3
<1>15. \A i \in 1 .. Len(boots) : boots[i].boot = First + i
  <2> SUFFICES ASSUME NEW i \in 1 .. Len(boots) PROVE boots[i].boot = First + i
    OBVIOUS
  <2>1. CASE i = n + 1
    BY <1>2, <1>4, <1>5, <1>7, <1>9, <2>1
  <2>2. CASE i # n + 1
    <3>1. i \in 1 .. n
      BY <1>4, <1>9, <2>2
    <3> QED BY <1>2, <1>9, <3>1
  <2> QED BY <2>1, <2>2
<1>16. ASSUME NEW i \in 1 .. Len(boots), NEW c \in 1 .. Boots, boots[i].boot = c
       PROVE  Fits(boots[i], report.logged[c], LossesOf(c))
  <2>1. CASE i = n + 1
    <3>1. boots[i] = entry /\ c = b
      BY <1>7, <1>9, <1>16, <2>1
    <3> QED BY <1>7, <3>1
  <2>2. CASE i # n + 1
    <3>1. i \in 1 .. n
      BY <1>4, <1>9, <2>2
    <3>2. boots[i] = report.boots[i]
      BY <1>9, <3>1
    <3> QED BY <1>2, <1>16, <3>1, <3>2
  <2> QED BY <2>1, <2>2
<1>17. /\ report'.at \in {"idle", "reading", "done"} /\ report'.available \in BOOLEAN
       /\ report'.boots \in Seq(Entries) /\ report'.todo \in Seq(Nat)
       /\ report'.at # "done" => ~report'.available
       /\ report'.at = "reading" => report'.todo # <<>>
  BY <1>4, <1>9, <1>10, <1>11, <1>13 DEF todo
<1>18. /\ DOMAIN report'.logged = 1 .. Boots' /\ First' \in Nat
       /\ \A c \in 1 .. Boots' : report'.logged[c] \in 0 .. LossesOf(c)'
       /\ \A i \in 1 .. Len(report'.todo) : report'.todo[i] = First' + Len(report'.boots) + i
       /\ \A i \in 1 .. Len(report'.boots) : report'.boots[i].boot = First' + i
  BY <1>1, <1>2, <1>11, <1>12, <1>14, <1>15
<1>19. \A i \in 1 .. Len(report'.boots), c \in 1 .. Boots' :
         report'.boots[i].boot = c =>
           Fits(report'.boots[i], report'.logged[c], LossesOf(c)')
  BY <1>1, <1>11, <1>16
<1> QED BY <1>11, <1>17, <1>18, <1>19 DEF Reading

AllInv == IInv /\ Retained /\ Reading

LEMMA NextAllInv == NoHotplug /\ AllInv /\ [HistoryNext]_<<vars, history>> => AllInv'
<1> SUFFICES ASSUME NoHotplug, AllInv, [HistoryNext]_<<vars, history>> PROVE AllInv'
  OBVIOUS
<1>1. IInv /\ Base /\ Counted /\ Retained /\ Reading /\ IInv' /\ Counted'
  <2>1. IInv'
    BY NextIInv DEF AllInv
  <2> QED BY <2>1 DEF AllInv, IInv
<1>2. CASE KernelLogs
  BY <1>1, <1>2, KernelReading DEF AllInv
<1>3. CASE Reboot
  BY <1>1, <1>3, RebootReading DEF AllInv
<1>4. CASE Vacuum \/ UNCHANGED <<vars, history>>
  <2>1. UNCHANGED <<vars, past, report>>
    BY <1>4 DEF Vacuum, history
  <2>2. vacuumed' \in 0 .. Len(past)
    <3>1. vacuumed \in 0 .. Len(past) /\ Len(past) \in Nat
      BY <1>1, LenProperties DEF Retained
    <3> QED BY <1>4, <3>1 DEF Vacuum, history
  <2> QED BY <1>1, <2>1, <2>2, VacuumReading DEF AllInv
<1>5. ASSUME ListBoots \/ ReadBoot \/ Reported
      PROVE  Retained' /\ Reading'
  <2>1. UNCHANGED <<past, vacuumed>>
    BY <1>5 DEF ListBoots, ReadBoot, Reported
  <2>2. Retained'
    BY <1>1, <2>1 DEF Retained
  <2>3. Reading'
    BY <1>1, <1>5, ListReading, ReadReading, NoReportReads DEF Reported
  <2> QED BY <2>2, <2>3
<1> QED BY <1>1, <1>2, <1>3, <1>4, <1>5 DEF AllInv, HistoryNext

LEMMA AllInvHolds == NoHotplug => (HistorySpec => []AllInv)
<1> SUFFICES ASSUME NoHotplug PROVE HistorySpec => []AllInv
  OBVIOUS
<1>1. HistoryInit => AllInv
  <2> SUFFICES ASSUME HistoryInit PROVE AllInv
    OBVIOUS
  <2>1. IInv
    BY InitBase, InitFollowed DEF IInv
  <2>2. /\ <<>> \in Seq(Entries) /\ <<>> \in Seq(Nat)
        /\ <<>> \in Seq([losses : Nat, episodes : Nat]) /\ Len(<<>>) = 0
    BY EmptySeq
  <2>3. Retained
    BY <2>2 DEF HistoryInit, Retained
  <2>4. Reading
    BY <2>2 DEF HistoryInit, NoReport, Reading
  <2> QED BY <2>1, <2>3, <2>4 DEF AllInv
<1>2. AllInv /\ [HistoryNext]_<<vars, history>> => AllInv'
  BY NextAllInv
<1> QED BY <1>1, <1>2, PTL DEF HistorySpec
-----------------------------------------------------------------------------
(* A sum of numbers is the size of a set: of the cells under the steps.    *)
Cells(w, S) == {c \in S \X Nat : c[2] \in 1 .. w[c[1]]}

Pick(s) == CHOOSE x \in s : TRUE

IsSum(iter, w, S) ==
  iter = [s \in SUBSET S |-> IF s = {} THEN 0 ELSE w[Pick(s)] + iter[s \ {Pick(s)}]]

LEMMA CellsOfOne ==
  ASSUME NEW w, NEW S, NEW x \in S, w[x] \in Nat,
         IsFiniteSet(Cells(w, S \ {x}))
  PROVE  /\ IsFiniteSet(Cells(w, S))
         /\ Cardinality(Cells(w, S)) = w[x] + Cardinality(Cells(w, S \ {x}))
<1> DEFINE row == {x} \X (1 .. w[x])
           rest == Cells(w, S \ {x})
<1>1. IsFiniteSet(row) /\ Cardinality(row) = w[x]
  <2>1. IsFiniteSet({x}) /\ Cardinality({x}) = 1
    BY FS_Singleton
  <2>2. IsFiniteSet(1 .. w[x]) /\ Cardinality(1 .. w[x]) = w[x]
    BY FS_Interval
  <2>3. IsFiniteSet(row) /\ Cardinality(row) = Cardinality({x}) * Cardinality(1 .. w[x])
    BY <2>1, <2>2, FS_Product
  <2> HIDE DEF row
  <2> QED BY <2>1, <2>2, <2>3
<1>2. Cells(w, S) = row \cup rest
  BY DEF Cells
<1>3. row \cap rest = {}
  BY DEF Cells
<1> HIDE DEF row, rest
<1>4. IsFiniteSet(rest)
  BY DEF rest
<1>5. IsFiniteSet(row \cup rest)
      /\ Cardinality(row \cup rest) = Cardinality(row) + Cardinality(rest) - Cardinality({})
  BY <1>1, <1>3, <1>4, FS_Union
<1> QED BY <1>1, <1>2, <1>4, <1>5, FS_EmptySet, FS_CardinalityType DEF rest

LEMMA CellsFinite ==
  ASSUME NEW S, IsFiniteSet(S), NEW w, \A x \in S : w[x] \in Nat
  PROVE  IsFiniteSet(Cells(w, S))
<1> SUFFICES ASSUME ~IsFiniteSet(Cells(w, S)) PROVE FALSE
  OBVIOUS
<1> DEFINE Bad == {n \in Nat : \E s \in SUBSET S : Cardinality(s) = n /\ ~IsFiniteSet(Cells(w, s))}
<1>1. Cardinality(S) \in Bad
  BY FS_CardinalityType
<1>2. Bad \in SUBSET Nat /\ Bad # {}
  BY <1>1
<1>3. PICK n \in Bad : \A m \in Bad : n <= m
  <2> HIDE DEF Bad
  <2> QED BY <1>2, LeastNatural
<1>4. PICK s \in SUBSET S : Cardinality(s) = n /\ ~IsFiniteSet(Cells(w, s))
  OBVIOUS
<1>5. IsFiniteSet(s)
  BY <1>4, FS_Subset
<1>6. s # {}
  <2>1. Cells(w, {}) = {}
    BY DEF Cells
  <2> QED BY <1>4, <2>1, FS_EmptySet
<1>7. PICK x \in s : TRUE
  BY <1>6
<1>8. Cardinality(s \ {x}) = n - 1 /\ n - 1 \in Nat
  <2>1. IsFiniteSet(s \ {x}) /\ Cardinality(s \ {x}) = Cardinality(s) - 1
    BY <1>5, FS_RemoveElement
  <2>2. Cardinality(s \ {x}) \in Nat
    BY <2>1, FS_CardinalityType
  <2> QED BY <1>4, <2>1, <2>2
<1>9. IsFiniteSet(Cells(w, s \ {x}))
  BY <1>3, <1>8
<1> QED BY <1>4, <1>7, <1>9, CellsOfOne

LEMMA SumIsCells ==
  ASSUME NEW S, IsFiniteSet(S), NEW w, \A x \in S : w[x] \in Nat,
         NEW iter, IsSum(iter, w, S)
  PROVE  iter[S] = Cardinality(Cells(w, S))
<1> SUFFICES ASSUME iter[S] # Cardinality(Cells(w, S)) PROVE FALSE
  OBVIOUS
<1> DEFINE Bad == {n \in Nat : \E s \in SUBSET S :
                      Cardinality(s) = n /\ iter[s] # Cardinality(Cells(w, s))}
<1>1. Cardinality(S) \in Bad
  BY FS_CardinalityType
<1>2. Bad \in SUBSET Nat /\ Bad # {}
  BY <1>1
<1>3. PICK n \in Bad : \A m \in Bad : n <= m
  <2> HIDE DEF Bad
  <2> QED BY <1>2, LeastNatural
<1>4. PICK s \in SUBSET S : Cardinality(s) = n /\ iter[s] # Cardinality(Cells(w, s))
  OBVIOUS
<1>5. IsFiniteSet(s)
  BY <1>4, FS_Subset
<1>6. iter[s] = IF s = {} THEN 0 ELSE w[Pick(s)] + iter[s \ {Pick(s)}]
  BY DEF IsSum
<1>7. s # {}
  <2>1. Cells(w, {}) = {}
    BY DEF Cells
  <2> QED BY <1>4, <1>6, <2>1, FS_EmptySet
<1> DEFINE x == Pick(s)
<1>8. x \in s
  BY <1>7 DEF Pick
<1> HIDE DEF x
<1>9. Cardinality(s \ {x}) = n - 1 /\ n - 1 \in Nat
  <2>1. IsFiniteSet(s \ {x}) /\ Cardinality(s \ {x}) = Cardinality(s) - 1
    BY <1>5, <1>8, FS_RemoveElement
  <2>2. Cardinality(s \ {x}) \in Nat
    BY <2>1, FS_CardinalityType
  <2> QED BY <1>4, <2>1, <2>2
<1>10. iter[s \ {x}] = Cardinality(Cells(w, s \ {x}))
  BY <1>3, <1>9
<1>11. IsFiniteSet(Cells(w, s \ {x}))
  <2>1. IsFiniteSet(s \ {x})
    BY <1>5, FS_RemoveElement
  <2> QED BY <2>1, CellsFinite
<1>12. Cardinality(Cells(w, s)) = w[x] + Cardinality(Cells(w, s \ {x}))
  <2>1. w[x] \in Nat
    BY <1>8
  <2> QED BY <1>8, <1>11, <2>1, CellsOfOne
<1> QED BY <1>4, <1>6, <1>7, <1>10, <1>12 DEF x

LEMMA SumExists ==
  ASSUME NEW S, IsFiniteSet(S), NEW w, \A x \in S : w[x] \in Nat
  PROVE  \E iter : IsSum(iter, w, S)
<1> DEFINE iter == [s \in SUBSET S |-> Cardinality(Cells(w, s))]
<1>1. ASSUME NEW s \in SUBSET S
      PROVE  iter[s] = IF s = {} THEN 0 ELSE w[Pick(s)] + iter[s \ {Pick(s)}]
  <2>1. IsFiniteSet(s)
    BY FS_Subset
  <2>2. CASE s = {}
    <3>1. Cells(w, {}) = {}
      BY DEF Cells
    <3> QED BY <2>2, <3>1, FS_EmptySet
  <2>3. CASE s # {}
    <3> DEFINE x == Pick(s)
    <3>1. x \in s
      BY <2>3 DEF Pick
    <3> HIDE DEF x
    <3>2. IsFiniteSet(Cells(w, s \ {x}))
      <4>1. IsFiniteSet(s \ {x})
        BY <2>1, FS_RemoveElement
      <4> QED BY <4>1, CellsFinite
    <3>3. Cardinality(Cells(w, s)) = w[x] + Cardinality(Cells(w, s \ {x}))
      BY <3>1, <3>2, CellsOfOne
    <3> QED BY <2>3, <3>3 DEF x
  <2> QED BY <2>2, <2>3
<1>2. IsSum(iter, w, S)
  <2>1. iter = [s \in SUBSET S |-> iter[s]]
    OBVIOUS
  <2> HIDE DEF iter
  <2> QED BY <1>1, <2>1 DEF IsSum
<1> QED BY <1>2

Positive(w, S) == {x \in S : w[x] > 0}

(* A sum that is moved by d, and grows.                                    *)
LEMMA CellsInject ==
  ASSUME NEW S, NEW T, S \subseteq Int, IsFiniteSet(T), NEW w, NEW v, NEW d \in Int,
         \A x \in S : w[x] \in Nat, \A x \in T : v[x] \in Nat,
         \A x \in S : w[x] > 0 => x + d \in T /\ w[x] <= v[x + d]
  PROVE  /\ Cardinality(Cells(w, S)) <= Cardinality(Cells(v, T))
         /\ Cardinality(Positive(w, S)) <= Cardinality(Positive(v, T))
<1>1. Cardinality(Cells(w, S)) <= Cardinality(Cells(v, T))
  <2> DEFINE f == [c \in Cells(w, S) |-> <<c[1] + d, c[2]>>]
  <2>1. ASSUME NEW c \in Cells(w, S)
        PROVE  <<c[1] + d, c[2]>> \in Cells(v, T)
    <3> DEFINE x == c[1]
               h == c[2]
    <3>1. x \in S /\ h \in Nat /\ h \in 1 .. w[x]
      BY DEF Cells
    <3> HIDE DEF x, h
    <3>2. w[x] \in Nat /\ w[x] > 0
      <4>1. w[x] \in Nat
        BY <3>1
      <4> QED BY <3>1, <4>1
    <3>3. x + d \in T /\ w[x] <= v[x + d]
      BY <3>1, <3>2
    <3>4. v[x + d] \in Nat
      BY <3>3
    <3>5. h \in 1 .. v[x + d]
      <4> DEFINE m == w[x]
                 n == v[x + d]
      <4>1. m \in Nat /\ n \in Nat /\ m <= n /\ h \in 1 .. m
        BY <3>1, <3>2, <3>3, <3>4
      <4> HIDE DEF m, n
      <4>2. h \in 1 .. n
        BY <4>1
      <4> QED BY <4>2 DEF n
    <3>6. <<x + d, h>> \in Cells(v, T)
      BY <3>1, <3>3, <3>5 DEF Cells
    <3> QED BY <3>6 DEF x, h
  <2>2. ASSUME NEW a \in Cells(w, S), NEW b \in Cells(w, S), f[a] = f[b]
        PROVE  a = b
    <3>1. a[1] + d = b[1] + d /\ a[2] = b[2]
      BY <2>2
    <3>2. a[1] \in S /\ b[1] \in S /\ a = <<a[1], a[2]>> /\ b = <<b[1], b[2]>>
      BY DEF Cells
    <3>3. \A x, y \in S : x + d = y + d => x = y
      OBVIOUS
    <3>4. a[1] = b[1]
      BY <3>1, <3>2, <3>3
    <3> QED BY <3>1, <3>2, <3>4
  <2>3. f \in [Cells(w, S) -> Cells(v, T)]
    BY <2>1
  <2> HIDE DEF f
  <2>4. f \in Injection(Cells(w, S), Cells(v, T))
    BY <2>2, <2>3 DEF Injection, IsInjective
  <2>5. IsFiniteSet(Cells(v, T))
    BY CellsFinite
  <2> QED BY <2>4, <2>5, FS_Injection
<1>2. Cardinality(Positive(w, S)) <= Cardinality(Positive(v, T))
  <2> DEFINE A == {x \in S : w[x] > 0}
             B == {x \in T : v[x] > 0}
             f == [x \in A |-> x + d]
  <2>1. ASSUME NEW x \in A PROVE x + d \in B
    <3>1. w[x] \in Nat /\ w[x] > 0 /\ x + d \in T /\ w[x] <= v[x + d]
      OBVIOUS
    <3>2. v[x + d] \in Nat
      BY <3>1
    <3> QED BY <3>1, <3>2
  <2>2. f \in [A -> B]
    BY <2>1
  <2>3. \A x, y \in A : f[x] = f[y] => x = y
    OBVIOUS
  <2>4. IsFiniteSet(B)
    BY FS_Subset
  <2> HIDE DEF f, A, B
  <2>5. f \in Injection(A, B)
    BY <2>2, <2>3 DEF Injection, IsInjective
  <2>6. Cardinality(A) <= Cardinality(B)
    BY <2>4, <2>5, FS_Injection
  <2> QED BY <2>6 DEF A, B, Positive
<1> QED BY <1>1, <1>2

-----------------------------------------------------------------------------
(* The totals of the report.                                               *)
LossesNow == [b \in 1 .. Boots |-> LossesOf(b)]

EpisodesRead == [i \in 1 .. Len(report.boots) |-> report.boots[i].loss_episodes]

LEMMA LoggedTotal ==
  ASSUME NEW S, S \subseteq DOMAIN report.logged, IsFiniteSet(S),
         \A b \in S : report.logged[b] \in Nat
  PROVE  MapThenSumSet(LAMBDA b : report.logged[b], S) = Cardinality(Cells(report.logged, S))
<1> DEFINE good(iter) ==
             iter = [s \in SUBSET S |->
                       IF s = {} THEN 0
                       ELSE LET x == CHOOSE x \in s : TRUE
                            IN  report.logged[x] + iter[s \ {x}]]
           it == CHOOSE iter : good(iter)
<1>1. MapThenSumSet(LAMBDA b : report.logged[b], S) = it[S]
  BY DEF MapThenSumSet, MapThenFoldSet
<1>2. PICK iter : IsSum(iter, report.logged, S)
  BY SumExists
<1>3. good(iter)
  BY <1>2 DEF IsSum, Pick
<1>4. good(it)
  <2> HIDE DEF good
  <2> QED BY <1>3
<1>5. IsSum(it, report.logged, S)
  BY <1>4 DEF IsSum, Pick
<1> HIDE DEF it
<1> QED BY <1>1, <1>5, SumIsCells

LEMMA NowTotal ==
  ASSUME NEW S, S \subseteq 1 .. Boots, IsFiniteSet(S), \A b \in S : LossesOf(b) \in Nat
  PROVE  MapThenSumSet(LAMBDA b : LossesOf(b), S) = Cardinality(Cells(LossesNow, S))
<1> DEFINE good(iter) ==
             iter = [s \in SUBSET S |->
                       IF s = {} THEN 0
                       ELSE LET x == CHOOSE x \in s : TRUE
                            IN  LossesOf(x) + iter[s \ {x}]]
           it == CHOOSE iter : good(iter)
<1>1. MapThenSumSet(LAMBDA b : LossesOf(b), S) = it[S]
  BY DEF MapThenSumSet, MapThenFoldSet
<1>2. \A b \in S : LossesNow[b] = LossesOf(b)
  BY DEF LossesNow
<1>3. \A b \in S : LossesNow[b] \in Nat
  BY <1>2
<1>4. PICK iter : IsSum(iter, LossesNow, S)
  BY <1>3, SumExists
<1>5. ASSUME NEW f
      PROVE  good(f) <=> IsSum(f, LossesNow, S)
  <2>1. \A s \in SUBSET S :
          (IF s = {} THEN 0 ELSE LossesOf(Pick(s)) + f[s \ {Pick(s)}])
            = IF s = {} THEN 0 ELSE LossesNow[Pick(s)] + f[s \ {Pick(s)}]
    <3> SUFFICES ASSUME NEW s \in SUBSET S, s # {}
                 PROVE  LossesNow[Pick(s)] = LossesOf(Pick(s))
      OBVIOUS
    <3>1. Pick(s) \in s
      BY DEF Pick
    <3> QED BY <1>2, <3>1
  <2>2. [s \in SUBSET S |-> IF s = {} THEN 0 ELSE LossesOf(Pick(s)) + f[s \ {Pick(s)}]]
          = [s \in SUBSET S |-> IF s = {} THEN 0 ELSE LossesNow[Pick(s)] + f[s \ {Pick(s)}]]
    BY <2>1
  <2> QED BY <2>2 DEF IsSum, Pick
<1>6. good(it)
  <2>1. good(iter)
    BY <1>4, <1>5
  <2> HIDE DEF good
  <2> QED BY <2>1
<1>7. IsSum(it, LossesNow, S)
  BY <1>5, <1>6
<1> HIDE DEF it
<1> QED BY <1>1, <1>3, <1>7, SumIsCells

LEMMA ReadTotal ==
  ASSUME DOMAIN report.boots = 1 .. Len(report.boots), Len(report.boots) \in Nat,
         \A i \in 1 .. Len(report.boots) : report.boots[i].loss_episodes \in Nat
  PROVE  loss_episodes = Cardinality(Cells(EpisodesRead, 1 .. Len(report.boots)))
<1> DEFINE S == DOMAIN report.boots
           good(iter) ==
             iter = [s \in SUBSET S |->
                       IF s = {} THEN 0
                       ELSE LET x == CHOOSE x \in s : TRUE
                            IN  report.boots[x].loss_episodes + iter[s \ {x}]]
           it == CHOOSE iter : good(iter)
<1>1. loss_episodes = it[S]
  BY DEF loss_episodes, MapThenSumSet, MapThenFoldSet
<1>2. \A i \in S : EpisodesRead[i] = report.boots[i].loss_episodes
  BY DEF EpisodesRead
<1>3. IsFiniteSet(S) /\ \A i \in S : EpisodesRead[i] \in Nat
  <2>1. IsFiniteSet(1 .. Len(report.boots))
    BY FS_Interval
  <2> QED BY <1>2, <2>1
<1>4. PICK iter : IsSum(iter, EpisodesRead, S)
  BY <1>3, SumExists
<1>5. ASSUME NEW f
      PROVE  good(f) <=> IsSum(f, EpisodesRead, S)
  <2>1. \A s \in SUBSET S :
          (IF s = {} THEN 0 ELSE report.boots[Pick(s)].loss_episodes + f[s \ {Pick(s)}])
            = IF s = {} THEN 0 ELSE EpisodesRead[Pick(s)] + f[s \ {Pick(s)}]
    <3> SUFFICES ASSUME NEW s \in SUBSET S, s # {}
                 PROVE  EpisodesRead[Pick(s)] = report.boots[Pick(s)].loss_episodes
      OBVIOUS
    <3>1. Pick(s) \in s
      BY DEF Pick
    <3> QED BY <1>2, <3>1
  <2>2. [s \in SUBSET S |->
           IF s = {} THEN 0 ELSE report.boots[Pick(s)].loss_episodes + f[s \ {Pick(s)}]]
          = [s \in SUBSET S |->
               IF s = {} THEN 0 ELSE EpisodesRead[Pick(s)] + f[s \ {Pick(s)}]]
    BY <2>1
  <2> QED BY <2>2 DEF IsSum, Pick
<1>6. good(it)
  <2>1. good(iter)
    BY <1>4, <1>5
  <2> HIDE DEF good
  <2> QED BY <2>1
<1>7. IsSum(it, EpisodesRead, S)
  BY <1>5, <1>6
<1> HIDE DEF it, good
<1>8. it[S] = Cardinality(Cells(EpisodesRead, S))
  BY <1>3, <1>7, SumIsCells
<1> QED BY <1>1, <1>8

(* The rows that were read are the known boots, in the order of the list.  *)
LEMMA RowsAreKnown ==
  ASSUME Base, Counted, Retained, Reading, report.at = "done", report.available
  PROVE  /\ DOMAIN report.boots = 1 .. Len(report.boots) /\ Len(report.boots) \in Nat
         /\ First \in Nat
         /\ Known \subseteq 1 .. Boots /\ IsFiniteSet(Known)
         /\ Whole \subseteq Known /\ IsFiniteSet(Whole)
         /\ \A b \in 1 .. Boots : report.logged[b] \in Nat /\ LossesOf(b) \in Nat
         /\ \A b \in Whole : b - First \in 1 .. Len(report.boots)
                             /\ report.logged[b] <= EpisodesRead[b - First]
         /\ \A i \in 1 .. Len(report.boots) :
              /\ EpisodesRead[i] \in Nat
              /\ EpisodesRead[i] = report.boots[i].loss_episodes
              /\ EpisodesRead[i] > 0 => /\ i + First \in Known
                                        /\ EpisodesRead[i] <= LossesNow[i + First]
<1> DEFINE n == Len(report.boots)
<1>1. /\ report.boots \in Seq(Entries) /\ n \in Nat /\ First \in Nat
      /\ DOMAIN report.boots = 1 .. n
      /\ DOMAIN report.logged = 1 .. Boots /\ Boots \in Nat
      /\ \A b \in 1 .. Boots : report.logged[b] \in 0 .. LossesOf(b) /\ LossesOf(b) \in Nat
      /\ \A i \in 1 .. n : report.boots[i].boot = First + i
      /\ \A i \in 1 .. n, b \in 1 .. Boots :
           report.boots[i].boot = b =>
             Fits(report.boots[i], report.logged[b], LossesOf(b))
  BY BootNumbers, LenProperties DEF Reading
<1>2. First + n <= Boots
  <2>1. Len(report.todo) \in Nat
    BY LenProperties DEF Reading
  <2>2. First = Boots - n - Len(report.todo)
    BY DEF First
  <2> QED BY <1>1, <2>1, <2>2
<1>3. Known \subseteq 1 .. Boots
  BY <1>1 DEF Known
<1>4. IsFiniteSet(Known) /\ Whole \subseteq Known /\ IsFiniteSet(Whole)
  <2>1. IsFiniteSet(1 .. Boots)
    BY <1>1, FS_Interval
  <2>2. Whole \subseteq Known
    BY DEF Whole
  <2> QED BY <1>3, <2>1, <2>2, FS_Subset
<1>5. \A b \in 1 .. Boots : report.logged[b] \in Nat /\ LossesOf(b) \in Nat
  BY <1>1
<1>6. \A i \in 1 .. n : EpisodesRead[i] = report.boots[i].loss_episodes
  BY DEF EpisodesRead
<1> HIDE DEF n
<1>7. ASSUME NEW b \in Whole
      PROVE  b - First \in 1 .. n /\ report.logged[b] <= EpisodesRead[b - First]
  <2>1. PICK i \in 1 .. n : /\ report.boots[i].boot = b /\ report.boots[i].available
                            /\ report.boots[i].whole
    BY <1>1 DEF Known, Whole
  <2>2. b = First + i
    BY <1>1, <2>1
  <2>3. b - First = i
    BY <1>1, <2>2
  <2>4. b \in 1 .. Boots
    BY <1>3, <1>4
  <2>5. report.boots[i].loss_episodes \in report.logged[b] .. LossesOf(b)
    BY <1>1, <2>1, <2>4 DEF Fits
  <2>6. report.logged[b] <= report.boots[i].loss_episodes
    BY <1>5, <2>4, <2>5
  <2> QED BY <1>6, <2>3, <2>6
<1>8. ASSUME NEW i \in 1 .. n
      PROVE  /\ EpisodesRead[i] \in Nat
             /\ EpisodesRead[i] > 0 => /\ i + First \in Known
                                       /\ EpisodesRead[i] <= LossesNow[i + First]
  <2> DEFINE b == i + First
             e == report.boots[i].loss_episodes
  <2>1. b \in 1 .. Boots /\ report.boots[i].boot = b
    <3>1. n \in Nat /\ First \in Nat /\ Boots \in Nat /\ report.boots[i].boot = First + i
      BY <1>1
    <3> QED BY <1>2, <3>1
  <2>2. LossesNow[b] = LossesOf(b)
    BY <2>1 DEF LossesNow
  <2> HIDE DEF b
  <2>3. e \in IF report.boots[i].available
              THEN (IF report.boots[i].whole THEN report.logged[b] ELSE 0) .. LossesOf(b)
              ELSE {0}
    BY <1>1, <2>1 DEF Fits
  <2>4. report.logged[b] \in Nat /\ LossesOf(b) \in Nat
    BY <1>5, <2>1
  <2> HIDE DEF e
  <2>5. e \in Nat /\ (e > 0 => report.boots[i].available /\ e <= LossesOf(b))
    BY <2>3, <2>4
  <2>6. report.boots[i].available => b \in Known
    BY <1>1, <2>1 DEF Known
  <2>7. EpisodesRead[i] = e
    BY <1>6 DEF e
  <2> QED BY <2>2, <2>5, <2>6, <2>7 DEF b
<1> QED BY <1>1, <1>3, <1>4, <1>5, <1>6, <1>7, <1>8 DEF n

LEMMA LossesCounted == AllInv => LossesAreCounted
<1> SUFFICES ASSUME AllInv, report.at = "done", report.available
             PROVE  LossesAreCounted
  BY DEF LossesAreCounted
<1> DEFINE n == Len(report.boots)
           rows == 1 .. n
<1>1. /\ DOMAIN report.boots = rows /\ n \in Nat /\ First \in Nat
      /\ Known \subseteq 1 .. Boots /\ IsFiniteSet(Known)
      /\ Whole \subseteq Known /\ IsFiniteSet(Whole)
      /\ \A b \in 1 .. Boots : report.logged[b] \in Nat /\ LossesOf(b) \in Nat
      /\ \A b \in Whole : b - First \in rows /\ report.logged[b] <= EpisodesRead[b - First]
      /\ \A i \in rows :
           /\ EpisodesRead[i] \in Nat
           /\ EpisodesRead[i] = report.boots[i].loss_episodes
           /\ EpisodesRead[i] > 0 => /\ i + First \in Known
                                     /\ EpisodesRead[i] <= LossesNow[i + First]
  BY RowsAreKnown DEF AllInv, IInv
<1>2. IsFiniteSet(rows) /\ rows \subseteq Int
  BY <1>1, FS_Interval
<1>3. Known \subseteq Int /\ Whole \subseteq Int
  BY <1>1
<1>4. \A b \in Known : /\ report.logged[b] \in Nat /\ LossesOf(b) \in Nat
                       /\ LossesNow[b] = LossesOf(b)
  BY <1>1 DEF LossesNow
<1> HIDE DEF rows
<1>5. \A i \in rows : EpisodesRead[i] \in Nat
  BY <1>1
<1>6. loss_episodes = Cardinality(Cells(EpisodesRead, rows))
  <2>1. \A i \in 1 .. Len(report.boots) : report.boots[i].loss_episodes \in Nat
    BY <1>1 DEF rows
  <2> QED BY <1>1, <2>1, ReadTotal DEF rows
<1>7. boots_with_losses = Cardinality(Positive(EpisodesRead, rows))
  <2>1. {i \in rows : report.boots[i].loss_episodes > 0} = Positive(EpisodesRead, rows)
    BY <1>1 DEF Positive
  <2> QED BY <1>1, <2>1 DEF boots_with_losses, Quantify
<1>8. MapThenSumSet(LAMBDA b : report.logged[b], Whole) = Cardinality(Cells(report.logged, Whole))
  <2>1. Whole \subseteq DOMAIN report.logged
    BY <1>1 DEF Known
  <2> QED BY <1>1, <1>4, <2>1, LoggedTotal
<1>9. MapThenSumSet(LAMBDA b : LossesOf(b), Known) = Cardinality(Cells(LossesNow, Known))
  BY <1>1, <1>4, NowTotal
<1>10. /\ {b \in Known : LossesOf(b) > 0} = Positive(LossesNow, Known)
       /\ {b \in Whole : report.logged[b] > 0} = Positive(report.logged, Whole)
  BY <1>4 DEF Positive
<1>11. /\ Cardinality(Cells(report.logged, Whole)) <= Cardinality(Cells(EpisodesRead, rows))
       /\ Cardinality(Positive(report.logged, Whole))
            <= Cardinality(Positive(EpisodesRead, rows))
  <2> DEFINE d == 0 - First
  <2>1. d \in Int
    BY <1>1
  <2>2. \A b \in Whole : b + d \in rows /\ report.logged[b] <= EpisodesRead[b + d]
    <3> SUFFICES ASSUME NEW b \in Whole
                 PROVE  b + d \in rows /\ report.logged[b] <= EpisodesRead[b + d]
      OBVIOUS
    <3>1. b + d = b - First
      BY <1>1, <1>3
    <3> QED BY <1>1, <3>1
  <2>3. IsFiniteSet(Whole) /\ \A b \in Whole : report.logged[b] \in Nat
    BY <1>1, <1>4
  <2> HIDE DEF d, rows
  <2> QED BY <1>2, <1>3, <1>5, <2>1, <2>2, <2>3, CellsInject
<1>12. /\ Cardinality(Cells(EpisodesRead, rows)) <= Cardinality(Cells(LossesNow, Known))
       /\ Cardinality(Positive(EpisodesRead, rows))
            <= Cardinality(Positive(LossesNow, Known))
  <2>1. \A b \in Known : LossesNow[b] \in Nat
    BY <1>4
  <2>2. First \in Int /\ IsFiniteSet(Known)
    BY <1>1
  <2>3. \A i \in rows : EpisodesRead[i] > 0 =>
          i + First \in Known /\ EpisodesRead[i] <= LossesNow[i + First]
    BY <1>1
  <2> QED BY <1>2, <1>5, <2>1, <2>2, <2>3, CellsInject
<1> QED BY <1>6, <1>7, <1>8, <1>9, <1>10, <1>11, <1>12 DEF LossesAreCounted, Quantify

(* While no drive comes after the Mini SSD was pulled, the report counts   *)
(* every loss logged before it was asked for in a boot it has read in      *)
(* full, none twice and none that has not happened, for any number of      *)
(* boots and losses, and however much is logged or dropped in between.     *)
THEOREM ReportsCountLosses == NoHotplug => (HistorySpec => []LossesAreCounted)
<1>1. AllInv => LossesAreCounted
  BY LossesCounted
<1> QED BY <1>1, AllInvHolds, PTL

=============================================================================
