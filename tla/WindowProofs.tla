---------------------------- MODULE WindowProofs ----------------------------
(* The safety invariants of the window, for any pages, rows and            *)
(* capabilities, any number of gestures and whatever the owners do.        *)
EXTENDS Window, FiniteSetTheorems, TLAPS

(* What an owner may ever hold.                                            *)
Held == UNION {Values[c] \cup Positions[c] \cup Drift[c] : c \in Capabilities}

Typed ==
  /\ owner \in [Capabilities -> Held]
  /\ \A c \in Capabilities : owner[c] \in Values[c] \cup Positions[c] \cup Drift[c]
  /\ DOMAIN row = Rows /\ \A r \in Rows : DOMAIN row[r] = {"observed", "control"}
  /\ DOMAIN timer = Rows /\ DOMAIN touched = Rows
  /\ DOMAIN loop = {"at", "row", "value", "shot"}
  /\ loop.at \in {"free", "setting", "opening", "reading"}
  /\ loop.shot \in Seq(Held) /\ Len(loop.shot) <= Len(Order)
  /\ gestures \in 0 .. MaxGestures /\ idles \in Nat /\ stale \in BOOLEAN

(* Each gesture is paid for: at most one write, due or in progress, or the *)
(* one re-rendering that follows it.                                       *)
Due == {r \in Rows : timer[r] # None}
Writes == IF loop.at = "setting" THEN 1 ELSE 0
Budget == idles + Writes + Cardinality(Due) <= gestures

(* A slider's timeout is armed with the position its control is still at,  *)
(* where the user put it.                                                  *)
Debounce ==
  \A r \in Rows : timer[r] # None =>
    /\ r \in Sliders \cap Wired
    /\ timer[r] \in Positions[Shows[r]]
    /\ touched[r] = timer[r] /\ row[r].control = timer[r]

Writing ==
  loop.at = "setting" =>
    /\ loop.row \in Wired
    /\ loop.value \in Positions[Shows[loop.row]]
    /\ touched[loop.row] = loop.value

(* What a snapshot has read so far is what the owners hold, but for what   *)
(* others have changed since it was read.                                  *)
Shot ==
  loop.at \in {"opening", "reading"} =>
    \A i \in 1 .. Len(loop.shot) :
      Order[i] \notin outside => loop.shot[i] = owner[Order[i]]

IInv == Typed /\ Budget /\ Debounce /\ Writing /\ Shot /\ WindowAgrees

-----------------------------------------------------------------------------
(* The timeouts that are due, when at most one more is armed, and when one *)
(* has fired.                                                              *)
LEMMA DueCount ==
  /\ Cardinality(Due) \in Nat
  /\ \A r \in Rows : Due' \subseteq Due \cup {r}
        => Cardinality(Due)' \in Nat /\ Cardinality(Due)' <= Cardinality(Due) + 1
  /\ \A r \in Due : Due' = Due \ {r}
        => Cardinality(Due)' \in Nat /\ Cardinality(Due)' = Cardinality(Due) - 1
  /\ Due' = {} => Cardinality(Due)' = 0
<1> USE WindowAssumption
<1>1. IsFiniteSet(Due)
  BY FS_Subset DEF Due
<1>2. Cardinality(Due) \in Nat
  BY <1>1, FS_CardinalityType
<1>3. ASSUME NEW r \in Rows, Due' \subseteq Due \cup {r}
      PROVE  Cardinality(Due)' \in Nat /\ Cardinality(Due)' <= Cardinality(Due) + 1
  <2>1. /\ IsFiniteSet(Due \cup {r})
        /\ Cardinality(Due \cup {r}) \in {Cardinality(Due), Cardinality(Due) + 1}
    BY <1>1, FS_AddElement
  <2>2. IsFiniteSet(Due') /\ Cardinality(Due') <= Cardinality(Due \cup {r})
    BY <1>3, <2>1, FS_Subset
  <2>3. Cardinality(Due') \in Nat
    BY <2>2, FS_CardinalityType
  <2> QED BY <1>2, <2>1, <2>2, <2>3
<1>4. ASSUME NEW r \in Due, Due' = Due \ {r}
      PROVE  Cardinality(Due)' \in Nat /\ Cardinality(Due)' = Cardinality(Due) - 1
  <2>1. IsFiniteSet(Due \ {r}) /\ Cardinality(Due \ {r}) = Cardinality(Due) - 1
    BY <1>1, FS_RemoveElement
  <2>2. Cardinality(Due \ {r}) \in Nat
    BY <2>1, FS_CardinalityType
  <2> QED BY <1>4, <2>1, <2>2
<1>5. Due' = {} => Cardinality(Due)' = 0
  BY FS_EmptySet
<1> QED BY <1>2, <1>3, <1>4, <1>5

LEMMA InitIInv == Init => IInv
<1> SUFFICES ASSUME Init PROVE IInv
  OBVIOUS
<1> USE WindowAssumption
<1>1. /\ loop.at = "opening" /\ loop.shot = <<>>
      /\ DOMAIN loop = {"at", "row", "value", "shot"}
  BY DEF Init, Free, Reading
<1>2. Typed
  <2>1. /\ DOMAIN owner = Capabilities
        /\ \A c \in Capabilities : owner[c] \in Values[c]
        /\ owner = [c \in Capabilities |-> owner[c]]
    BY DEF Init
  <2>2. owner \in [Capabilities -> Held]
    BY <2>1 DEF Held
  <2>3. <<>> \in Seq(Held) /\ Len(<<>>) <= Len(Order)
    OBVIOUS
  <2>4. /\ DOMAIN row = Rows /\ \A r \in Rows : DOMAIN row[r] = {"observed", "control"}
        /\ DOMAIN timer = Rows /\ DOMAIN touched = Rows
        /\ gestures \in 0 .. MaxGestures /\ idles \in Nat /\ stale \in BOOLEAN
    <3>1. row = [r \in Rows |-> [observed |-> Gone, control |-> None]]
      BY DEF Init
    <3>2. /\ timer = [r \in Rows |-> None] /\ touched = [r \in Rows |-> None]
          /\ gestures = 0 /\ idles = 0 /\ stale = FALSE
      BY DEF Init
    <3>3. stale \in BOOLEAN
      BY <3>2
    <3>4. gestures \in 0 .. MaxGestures /\ idles \in Nat
      BY <3>2
    <3>5. DOMAIN row = Rows /\ \A r \in Rows : DOMAIN row[r] = {"observed", "control"}
      BY <3>1
    <3> QED BY <3>2, <3>3, <3>4, <3>5
  <2> QED BY <1>1, <2>1, <2>2, <2>3, <2>4 DEF Typed
<1>3. Budget
  <2>1. Due = {}
    BY DEF Init, Due
  <2> QED BY <1>1, <2>1, FS_EmptySet DEF Init, Budget, Writes
<1>4. Debounce /\ Writing /\ Shot /\ WindowAgrees
  BY <1>1 DEF Init, Debounce, Writing, Shot, WindowAgrees
<1> QED BY <1>2, <1>3, <1>4 DEF IInv

-----------------------------------------------------------------------------
(* What every gesture does, and what a value that is forwarded, or not,    *)
(* does to the main loop.                                                  *)

LEMMA EmitSetLoop ==
  ASSUME Typed, NEW r \in Rows, NEW value, EmitSet(r, value)
  PROVE  /\ DOMAIN loop' = {"at", "row", "value", "shot"}
         /\ loop'.shot = IF loop' = loop THEN loop.shot ELSE <<>>
         /\ \/ loop' = loop /\ value = row[r].observed
            \/ loop'.at = "setting" /\ loop'.row = r /\ loop'.value = value
BY DEF Typed, EmitSet, Free

LEMMA GestureMoves ==
  ASSUME Typed, NEW r \in Rows, NEW p, Gesture(r, p)
  PROVE  /\ loop.at = "free" /\ gestures' = gestures + 1 /\ gestures' \in 0 .. MaxGestures
         /\ UNCHANGED <<owner, idles, outside, stale>>
         /\ DOMAIN row' = Rows /\ \A q \in Rows : DOMAIN row'[q] = {"observed", "control"}
         /\ \A q \in Rows : row'[q].observed = row[q].observed
         /\ \A q \in Rows : row'[q].control = IF q = r THEN p ELSE row[q].control
         /\ DOMAIN touched' = Rows
         /\ \A q \in Rows : touched'[q] = IF q = r THEN p ELSE touched[q]
<1> USE WindowAssumption
<1> QED BY DEF Typed, Gesture, hidden

LEMMA DragIInv ==
  ASSUME IInv, NEW r \in Rows, NEW p \in Positions[Shows[r]], Drag(r, p)
  PROVE  IInv'
<1> USE WindowAssumption
<1>1. /\ r \in Sliders /\ UNCHANGED loop
      /\ timer' = IF r \in Wired THEN [timer EXCEPT ![r] = p] ELSE timer
      /\ Gesture(r, p)
  BY DEF Drag
<1>2. /\ loop.at = "free" /\ gestures' = gestures + 1 /\ gestures' \in 0 .. MaxGestures
      /\ UNCHANGED <<owner, idles, outside, stale>>
      /\ DOMAIN row' = Rows /\ \A q \in Rows : DOMAIN row'[q] = {"observed", "control"}
      /\ \A q \in Rows : row'[q].observed = row[q].observed
      /\ \A q \in Rows : row'[q].control = IF q = r THEN p ELSE row[q].control
      /\ DOMAIN touched' = Rows
      /\ \A q \in Rows : touched'[q] = IF q = r THEN p ELSE touched[q]
  BY <1>1, GestureMoves DEF IInv
<1>3. DOMAIN timer' = Rows
      /\ \A q \in Rows : timer'[q] = IF q = r /\ r \in Wired THEN p ELSE timer[q]
  BY <1>1 DEF IInv, Typed
<1>4. p # None /\ Clamped[p] = p
  OBVIOUS
<1>5. Typed'
  BY <1>1, <1>2, <1>3 DEF IInv, Typed
<1>6. Budget'
  <2>1. Due' \subseteq Due \cup {r}
    BY <1>3 DEF Due
  <2>2. /\ Cardinality(Due) \in Nat /\ Cardinality(Due)' \in Nat
        /\ Cardinality(Due)' <= Cardinality(Due) + 1
    BY <2>1, DueCount
  <2> HIDE DEF Due
  <2> QED BY <1>1, <1>2, <2>2 DEF IInv, Typed, Budget, Writes
<1>7. Debounce'
  BY <1>1, <1>2, <1>3 DEF IInv, Debounce
<1>8. Writing' /\ Shot'
  BY <1>1, <1>2 DEF Writing, Shot
<1>9. WindowAgrees'
  BY <1>1, <1>2, <1>3, <1>4 DEF IInv, WindowAgrees
<1> QED BY <1>5, <1>6, <1>7, <1>8, <1>9 DEF IInv

LEMMA ChooseIInv ==
  ASSUME IInv, NEW r \in Rows, NEW p \in Positions[Shows[r]], Choose(r, p)
  PROVE  IInv'
<1> USE WindowAssumption
<1>1. /\ r \notin Sliders /\ UNCHANGED timer /\ Gesture(r, p)
      /\ r \in Wired => EmitSet(r, p)
      /\ r \notin Wired => UNCHANGED loop
  BY DEF Choose
<1>2. /\ loop.at = "free" /\ gestures' = gestures + 1 /\ gestures' \in 0 .. MaxGestures
      /\ UNCHANGED <<owner, idles, outside, stale>>
      /\ DOMAIN row' = Rows /\ \A q \in Rows : DOMAIN row'[q] = {"observed", "control"}
      /\ \A q \in Rows : row'[q].observed = row[q].observed
      /\ \A q \in Rows : row'[q].control = IF q = r THEN p ELSE row[q].control
      /\ DOMAIN touched' = Rows
      /\ \A q \in Rows : touched'[q] = IF q = r THEN p ELSE touched[q]
  BY <1>1, GestureMoves DEF IInv
<1>3. /\ DOMAIN loop' = {"at", "row", "value", "shot"}
      /\ loop'.shot = IF loop' = loop THEN loop.shot ELSE <<>>
      /\ \/ loop' = loop /\ (r \in Wired => p = row[r].observed)
         \/ r \in Wired /\ loop'.at = "setting" /\ loop'.row = r /\ loop'.value = p
  <2>1. CASE r \in Wired
    BY <1>1, <2>1, EmitSetLoop DEF IInv
  <2>2. CASE r \notin Wired
    BY <1>1, <2>2 DEF IInv, Typed
  <2> QED BY <2>1, <2>2
<1>4. p # None /\ Clamped[p] = p
  OBVIOUS
<1>5. Typed'
  <2>1. loop'.shot \in Seq(Held) /\ Len(loop'.shot) <= Len(Order)
    BY <1>3 DEF IInv, Typed
  <2> QED BY <1>1, <1>2, <1>3, <2>1 DEF IInv, Typed
<1>6. Budget'
  <2>1. Due' = Due
    BY <1>1 DEF Due
  <2>2. Cardinality(Due) \in Nat
    BY DueCount
  <2> HIDE DEF Due
  <2> QED BY <1>2, <1>3, <2>1, <2>2 DEF IInv, Typed, Budget, Writes
<1>7. Debounce'
  <2>1. timer[r] = None
    BY <1>1 DEF IInv, Debounce
  <2> QED BY <1>1, <1>2, <2>1 DEF IInv, Debounce
<1>8. Writing' /\ Shot'
  BY <1>2, <1>3 DEF Writing, Shot
<1>9. WindowAgrees'
  BY <1>1, <1>2, <1>3, <1>4 DEF IInv, WindowAgrees
<1> QED BY <1>5, <1>6, <1>7, <1>8, <1>9 DEF IInv
LEMMA PressRefreshIInv == IInv /\ PressRefresh => IInv'
<1> SUFFICES ASSUME IInv, PressRefresh PROVE IInv'
  OBVIOUS
<1> USE WindowAssumption
<1>1. /\ gestures' = gestures + 1 /\ gestures < MaxGestures
      /\ UNCHANGED <<owner, row, timer, idles, touched, outside, stale>>
      /\ loop'.at = "reading" /\ loop'.shot = <<>> /\ loop.at = "free"
      /\ DOMAIN loop' = {"at", "row", "value", "shot"}
  BY DEF PressRefresh, Reading, Free, hidden
<1>2. Typed'
  <2>1. <<>> \in Seq(Held) /\ Len(<<>>) <= Len(Order)
    OBVIOUS
  <2> QED BY <1>1, <2>1 DEF IInv, Typed
<1>3. Budget'
  <2>1. Due' = Due /\ Cardinality(Due) \in Nat
    BY <1>1, DueCount DEF Due
  <2> HIDE DEF Due
  <2> QED BY <1>1, <2>1 DEF IInv, Typed, Budget, Writes
<1>4. Debounce' /\ Writing' /\ Shot' /\ WindowAgrees'
  BY <1>1 DEF IInv, Debounce, Writing, Shot, WindowAgrees
<1> QED BY <1>2, <1>3, <1>4 DEF IInv

-----------------------------------------------------------------------------
(* The main loop.                                                          *)

LEMMA FlushScaleIInv ==
  ASSUME IInv, NEW r \in Rows, FlushScale(r) PROVE IInv'
<1> USE WindowAssumption
<1>1. /\ loop.at = "free" /\ timer[r] # None
      /\ timer' = [timer EXCEPT ![r] = None]
      /\ EmitSet(r, timer[r])
      /\ UNCHANGED <<owner, row, idles, gestures, touched, outside, stale>>
  BY DEF FlushScale, hidden
<1>2. /\ DOMAIN loop' = {"at", "row", "value", "shot"}
      /\ loop'.shot = IF loop' = loop THEN loop.shot ELSE <<>>
      /\ \/ loop' = loop /\ timer[r] = row[r].observed
         \/ loop'.at = "setting" /\ loop'.row = r /\ loop'.value = timer[r]
  BY <1>1, EmitSetLoop DEF IInv
<1>3. DOMAIN timer' = Rows
      /\ \A q \in Rows : timer'[q] = IF q = r THEN None ELSE timer[q]
  BY <1>1 DEF IInv, Typed
<1>4. /\ r \in Sliders \cap Wired /\ timer[r] \in Positions[Shows[r]]
      /\ touched[r] = timer[r] /\ row[r].control = timer[r]
      /\ Clamped[timer[r]] = timer[r]
  BY <1>1 DEF IInv, Debounce
<1>5. Typed'
  <2>1. loop'.shot \in Seq(Held) /\ Len(loop'.shot) <= Len(Order)
    BY <1>2 DEF IInv, Typed
  <2>2. loop'.at \in {"free", "setting", "opening", "reading"}
    BY <1>1, <1>2
  <2> QED BY <1>1, <1>2, <1>3, <2>1, <2>2 DEF IInv, Typed
<1>6. Budget'
  <2>1. r \in Due /\ Due' = Due \ {r}
    BY <1>1, <1>3 DEF Due
  <2>2. /\ Cardinality(Due) \in Nat /\ Cardinality(Due)' \in Nat
        /\ Cardinality(Due)' = Cardinality(Due) - 1
    BY <2>1, DueCount
  <2> HIDE DEF Due
  <2> QED BY <1>1, <1>2, <2>2 DEF IInv, Typed, Budget, Writes
<1>7. Debounce'
  BY <1>1, <1>3 DEF IInv, Debounce
<1>8. Writing' /\ Shot'
  BY <1>1, <1>2, <1>4 DEF Writing, Shot
<1>9. WindowAgrees'
  BY <1>1, <1>2, <1>3, <1>4 DEF IInv, WindowAgrees
<1> QED BY <1>5, <1>6, <1>7, <1>8, <1>9 DEF IInv

(* The value written is one the row's control may be put at.               *)
LEMMA SetReturnsIInv == IInv /\ SetReturns => IInv'
<1> SUFFICES ASSUME IInv, SetReturns PROVE IInv'
  OBVIOUS
<1> USE WindowAssumption
<1> DEFINE set == [owner EXCEPT ![Shows[loop.row]] = loop.value]
<1>1. /\ loop.at = "setting" /\ loop'.at = "free" /\ loop'.shot = <<>>
      /\ DOMAIN loop' = {"at", "row", "value", "shot"}
      /\ owner' \in {owner, set}
      /\ idles' = idles + 1
      /\ UNCHANGED <<row, timer, gestures, touched, outside, stale>>
  BY DEF SetReturns, Free, hidden
<1>2. /\ owner' \in [Capabilities -> Held]
      /\ \A c \in Capabilities : owner'[c] \in Values[c] \cup Positions[c] \cup Drift[c]
  <2>1. /\ loop.row \in Rows /\ Shows[loop.row] \in Capabilities
        /\ loop.value \in Positions[Shows[loop.row]]
    BY <1>1 DEF IInv, Writing
  <2>2. loop.value \in Held
    BY <2>1 DEF Held
  <2> QED BY <1>1, <2>1, <2>2 DEF IInv, Typed
<1>3. Typed'
  <2>1. <<>> \in Seq(Held) /\ Len(<<>>) <= Len(Order)
    OBVIOUS
  <2> QED BY <1>1, <1>2, <2>1 DEF IInv, Typed
<1>4. Budget'
  <2>1. Due' = Due /\ Cardinality(Due) \in Nat
    BY <1>1, DueCount DEF Due
  <2> HIDE DEF Due
  <2> QED BY <1>1, <2>1 DEF IInv, Typed, Budget, Writes
<1>5. Debounce' /\ Writing' /\ Shot'
  BY <1>1 DEF IInv, Debounce, Writing, Shot
<1>6. WindowAgrees'
  BY <1>1 DEF IInv, Typed, WindowAgrees
<1> QED BY <1>3, <1>4, <1>5, <1>6 DEF IInv

LEMMA RefreshIdleIInv == IInv /\ RefreshIdle => IInv'
<1> SUFFICES ASSUME IInv, RefreshIdle PROVE IInv'
  OBVIOUS
<1> USE WindowAssumption
<1>1. /\ loop.at = "free" /\ idles > 0 /\ idles' = idles - 1
      /\ UNCHANGED <<owner, row, timer, gestures, touched, outside, stale>>
      /\ loop'.at = "reading" /\ loop'.shot = <<>>
      /\ DOMAIN loop' = {"at", "row", "value", "shot"}
  BY DEF RefreshIdle, Reading, Free, hidden
<1>2. Typed'
  <2>1. <<>> \in Seq(Held) /\ Len(<<>>) <= Len(Order)
    OBVIOUS
  <2> QED BY <1>1, <2>1 DEF IInv, Typed
<1>3. Budget'
  <2>1. Due' = Due /\ Cardinality(Due) \in Nat
    BY <1>1, DueCount DEF Due
  <2> HIDE DEF Due
  <2> QED BY <1>1, <2>1 DEF IInv, Typed, Budget, Writes
<1>4. Debounce' /\ Writing' /\ Shot' /\ WindowAgrees'
  BY <1>1 DEF IInv, Debounce, Writing, Shot, WindowAgrees
<1> QED BY <1>2, <1>3, <1>4 DEF IInv

(* The capability read is the next one, and it is read once in a snapshot.  *)
LEMMA ReadOwnerIInv == IInv /\ ReadOwner => IInv'
<1> SUFFICES ASSUME IInv, ReadOwner PROVE IInv'
  OBVIOUS
<1> USE WindowAssumption
<1> DEFINE n == Len(loop.shot)
           c == Order[n + 1]
<1>1. /\ loop.at \in {"opening", "reading"} /\ n < Len(Order)
      /\ loop' = [loop EXCEPT !.shot = Append(@, owner[c])]
      /\ outside' = outside \ {c}
      /\ UNCHANGED <<owner, row, timer, idles, gestures, touched, stale>>
  BY DEF ReadOwner, hidden
<1>2. /\ n \in Nat /\ n + 1 \in DOMAIN Order /\ c \in Capabilities
      /\ owner[c] \in Held /\ loop.shot \in Seq(Held)
  BY <1>1 DEF IInv, Typed
<1>3. /\ DOMAIN loop' = {"at", "row", "value", "shot"}
      /\ loop'.at = loop.at /\ loop'.shot = Append(loop.shot, owner[c])
  BY <1>1 DEF IInv, Typed
<1>4. /\ loop'.shot \in Seq(Held) /\ Len(loop'.shot) = n + 1
      /\ \A i \in 1 .. n : loop'.shot[i] = loop.shot[i]
      /\ loop'.shot[n + 1] = owner[c]
  BY <1>2, <1>3
<1>5. Typed'
  <2>1. Len(loop'.shot) <= Len(Order)
    BY <1>1, <1>2, <1>4
  <2> QED BY <1>1, <1>3, <1>4, <2>1 DEF IInv, Typed
<1>6. Budget'
  <2>1. Due' = Due /\ Cardinality(Due) \in Nat
    BY <1>1, DueCount DEF Due
  <2> HIDE DEF Due
  <2> QED BY <1>1, <1>3, <2>1 DEF IInv, Typed, Budget, Writes
<1>7. Shot'
  <2> SUFFICES ASSUME NEW i \in 1 .. Len(loop'.shot), Order[i] \notin outside'
               PROVE  loop'.shot[i] = owner'[Order[i]]
    BY DEF Shot
  <2>1. CASE i = n + 1
    BY <1>1, <1>4, <2>1
  <2>2. CASE i \in 1 .. n
    <3>1. i \in DOMAIN Order /\ i # n + 1
      BY <1>1, <1>2, <2>2
    <3>2. Order[i] # c
      BY <1>2, <3>1
    <3>3. Order[i] \notin outside
      BY <1>1, <3>2
    <3> QED BY <1>1, <1>4, <2>2, <3>3 DEF IInv, Shot
  <2> QED BY <1>2, <1>4, <2>1, <2>2
<1>8. Debounce' /\ Writing' /\ WindowAgrees'
  BY <1>1, <1>3 DEF IInv, Debounce, Writing, WindowAgrees
<1> QED BY <1>5, <1>6, <1>7, <1>8 DEF IInv

LEMMA SnapshotRaisesIInv == IInv /\ SnapshotRaises => IInv'
<1> SUFFICES ASSUME IInv, SnapshotRaises PROVE IInv'
  OBVIOUS
<1> USE WindowAssumption
<1>1. /\ loop.at = "reading" /\ loop'.at = "free" /\ loop'.shot = <<>>
      /\ DOMAIN loop' = {"at", "row", "value", "shot"} /\ stale' = TRUE
      /\ UNCHANGED <<owner, row, timer, idles, gestures, touched, outside>>
  BY DEF SnapshotRaises, Free
<1>2. Typed'
  <2>1. <<>> \in Seq(Held) /\ Len(<<>>) <= Len(Order)
    OBVIOUS
  <2> QED BY <1>1, <2>1 DEF IInv, Typed
<1>3. Budget'
  <2>1. Due' = Due /\ Cardinality(Due) \in Nat
    BY <1>1, DueCount DEF Due
  <2> HIDE DEF Due
  <2> QED BY <1>1, <2>1 DEF IInv, Typed, Budget, Writes
<1>4. Debounce' /\ Writing' /\ Shot' /\ WindowAgrees'
  BY <1>1 DEF IInv, Debounce, Writing, Shot, WindowAgrees
<1> QED BY <1>2, <1>3, <1>4 DEF IInv

(* What every row shows once all owners have been read.                    *)
LEMMA RenderIInv == IInv /\ Render => IInv'
<1> SUFFICES ASSUME IInv, Render PROVE IInv'
  OBVIOUS
<1> USE WindowAssumption
<1> DEFINE seen(r) == loop.shot[Index(Shows[r])]
<1>1. /\ loop.at \in {"opening", "reading"} /\ Len(loop.shot) = Len(Order)
      /\ row' = [r \in Rows |->
                   [observed |-> seen(r),
                    control |-> IF seen(r) = Gone THEN None ELSE Clamped[seen(r)]]]
      /\ timer' = [r \in Rows |-> None] /\ touched' = [r \in Rows |-> None]
      /\ stale' = FALSE /\ loop'.at = "free" /\ loop'.shot = <<>>
      /\ DOMAIN loop' = {"at", "row", "value", "shot"}
      /\ UNCHANGED <<owner, idles, gestures, outside>>
  BY DEF Render, Free
<1>2. ASSUME NEW r \in Rows, Shows[r] \notin outside PROVE seen(r) = owner[Shows[r]]
  <2>1. \E i \in DOMAIN Order : Order[i] = Shows[r]
    BY DEF Capabilities
  <2>2. Index(Shows[r]) \in DOMAIN Order /\ Order[Index(Shows[r])] = Shows[r]
    BY <2>1 DEF Index
  <2>3. Index(Shows[r]) \in 1 .. Len(loop.shot)
    BY <1>1, <2>2
  <2> QED BY <1>1, <1>2, <2>2, <2>3 DEF IInv, Shot
<1> HIDE DEF seen
<1>3. /\ DOMAIN row' = Rows /\ \A r \in Rows : DOMAIN row'[r] = {"observed", "control"}
      /\ \A r \in Rows :
           /\ row'[r].observed = seen(r)
           /\ seen(r) # Gone => row'[r].control = Clamped[seen(r)]
  BY <1>1
<1>4. Typed'
  <2>1. <<>> \in Seq(Held) /\ Len(<<>>) <= Len(Order)
    OBVIOUS
  <2> QED BY <1>1, <1>3, <2>1 DEF IInv, Typed
<1>5. Budget'
  <2>1. Due' = {} /\ Cardinality(Due)' = 0 /\ Cardinality(Due) \in Nat
    BY <1>1, DueCount DEF Due
  <2> HIDE DEF Due
  <2> QED BY <1>1, <2>1 DEF IInv, Typed, Budget, Writes
<1>6. Debounce' /\ Writing' /\ Shot'
  BY <1>1 DEF Debounce, Writing, Shot
<1>7. WindowAgrees'
  BY <1>1, <1>2, <1>3 DEF WindowAgrees
<1> QED BY <1>4, <1>5, <1>6, <1>7 DEF IInv

LEMMA DriftsIInv == IInv /\ Drifts => IInv'
<1> SUFFICES ASSUME IInv, Drifts PROVE IInv'
  OBVIOUS
<1> USE WindowAssumption
<1>1. PICK c \in Capabilities : \E value \in Drift[c] \ {owner[c]} :
        /\ owner' = [owner EXCEPT ![c] = value]
        /\ outside' = outside \cup {c}
        /\ UNCHANGED <<row, timer, idles, loop, gestures, touched, skipped, hidden>>
  BY DEF Drifts
<1>2. PICK value \in Drift[c] \ {owner[c]} :
        /\ owner' = [owner EXCEPT ![c] = value]
        /\ outside' = outside \cup {c}
        /\ UNCHANGED <<row, timer, idles, loop, gestures, touched, stale>>
  BY <1>1 DEF hidden
<1>3. /\ owner' \in [Capabilities -> Held]
      /\ \A d \in Capabilities : owner'[d] \in Values[d] \cup Positions[d] \cup Drift[d]
      /\ \A d \in Capabilities \ {c} : owner'[d] = owner[d]
  <2>1. value \in Held
    BY <1>2 DEF Held
  <2> QED BY <1>2, <2>1 DEF IInv, Typed
<1>4. Typed'
  BY <1>2, <1>3 DEF IInv, Typed
<1>5. Budget'
  <2>1. Due' = Due
    BY <1>2 DEF Due
  <2> QED BY <1>2, <2>1 DEF IInv, Budget, Writes
<1>6. Debounce' /\ Writing'
  BY <1>2 DEF IInv, Debounce, Writing
<1>7. Shot'
  <2> SUFFICES ASSUME loop.at \in {"opening", "reading"},
                      NEW i \in 1 .. Len(loop.shot), Order[i] \notin outside'
               PROVE  loop.shot[i] = owner'[Order[i]]
    BY <1>2 DEF Shot
  <2>1. i \in DOMAIN Order /\ Order[i] \in Capabilities \ {c} /\ Order[i] \notin outside
    BY <1>2 DEF IInv, Typed
  <2> QED BY <1>3, <2>1 DEF IInv, Shot
<1>8. WindowAgrees'
  BY <1>2, <1>3 DEF IInv, WindowAgrees
<1> QED BY <1>4, <1>5, <1>6, <1>7, <1>8 DEF IInv

-----------------------------------------------------------------------------
LEMMA NextIInv == IInv /\ [Next]_vars => IInv'
<1> SUFFICES ASSUME IInv, [Next]_vars PROVE IInv'
  OBVIOUS
<1>1. CASE UNCHANGED vars
  <2>1. UNCHANGED <<owner, row, timer, idles, loop, gestures, touched, outside, stale>>
    BY <1>1 DEF vars, hidden
  <2>2. Due' = Due
    BY <2>1 DEF Due
  <2> QED BY <2>1, <2>2 DEF IInv, Typed, Budget, Writes, Debounce, Writing, Shot,
     WindowAgrees
<1>2. ASSUME NEW r \in Rows, NEW p \in Positions[Shows[r]], Drag(r, p) \/ Choose(r, p)
      PROVE  IInv'
  BY <1>2, DragIInv, ChooseIInv
<1>3. ASSUME NEW r \in Rows, FlushScale(r) PROVE IInv'
  BY <1>3, FlushScaleIInv
<1>4. CASE PressRefresh \/ SetReturns \/ RefreshIdle \/ ReadOwner \/ Render
  BY <1>4, PressRefreshIInv, SetReturnsIInv, RefreshIdleIInv, ReadOwnerIInv, RenderIInv
<1>5. CASE SnapshotRaises \/ Drifts
  BY <1>5, SnapshotRaisesIInv, DriftsIInv
<1> QED BY <1>1, <1>2, <1>3, <1>4, <1>5 DEF Next, MainLoop

LEMMA Invariant == Spec => []IInv
BY InitIInv, NextIInv, PTL DEF Spec

(* The window's state has its type; there are never more re-renderings     *)
(* queued than the user has made gestures.                                 *)
THEOREM TypeCorrect == Spec => []TypeOK
<1>1. IInv => TypeOK
  <2> SUFFICES ASSUME IInv PROVE TypeOK
    OBVIOUS
  <2>1. Cardinality(Due) \in Nat
    BY DueCount
  <2> HIDE DEF Due
  <2>2. idles \in 0 .. MaxGestures
    BY <2>1, WindowAssumption DEF IInv, Typed, Budget, Writes
  <2> QED BY <2>2 DEF IInv, Typed, Debounce, Writing, TypeOK
<1> QED BY Invariant, <1>1, PTL

(* Nothing is written but what the user has put a control of a row that is *)
(* still there at.                                                         *)
THEOREM OnlyTheUserWrites == Spec => []WritesAreTheUsers
<1>1. IInv => WritesAreTheUsers
  BY DEF IInv, Writing, WritesAreTheUsers
<1> QED BY Invariant, <1>1, PTL

(* A window at rest shows what the owners hold.                            *)
THEOREM WindowIsTrue == Spec => []WindowAgrees
<1>1. IInv => WindowAgrees
  BY DEF IInv
<1> QED BY Invariant, <1>1, PTL
=============================================================================
