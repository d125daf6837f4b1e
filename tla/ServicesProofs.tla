--------------------------- MODULE ServicesProofs ---------------------------
(***************************************************************************)
(* Safety of opening hours, slots and service images, for every schedule,  *)
(* length, buffer, number of images and number of requests that overlap.   *)
(***************************************************************************)
EXTENDS Slots, ServiceImages, TLAPS, FiniteSetTheorems, SequenceTheorems,
        WellFoundedInduction

-----------------------------------------------------------------------------
(***************************************************************************)
(* Replacements of the weekly schedule.                                    *)
(***************************************************************************)

Row == [by : Nat, day : 0 .. Week - 1, start : 0 .. DayLength, end : 0 .. DayLength]

TypeInv ==
  /\ calls \in Nat /\ weekly \subseteq Row
  /\ pc \in [Req -> {"idle", "delete", "insert"}]
  /\ asked \in [Req -> SUBSET Row] /\ seen \in [Req -> SUBSET Row]
  /\ doomed \in [Req -> SUBSET Row]

\* Each replacement has a number of its own, which its rows carry.
NumbersInv ==
  /\ \A x \in weekly : x.by <= calls
  /\ \A r \in Req : /\ \A x \in asked[r] \cup seen[r] : x.by <= calls
                    /\ asked[r] # {} => pc[r] # "idle"
  /\ \A r \in Req : \A x, y \in asked[r] : x.by = y.by
  /\ \A r, q \in Req : \A x \in asked[r], y \in weekly \cup seen[q] : x.by # y.by

\* Replacements that are in progress overlap each other and all that has been committed
\* since they began; and what one saw when it began is locked or gone when it inserts.
TogetherInv ==
  /\ \A r, q \in Req : r # q =>
       \A x \in asked[r], y \in asked[q] : x.by # y.by /\ <<x.by, y.by>> \in together
  /\ \A r \in Req : \A x \in weekly \ seen[r], y \in asked[r] :
       <<x.by, y.by>> \in together /\ <<y.by, x.by>> \in together
  /\ \A r \in Req : pc[r] = "insert" => weekly \cap seen[r] \subseteq doomed[r]

UpdateInv == TypeInv /\ NumbersInv /\ TogetherInv /\ ScheduleFromOneUpdate

LEMMA UpdateInvInductive ==
  /\ Init => UpdateInv
  /\ UpdateInv /\ [Next]_vars => UpdateInv'
  <1>1. Init => UpdateInv
    BY DEF Init, UpdateInv, TypeInv, NumbersInv, TogetherInv, ScheduleFromOneUpdate
  <1> SUFFICES ASSUME UpdateInv, [Next]_vars
               PROVE  UpdateInv'
    BY <1>1
  <1> USE DEF UpdateInv
  <1>2. ASSUME UNCHANGED <<weekly, replaceVars>>, calls' = calls \/ calls' = calls + 1
        PROVE  UpdateInv'
    BY <1>2 DEF replaceVars, TypeInv, NumbersInv, TogetherInv, ScheduleFromOneUpdate, Row
  <1>3. ASSUME NEW r \in Req, NEW windows \in Schedules, SetWeekly(r, windows)
        PROVE  UpdateInv'
    <2> DEFINE new == {[by |-> calls + 1, day |-> w.day, start |-> w.start, end |-> w.end] :
                         w \in Kept(windows)}
    <2>1. /\ pc[r] = "idle" /\ calls' = calls + 1 /\ pc' = [pc EXCEPT ![r] = "delete"]
          /\ asked' = [asked EXCEPT ![r] = new] /\ seen' = [seen EXCEPT ![r] = weekly]
          /\ UNCHANGED <<weekly, doomed>>
      BY <1>3 DEF SetWeekly, tableVars
    <2>2. new \subseteq Row /\ \A x \in new : x.by = calls + 1
      <3>1. \A w \in Kept(windows) :
              w \in [day : 0 .. Week - 1, start : 0 .. DayLength, end : 0 .. DayLength]
        BY SlotsAssumption DEF Kept
      <3>2. QED BY <3>1 DEF Row, TypeInv
    <2>3. /\ together \subseteq together'
          /\ \A q \in Req : pc[q] # "idle" => \A x \in asked[q] :
               <<calls + 1, x.by>> \in together' /\ <<x.by, calls + 1>> \in together'
      BY <1>3 DEF SetWeekly
    <2> HIDE DEF new
    <2>4. TypeInv'
      BY <2>1, <2>2 DEF TypeInv
    <2>5. /\ asked'[r] = new /\ seen'[r] = weekly /\ pc'[r] = "delete"
          /\ \A q \in Req \ {r} : asked'[q] = asked[q] /\ seen'[q] = seen[q] /\ pc'[q] = pc[q]
      BY <2>1 DEF TypeInv
    <2>6. /\ calls \in Nat /\ \A x \in weekly : x.by \in Nat
          /\ \A q \in Req : \A x \in asked[q] \cup seen[q] : x.by \in Nat
      BY DEF TypeInv, Row
    <2>7. NumbersInv'
      BY <2>1, <2>2, <2>5, <2>6 DEF NumbersInv
    <2>8. TogetherInv'
      <3>1. ASSUME NEW p \in Req, NEW q \in Req, p # q, NEW x \in asked'[p], NEW y \in asked'[q]
            PROVE  x.by # y.by /\ <<x.by, y.by>> \in together'
        <4>1. CASE p # r /\ q # r
          BY <2>3, <2>5, <3>1, <4>1 DEF TogetherInv
        <4>2. ASSUME NEW z, NEW u \in Req, u # r, z \in asked'[u]
              PROVE  /\ z.by # calls + 1
                     /\ <<calls + 1, z.by>> \in together' /\ <<z.by, calls + 1>> \in together'
          <5>1. z \in asked[u] /\ pc[u] # "idle" /\ z.by <= calls /\ z.by \in Nat /\ calls \in Nat
            BY <2>5, <2>6, <4>2 DEF NumbersInv
          <5>2. QED BY <2>3, <5>1
        <4>3. CASE p = r
          <5>1. x.by = calls + 1
            BY <2>2, <2>5, <4>3
          <5>2. QED BY <3>1, <4>2, <4>3, <5>1
        <4>4. CASE q = r
          <5>1. y.by = calls + 1
            BY <2>2, <2>5, <4>4
          <5>2. QED BY <3>1, <4>2, <4>4, <5>1
        <4>5. QED BY <4>1, <4>3, <4>4
      <3>2. ASSUME NEW q \in Req, NEW x \in weekly' \ seen'[q], NEW y \in asked'[q]
            PROVE  <<x.by, y.by>> \in together' /\ <<y.by, x.by>> \in together'
        BY <2>1, <2>3, <2>5 DEF TogetherInv
      <3>3. ASSUME NEW q \in Req, pc'[q] = "insert"
            PROVE  weekly' \cap seen'[q] \subseteq doomed'[q]
        BY <2>1, <2>5, <3>3 DEF TogetherInv
      <3>4. QED BY <3>1, <3>2, <3>3 DEF TogetherInv
    <2>9. QED BY <2>1, <2>3, <2>4, <2>7, <2>8 DEF ScheduleFromOneUpdate
  <1>4. ASSUME NEW r \in Req, DeleteRows(r)
        PROVE  UpdateInv'
    <2>1. /\ doomed' = [doomed EXCEPT ![r] = seen[r] \cap weekly]
          /\ pc' = [pc EXCEPT ![r] = "insert"] /\ pc[r] = "delete"
          /\ UNCHANGED <<weekly, asked, seen, calls, together>>
      BY <1>4 DEF DeleteRows, Seen, tableVars
    <2>2. TypeInv'
      BY <2>1 DEF TypeInv
    <2>3. /\ doomed'[r] = seen[r] \cap weekly /\ pc'[r] = "insert"
          /\ \A q \in Req \ {r} : doomed'[q] = doomed[q] /\ pc'[q] = pc[q]
      BY <2>1 DEF TypeInv
    <2>4. NumbersInv'
      BY <2>1, <2>3 DEF NumbersInv
    <2>5. TogetherInv'
      BY <2>1, <2>3 DEF TogetherInv
    <2>6. QED BY <2>1, <2>2, <2>4, <2>5 DEF ScheduleFromOneUpdate
  <1>5. ASSUME NEW r \in Req, Finished(r)
        PROVE  /\ pc' \in [Req -> {"idle", "delete", "insert"}]
               /\ asked' \in [Req -> SUBSET Row] /\ seen' \in [Req -> SUBSET Row]
               /\ doomed' \in [Req -> SUBSET Row]
               /\ UNCHANGED <<calls, together>>
               /\ asked'[r] = {} /\ seen'[r] = {} /\ pc'[r] = "idle"
               /\ \A q \in Req \ {r} : /\ asked'[q] = asked[q] /\ seen'[q] = seen[q]
                                       /\ doomed'[q] = doomed[q] /\ pc'[q] = pc[q]
    BY <1>5 DEF Finished, TypeInv
  <1>6. ASSUME NEW r \in Req, CommitWeekly(r)
        PROVE  UpdateInv'
    <2>1. weekly' = (weekly \ doomed[r]) \cup asked[r] /\ Finished(r) /\ pc[r] = "insert"
      BY <1>6 DEF CommitWeekly
    <2>2. TypeInv'
      BY <1>5, <2>1 DEF TypeInv
    <2>3. NumbersInv'
      <3>1. ASSUME NEW p \in Req, NEW q \in Req, NEW x \in asked'[p], NEW y \in weekly' \cup seen'[q]
            PROVE  x.by # y.by
        <4>1. p # r /\ x \in asked[p] /\ y \in weekly \cup asked[r] \cup seen[q]
          BY <1>5, <2>1, <3>1
        <4>2. CASE y \in weekly \cup seen[q]
          BY <4>1, <4>2 DEF NumbersInv
        <4>3. CASE y \in asked[r]
          BY <4>1, <4>3 DEF TogetherInv
        <4>4. QED BY <4>1, <4>2, <4>3
      <3>2. QED BY <1>5, <2>1, <3>1 DEF NumbersInv
    <2>4. TogetherInv'
      <3>1. ASSUME NEW p \in Req, NEW q \in Req, p # q, NEW x \in asked'[p], NEW y \in asked'[q]
            PROVE  x.by # y.by /\ <<x.by, y.by>> \in together'
        <4>1. x \in asked[p] /\ y \in asked[q]
          BY <1>5, <2>1
        <4>2. QED BY <1>5, <2>1, <3>1, <4>1 DEF TogetherInv
      <3>2. ASSUME NEW q \in Req, NEW x \in weekly' \ seen'[q], NEW y \in asked'[q]
            PROVE  <<x.by, y.by>> \in together' /\ <<y.by, x.by>> \in together'
        <4>1. q # r /\ y \in asked[q] /\ x \notin seen[q] /\ (x \in weekly \/ x \in asked[r])
          BY <1>5, <2>1, <3>2
        <4>2. QED BY <1>5, <2>1, <4>1 DEF TogetherInv
      <3>3. ASSUME NEW q \in Req, pc'[q] = "insert"
            PROVE  weekly' \cap seen'[q] \subseteq doomed'[q]
        <4>1. q # r /\ pc[q] = "insert" /\ seen'[q] = seen[q] /\ doomed'[q] = doomed[q]
          BY <1>5, <2>1, <3>3
        <4>2. asked[r] \cap seen[q] = {}
          BY DEF NumbersInv
        <4>3. QED BY <2>1, <4>1, <4>2 DEF TogetherInv
      <3>4. QED BY <3>1, <3>2, <3>3 DEF TogetherInv
    <2>5. ScheduleFromOneUpdate'
      <3>1. ASSUME NEW x \in weekly', NEW y \in weekly', x.by # y.by
            PROVE  <<x.by, y.by>> \in together
        <4>1. \A z \in weekly \ doomed[r] : z \notin seen[r]
          BY <2>1 DEF TogetherInv
        <4>2. CASE x \in weekly \ doomed[r] /\ y \in weekly \ doomed[r]
          BY <3>1, <4>2 DEF ScheduleFromOneUpdate
        <4>3. CASE x \in asked[r] /\ y \in asked[r]
          BY <3>1, <4>3 DEF NumbersInv
        <4>4. CASE \/ x \in weekly \ doomed[r] /\ y \in asked[r]
                   \/ x \in asked[r] /\ y \in weekly \ doomed[r]
          BY <4>1, <4>4 DEF TogetherInv
        <4>5. QED BY <2>1, <4>2, <4>3, <4>4
      <3>2. QED BY <1>5, <2>1, <3>1 DEF ScheduleFromOneUpdate
    <2>6. QED BY <2>2, <2>3, <2>4, <2>5
  <1>7. ASSUME NEW r \in Req, AbortWeekly(r)
        PROVE  UpdateInv'
    <2>1. UNCHANGED weekly /\ Finished(r)
      BY <1>7 DEF AbortWeekly, tableVars
    <2>2. TypeInv'
      BY <1>5, <2>1 DEF TypeInv
    <2>3. NumbersInv'
      BY <1>5, <2>1 DEF NumbersInv
    <2>4. TogetherInv'
      BY <1>5, <2>1 DEF TogetherInv
    <2>5. QED BY <1>5, <2>1, <2>2, <2>3, <2>4 DEF ScheduleFromOneUpdate
  <1>8. ASSUME NEW o \in Override, \/ DeleteOverride(o)
                                   \/ \E span \in Spans, type \in {"EXTEND", "BLOCK"} :
                                        CreateOverride(o, span, type)
        PROVE  UpdateInv'
    BY <1>2, <1>8 DEF DeleteOverride, CreateOverride
  <1>9. CASE UNCHANGED vars
    BY <1>2, <1>9 DEF vars, tableVars
  <1>10. QED
    <2> HIDE DEF UpdateInv
    <2>1. QED BY <1>3, <1>4, <1>6, <1>7, <1>8, <1>9 DEF Next

\* A replacement of the weekly schedule leaves nothing of the one before it, however many
\* replacements overlap, wait for each other and are rolled back, unless the two rows that
\* stay together are of replacements that were in progress at the same time.
THEOREM SchedulesReplaced == Spec => []ScheduleFromOneUpdate
  <1>1. UpdateInv => ScheduleFromOneUpdate
    BY DEF UpdateInv
  <1>2. QED BY <1>1, UpdateInvInductive, PTL DEF Spec

-----------------------------------------------------------------------------
(***************************************************************************)
(* Windows and slots.  What one override does to the windows of a day, and *)
(* the slots of any set of windows; Overridden folds the one over the      *)
(* overrides, and DaySlots is the other of what comes out.                 *)
(***************************************************************************)

\* A span from a unit of time to another, whatever it comes from.
Window == [from : Row \cup Override, start : Int, end : Int]

\* Cutting a block out of a window leaves exactly the rest of the window, in windows of the
\* same origin that are not empty.
LEMMA SubtractLeavesRest ==
  ASSUME NEW w \in Window, NEW block \in Window, block.start < block.end
  PROVE  /\ Subtract(w, block) \subseteq Window
         /\ UNION {Units(x) : x \in Subtract(w, block)} = Units(w) \ Units(block)
         /\ \A x \in Subtract(w, block) : /\ x.from = w.from
                                          /\ w.start < w.end => x.start < x.end
  <1> DEFINE part(a, b) == [from |-> w.from, start |-> a, end |-> b]
  <1>1. /\ w.start \in Int /\ w.end \in Int /\ block.start \in Int /\ block.end \in Int
        /\ w = part(w.start, w.end)
    BY DEF Window
  <1>2. \A b \in Int : [w EXCEPT !.end = b] = part(w.start, b)
    BY DEF Window
  <1>3. \A a \in Int : [w EXCEPT !.start = a] = part(a, w.end)
    BY DEF Window
  <1>4. \A a, b \in Int : /\ part(a, b) \in Window /\ part(a, b).from = w.from
                          /\ part(a, b).start = a /\ part(a, b).end = b
                          /\ Units(part(a, b)) = {u \in Int : a <= u /\ u < b}
    BY DEF Window, Units
  <1>5. /\ Units(w) = {u \in Int : w.start <= u /\ u < w.end}
        /\ Units(block) = {u \in Int : block.start <= u /\ u < block.end}
    BY <1>1 DEF Units
  <1> HIDE DEF part
  <1>6. CASE block.end <= w.start \/ block.start >= w.end
    <2>1. Subtract(w, block) = {w}
      BY <1>6 DEF Subtract
    <2>2. Units(w) \cap Units(block) = {}
      BY <1>1, <1>5, <1>6
    <2>3. QED BY <2>1, <2>2
  <1>7. CASE ~(block.end <= w.start \/ block.start >= w.end) /\ block.start <= w.start
    <2>1. CASE block.end >= w.end
      <3>1. Subtract(w, block) = {}
        BY <1>7, <2>1 DEF Subtract
      <3>2. Units(w) \subseteq Units(block)
        BY <1>1, <1>5, <1>7, <2>1
      <3>3. QED BY <3>1, <3>2
    <2>2. CASE ~(block.end >= w.end)
      <3>1. Subtract(w, block) = {part(block.end, w.end)}
        BY <1>1, <1>3, <1>7, <2>2 DEF Subtract
      <3>2. Units(part(block.end, w.end)) = Units(w) \ Units(block)
        BY <1>1, <1>4, <1>5, <1>7, <2>2
      <3>3. QED BY <1>1, <1>4, <2>2, <3>1, <3>2
    <2>3. QED BY <2>1, <2>2
  <1>8. CASE ~(block.end <= w.start \/ block.start >= w.end) /\ ~(block.start <= w.start)
    <2>1. CASE block.end >= w.end
      <3>1. Subtract(w, block) = {part(w.start, block.start)}
        BY <1>1, <1>2, <1>8, <2>1 DEF Subtract
      <3>2. Units(part(w.start, block.start)) = Units(w) \ Units(block)
        BY <1>1, <1>4, <1>5, <1>8, <2>1
      <3>3. QED BY <1>1, <1>4, <1>8, <3>1, <3>2
    <2>2. CASE ~(block.end >= w.end)
      <3>1. Subtract(w, block) = {part(w.start, block.start), part(block.end, w.end)}
        BY <1>1, <1>2, <1>3, <1>8, <2>2 DEF Subtract
      <3>2. Units(part(w.start, block.start)) \cup Units(part(block.end, w.end))
              = Units(w) \ Units(block)
        BY <1>1, <1>4, <1>5, <1>8, <2>2
      <3>3. QED BY <1>1, <1>4, <1>8, <2>2, <3>1, <3>2
    <2>3. QED BY <2>1, <2>2
  <1>9. QED BY <1>6, <1>7, <1>8

\* The units of time that windows open.
OpenIn(ws) == UNION {Units(w) : w \in ws}

\* One override, applied to the windows of a day as in applyOverrides: a block closes
\* exactly its own hours in all of them, an extension opens exactly its own, and no window
\* becomes empty or changes its origin.
THEOREM OverrideAppliedExactly ==
  ASSUME NEW ws \in SUBSET Window, NEW c \in Window, c.start < c.end
  PROVE  LET cut == UNION {Subtract(w, c) : w \in ws}
         IN /\ cut \subseteq Window
            /\ OpenIn(cut) = OpenIn(ws) \ Units(c)
            /\ OpenIn(ws \cup {c}) = OpenIn(ws) \cup Units(c)
            /\ \A x \in cut :
                 \E w \in ws : x.from = w.from /\ (w.start < w.end => x.start < x.end)
  <1> DEFINE cut == UNION {Subtract(w, c) : w \in ws}
  <1>1. ASSUME NEW w \in ws
        PROVE  /\ Subtract(w, c) \subseteq Window
               /\ OpenIn(Subtract(w, c)) = Units(w) \ Units(c)
               /\ \A x \in Subtract(w, c) : /\ x.from = w.from
                                            /\ w.start < w.end => x.start < x.end
    BY SubtractLeavesRest DEF OpenIn
  <1>2. \A S, u : u \in OpenIn(S) <=> \E x \in S : u \in Units(x)
    BY DEF OpenIn
  <1>3. \A x : x \in cut <=> \E w \in ws : x \in Subtract(w, c)
    OBVIOUS
  <1> HIDE DEF cut
  <1>4. cut \subseteq Window
    BY <1>1, <1>3
  <1>5. ASSUME NEW u
        PROVE  u \in OpenIn(cut) <=> u \in OpenIn(ws) \ Units(c)
    <2>1. u \in OpenIn(cut) <=> \E w \in ws : u \in OpenIn(Subtract(w, c))
      BY <1>2, <1>3
    <2>2. (\E w \in ws : u \in OpenIn(Subtract(w, c))) <=>
            \E w \in ws : u \in Units(w) /\ u \notin Units(c)
      BY <1>1
    <2>3. QED BY <1>2, <2>1, <2>2
  <1>6. OpenIn(ws \cup {c}) = OpenIn(ws) \cup Units(c)
    <2>1. \A u : u \in OpenIn(ws \cup {c}) <=> u \in OpenIn(ws) \cup Units(c)
      BY <1>2
    <2>2. QED BY <2>1
  <1>7. \A x \in cut : \E w \in ws : x.from = w.from /\ (w.start < w.end => x.start < x.end)
    BY <1>1, <1>3
  <1>8. OpenIn(cut) = OpenIn(ws) \ Units(c)
    BY <1>5
  <1>9. QED BY <1>4, <1>6, <1>7, <1>8 DEF cut

\* Multiples of P that differ are at least P apart.
LEMMA Multiple ==
  ASSUME NEW P \in Nat \ {0}, NEW x \in Int, x % P = 0
  PROVE  \E i \in Int : x = P * i
  <1>1. x = P * (x \div P) + (x % P)
    OBVIOUS
  <1>2. PICK i \in Int : i = x \div P
    OBVIOUS
  <1>3. P * i \in Int /\ x = P * i + 0
    BY <1>1, <1>2
  <1>4. x = P * i
    BY <1>3
  <1>5. QED BY <1>4
LEMMA Apart ==
  ASSUME NEW P \in Nat \ {0}, NEW x \in Int, NEW y \in Int, x % P = 0, y % P = 0, x < y
  PROVE  x + P <= y
  <1>1. PICK i \in Int, j \in Int : x = P * i /\ y = P * j
    BY Multiple
  <1>2. i < j
    <2>1. SUFFICES ASSUME j <= i
                   PROVE  FALSE
      OBVIOUS
    <2>2. PICK k \in Nat : i = j + k
      <3>1. i - j \in Nat /\ i = j + (i - j)
        BY <2>1
      <3>2. QED BY <3>1
    <2>3. P * i = P * j + P * k /\ P * k >= 0 /\ P * k \in Int
      BY <2>2
    <2>4. QED BY <1>1, <2>3
  <1>3. PICK k \in Nat : j = i + 1 + k
    <2>1. j - i - 1 \in Nat /\ j = i + 1 + (j - i - 1)
      BY <1>2
    <2>2. QED BY <2>1
  <1>4. P * j = P * i + P + P * k /\ P * k >= 0 /\ P * k \in Int
    BY <1>3
  <1>5. QED BY <1>1, <1>4

\* The slots of one window lie in it and follow each other a buffer apart.
LEMMA SlotsOfWindow ==
  ASSUME NEW w \in Window, NEW s \in SlotsIn(w)
  PROVE  /\ s.window = w /\ s.start \in Int /\ s.end = s.start + Duration
         /\ w.start <= s.start /\ s.end <= w.end
         /\ \A t \in SlotsIn(w) : s # t /\ s.start <= t.start => s.end + Buffer <= t.start
  <1>1. /\ Duration \in Nat \ {0} /\ Buffer \in Nat /\ w.start \in Int /\ w.end \in Int
        /\ Duration + Buffer \in Nat \ {0}
    BY SlotsAssumption DEF Window
  <1>2. ASSUME NEW t \in SlotsIn(w)
        PROVE  /\ t = [window |-> w, start |-> t.start, end |-> t.start + Duration]
               /\ t.start \in Int /\ w.start <= t.start /\ t.start <= w.end - Duration
               /\ (t.start - w.start) % (Duration + Buffer) = 0
               /\ t.end = t.start + Duration /\ t.window = w
    BY <1>1 DEF SlotsIn
  <1>3. ASSUME NEW t \in SlotsIn(w), s # t, s.start <= t.start
        PROVE  s.end + Buffer <= t.start
    <2>1. s.start < t.start
      BY <1>2, <1>3
    <2>2. PICK x \in Int, y \in Int : x = s.start - w.start /\ y = t.start - w.start
      BY <1>1, <1>2
    <2>3. x + (Duration + Buffer) <= y
      <3>1. x % (Duration + Buffer) = 0 /\ y % (Duration + Buffer) = 0 /\ x < y
        BY <1>1, <1>2, <2>1, <2>2
      <3>2. QED BY <1>1, <3>1, Apart
    <2>4. QED BY <1>1, <1>2, <2>2, <2>3
  <1>4. QED BY <1>1, <1>2, <1>3

\* Whatever the windows of a day are, a slot that starts less than a buffer after another
\* one ends is of another window, which starts less than a buffer after the first one's end:
\* within a window a client never gets two slots without the buffer between them.
THEOREM SlotsKeepBuffer ==
  ASSUME NEW ws \in SUBSET Window,
         NEW s \in UNION {SlotsIn(w) : w \in ws}, NEW t \in UNION {SlotsIn(w) : w \in ws},
         s # t, s.start <= t.start, t.start < s.end + Buffer
  PROVE  s.window # t.window /\ t.window.start < s.window.end + Buffer
  <1>1. PICK w \in ws : s \in SlotsIn(w)
    OBVIOUS
  <1>2. PICK x \in ws : t \in SlotsIn(x)
    OBVIOUS
  <1>3. /\ s.window = w /\ s.start \in Int /\ s.end = s.start + Duration /\ s.end <= w.end
        /\ t.window = x /\ t.start \in Int /\ x.start <= t.start
    BY <1>1, <1>2, SlotsOfWindow
  <1>4. Duration \in Nat /\ Buffer \in Nat /\ w.end \in Int /\ x.start \in Int
    BY SlotsAssumption DEF Window
  <1>5. w # x
    <2>1. SUFFICES ASSUME w = x
                   PROVE  FALSE
      OBVIOUS
    <2>2. s.end + Buffer <= t.start
      BY <1>1, <1>2, <2>1, SlotsOfWindow
    <2>3. QED BY <1>3, <1>4, <2>2
  <1>6. QED BY <1>3, <1>4, <1>5

-----------------------------------------------------------------------------
(***************************************************************************)
(* Where the windows of a day come from: the rows of one update of the     *)
(* weekly schedule do not overlap, and overrides are spans of time.        *)
(***************************************************************************)

Laid == [start : Int, end : Int, type : {"EXTEND", "BLOCK"}]
Standing == {o \in Override : overrides[o] # None}

Disjoint(rows) ==
  \A x, y \in rows : x # y /\ x.by = y.by /\ x.day = y.day => ~Overlap(x, y)

HoursInv ==
  /\ overrides \in [Override -> {None} \cup Laid]
  /\ IsFiniteSet(Standing)
  /\ Disjoint(weekly) /\ \A r \in Req : Disjoint(asked[r])

LEMMA HoursInvInductive ==
  /\ Init => HoursInv
  /\ UpdateInv /\ HoursInv /\ [Next]_vars => HoursInv'
  <1>1. Init => HoursInv
    <2> SUFFICES ASSUME Init
                 PROVE  HoursInv
      OBVIOUS
    <2>1. Standing = {}
      BY DEF Init, Standing
    <2>2. QED BY <2>1, FS_EmptySet DEF Init, HoursInv, Disjoint
  <1> SUFFICES ASSUME UpdateInv, HoursInv, [Next]_vars
               PROVE  HoursInv'
    BY <1>1
  <1>2. TypeInv /\ NumbersInv
    BY DEF UpdateInv
  <1>3. ASSUME NEW r \in Req, NEW windows \in Schedules, SetWeekly(r, windows)
        PROVE  HoursInv'
    <2> DEFINE new == {[by |-> calls + 1, day |-> w.day, start |-> w.start, end |-> w.end] :
                         w \in Kept(windows)}
    <2>1. Valid(windows) /\ asked' = [asked EXCEPT ![r] = new] /\ UNCHANGED <<weekly, overrides>>
      BY <1>3 DEF SetWeekly, tableVars
    <2>2. Disjoint(new)
      <3>1. \A w \in Kept(windows) :
              w \in [day : 0 .. Week - 1, start : 0 .. DayLength, end : 0 .. DayLength]
        BY SlotsAssumption DEF Kept
      <3>2. QED BY <2>1, <3>1 DEF Valid, Disjoint, Overlap
    <2> HIDE DEF new
    <2>3. \A q \in Req : asked'[q] = IF q = r THEN new ELSE asked[q]
      BY <1>2, <2>1 DEF TypeInv
    <2>4. \A q \in Req : Disjoint(asked'[q])
      BY <2>2, <2>3 DEF HoursInv
    <2>5. QED BY <2>1, <2>4 DEF HoursInv, Standing, Disjoint
  <1>4. ASSUME NEW r \in Req, Finished(r)
        PROVE  \A q \in Req : asked'[q] = IF q = r THEN {} ELSE asked[q]
    BY <1>2, <1>4 DEF Finished, TypeInv
  <1>5. ASSUME NEW r \in Req, CommitWeekly(r)
        PROVE  HoursInv'
    <2>1. weekly' = (weekly \ doomed[r]) \cup asked[r] /\ Finished(r) /\ UNCHANGED overrides
      BY <1>5 DEF CommitWeekly
    <2>2. \A x \in asked[r], y \in weekly : x.by # y.by
      BY <1>2 DEF NumbersInv
    <2>3. Disjoint(weekly')
      BY <2>1, <2>2 DEF HoursInv, Disjoint
    <2>4. \A q \in Req : Disjoint(asked'[q])
      BY <1>4, <2>1 DEF HoursInv, Disjoint
    <2>5. QED BY <2>1, <2>3, <2>4 DEF HoursInv, Standing, Disjoint
  <1>6. ASSUME NEW r \in Req, AbortWeekly(r)
        PROVE  HoursInv'
    <2>1. \A q \in Req : Disjoint(asked'[q])
      BY <1>4, <1>6 DEF AbortWeekly, HoursInv, Disjoint
    <2>2. QED BY <1>6, <2>1 DEF AbortWeekly, tableVars, HoursInv, Standing, Disjoint
  <1>7. ASSUME NEW o \in Override, NEW span \in Spans, NEW type \in {"EXTEND", "BLOCK"},
               CreateOverride(o, span, type)
        PROVE  HoursInv'
    <2> DEFINE new == [start |-> span.start, end |-> span.end, type |-> type]
    <2>1. overrides' = [overrides EXCEPT ![o] = new] /\ UNCHANGED <<weekly, asked>>
      BY <1>7 DEF CreateOverride, replaceVars
    <2>2. new \in Laid
      BY SlotsAssumption DEF Laid
    <2> HIDE DEF new
    <2>3. Standing' \subseteq Standing \cup {o}
      BY <2>1 DEF Standing, HoursInv
    <2>4. IsFiniteSet(Standing')
      BY <2>3, FS_AddElement, FS_Subset DEF HoursInv
    <2>5. QED BY <2>1, <2>2, <2>4 DEF HoursInv, Disjoint
  <1>8. ASSUME NEW o \in Override, DeleteOverride(o)
        PROVE  HoursInv'
    <2>1. overrides' = [overrides EXCEPT ![o] = None] /\ UNCHANGED <<weekly, asked>>
      BY <1>8 DEF DeleteOverride, replaceVars
    <2>2. Standing' \subseteq Standing
      BY <2>1 DEF Standing, HoursInv
    <2>3. IsFiniteSet(Standing')
      BY <2>2, FS_Subset DEF HoursInv
    <2>4. QED BY <2>1, <2>3 DEF HoursInv, Disjoint
  <1>9. ASSUME UNCHANGED <<weekly, overrides, asked>>
        PROVE  HoursInv'
    BY <1>9 DEF HoursInv, Standing, Disjoint
  <1>10. ASSUME NEW r \in Req, DeleteRows(r)
         PROVE  HoursInv'
    BY <1>9, <1>10 DEF DeleteRows, tableVars
  <1>11. CASE UNCHANGED vars
    BY <1>9, <1>11 DEF vars, tableVars, replaceVars
  <1>12. QED
    <2> HIDE DEF UpdateInv, HoursInv
    <2>1. QED BY <1>3, <1>5, <1>6, <1>7, <1>8, <1>10, <1>11 DEF Next

-----------------------------------------------------------------------------
(***************************************************************************)
(* The windows of a day, one override after the other.  Overridden is a    *)
(* fold, a function on sets of positions; its values on 1 .. n are the     *)
(* windows after the first n overrides.                                    *)
(***************************************************************************)

\* A set of numbers with 0, and with every number the next, has them all.
LEMMA Counted ==
  ASSUME NEW T, 0 \in T, \A n \in Nat : n \in T => n + 1 \in T
  PROVE  Nat \subseteq T
  <1> DEFINE less == {p \in Nat \X Nat : p[1] < p[2]}
             rest == Nat \ T
  <1>1. SUFFICES ASSUME rest # {}
                 PROVE  FALSE
    OBVIOUS
  <1>2. PICK x \in rest : \A y \in rest : <<y, x>> \notin less
    <2>1. IsWellFoundedOn(less, Nat)
      BY NatLessThanWellFounded DEF OpToRel
    <2>2. rest \subseteq Nat
      OBVIOUS
    <2> HIDE DEF less, rest
    <2>3. QED BY <1>1, <2>1, <2>2, WFMin
  <1>3. x - 1 \in Nat /\ x = (x - 1) + 1 /\ x - 1 < x
    <2>1. x # 0 /\ x \in Nat
      BY <1>2
    <2>2. QED BY <2>1
  <1>4. x - 1 \in rest
    BY <1>2, <1>3
  <1>5. <<x - 1, x>> \in less
    BY <1>2, <1>3
  <1>6. QED BY <1>2, <1>4, <1>5

\* The greatest of some of the first n numbers.
LEMMA Greatest ==
  ASSUME NEW n \in Nat, NEW S \in SUBSET (1 .. n), S # {}
  PROVE  Max(S) \in S /\ \A y \in S : Max(S) >= y
  <1> DEFINE T == {m \in Nat : \A R \in SUBSET (1 .. m) :
                                 R # {} => \E x \in R : \A y \in R : x >= y}
  <1>1. 0 \in T
    <2>1. 1 .. 0 = {}
      OBVIOUS
    <2>2. QED BY <2>1
  <1>2. ASSUME NEW m \in Nat, m \in T
        PROVE  m + 1 \in T
    <2>1. ASSUME NEW R \in SUBSET (1 .. m + 1), R # {}
          PROVE  \E x \in R : \A y \in R : x >= y
      <3>1. CASE m + 1 \in R
        <4>1. \A y \in R : m + 1 >= y
          OBVIOUS
        <4>2. QED BY <3>1, <4>1
      <3>2. CASE m + 1 \notin R
        <4>1. R \in SUBSET (1 .. m)
          BY <3>2
        <4>2. QED BY <1>2, <2>1, <4>1
      <3>3. QED BY <3>1, <3>2
    <2>2. QED BY <2>1
  <1>3. n \in T
    <2> HIDE DEF T
    <2>1. QED BY <1>1, <1>2, Counted
  <1>4. \E x \in S : \A y \in S : x >= y
    BY <1>3
  <1>5. QED BY <1>4 DEF Max

\* The next override, applied to the windows of a day.
Applied(d, ws, o) ==
  IF Clipped(o, d).start >= Clipped(o, d).end THEN ws
  ELSE IF overrides[o].type = "EXTEND" THEN ws \cup {Clipped(o, d)}
  ELSE UNION {Subtract(w, Clipped(o, d)) : w \in ws}

\* The fold's function, on the sets of positions up to m.
Folded(d, order, m, g) ==
  [s \in SUBSET (1 .. m) |->
     IF s = {} THEN BaseWindows(d) ELSE Applied(d, g[s \ {Max(s)}], order[Max(s)])]

LEMMA FoldExists ==
  ASSUME NEW d, NEW order, NEW n \in Nat
  PROVE  \E g : g = Folded(d, order, n, g)
  <1> DEFINE T == {m \in Nat : \E g : g = Folded(d, order, m, g)}
  <1>1. 0 \in T
    <2> DEFINE g == [s \in SUBSET (1 .. 0) |-> BaseWindows(d)]
    <2>1. \A s \in SUBSET (1 .. 0) : s = {}
      OBVIOUS
    <2>2. g = Folded(d, order, 0, g)
      BY <2>1 DEF Folded
    <2>3. QED BY <2>2
  <1>2. ASSUME NEW m \in Nat, m \in T
        PROVE  m + 1 \in T
    <2>1. PICK g : g = Folded(d, order, m, g)
      BY <1>2
    <2> DEFINE h == [s \in SUBSET (1 .. m + 1) |->
                       IF m + 1 \in s THEN Applied(d, g[s \ {m + 1}], order[m + 1]) ELSE g[s]]
    <2>2. ASSUME NEW s \in SUBSET (1 .. m + 1)
          PROVE  h[s] = IF s = {} THEN BaseWindows(d)
                        ELSE Applied(d, h[s \ {Max(s)}], order[Max(s)])
      <3>1. \A R \in SUBSET (1 .. m) : m + 1 \notin R /\ R \in SUBSET (1 .. m + 1)
        OBVIOUS
      <3>2. \A R \in SUBSET (1 .. m) : h[R] = g[R]
        BY <3>1
      <3>3. CASE m + 1 \in s
        <4>1. Max(s) = m + 1
          <5>1. m + 1 \in Nat /\ s \in SUBSET (1 .. (m + 1)) /\ s # {}
            BY <3>3
          <5>2. Max(s) \in s /\ \A y \in s : Max(s) >= y
            BY <5>1, Greatest
          <5>3. Max(s) \in 1 .. (m + 1) /\ Max(s) >= m + 1
            BY <3>3, <5>1, <5>2
          <5>4. QED BY <5>3
        <4>2. s \ {m + 1} \in SUBSET (1 .. m)
          OBVIOUS
        <4>3. h[s] = Applied(d, g[s \ {m + 1}], order[m + 1])
          BY <3>3
        <4>4. QED BY <3>2, <3>3, <4>1, <4>2, <4>3
      <3>4. CASE m + 1 \notin s
        <4>1. s \in SUBSET (1 .. m)
          BY <3>4
        <4>2. g[s] = IF s = {} THEN BaseWindows(d)
                     ELSE Applied(d, g[s \ {Max(s)}], order[Max(s)])
          BY <2>1, <4>1 DEF Folded
        <4>3. s \ {Max(s)} \in SUBSET (1 .. m)
          BY <4>1
        <4>4. QED BY <3>2, <4>1, <4>2, <4>3
      <3>5. QED BY <3>3, <3>4
    <2>3. h = Folded(d, order, m + 1, h)
      <3>1. Folded(d, order, m + 1, h) =
              [s \in SUBSET (1 .. m + 1) |-> IF s = {} THEN BaseWindows(d)
                 ELSE Applied(d, h[s \ {Max(s)}], order[Max(s)])]
        BY DEF Folded
      <3>2. h = [s \in SUBSET (1 .. m + 1) |-> h[s]]
        OBVIOUS
      <3> HIDE DEF h
      <3>3. QED BY <2>2, <3>1, <3>2
    <2> HIDE DEF h
    <2>4. QED BY <2>3
  <1>3. n \in T
    <2> HIDE DEF T
    <2>1. QED BY <1>1, <1>2, Counted
  <1>4. QED BY <1>3

\* The windows of a day after none, one, ... and all of its overrides.
LEMMA WindowsUnfolded ==
  ASSUME NEW d, NEW S, NEW order \in Seq(S)
  PROVE  \E stage :
           /\ stage[0] = BaseWindows(d) /\ stage[Len(order)] = Overridden(d, order)
           /\ \A n \in 1 .. Len(order) : stage[n] = Applied(d, stage[n - 1], order[n])
  <1>1. Len(order) \in Nat /\ DOMAIN order = 1 .. Len(order)
    OBVIOUS
  <1>2. PICK g : g = CHOOSE h : h = Folded(d, order, Len(order), h)
    OBVIOUS
  <1>3. g = Folded(d, order, Len(order), g)
    BY <1>1, <1>2, FoldExists
  <1>4. Overridden(d, order) = g[1 .. Len(order)]
    <2>1. Overridden(d, order) = (CHOOSE h : h = Folded(d, order, Len(order), h))[DOMAIN order]
      BY <1>1 DEF Overridden, FoldLeft, MapThenFoldSet, Folded, Applied
    <2>2. QED BY <1>1, <1>2, <2>1
  <1> DEFINE stage == [n \in 0 .. Len(order) |-> g[1 .. n]]
  <1>5. stage[0] = BaseWindows(d)
    <2>1. 1 .. 0 = {} /\ {} \in SUBSET (1 .. Len(order))
      OBVIOUS
    <2>2. QED BY <1>1, <1>3, <2>1 DEF Folded
  <1>6. ASSUME NEW n \in 1 .. Len(order)
        PROVE  stage[n] = Applied(d, stage[n - 1], order[n])
    <2>1. /\ n \in Nat /\ 1 .. n \in SUBSET (1 .. Len(order)) /\ n \in 1 .. n
          /\ (1 .. n) \ {n} = 1 .. (n - 1) /\ n - 1 \in 0 .. Len(order) /\ n \in 0 .. Len(order)
      BY <1>1
    <2>2. Max(1 .. n) = n
      <3>1. Max(1 .. n) \in 1 .. n /\ Max(1 .. n) >= n
        <4>1. 1 .. n \in SUBSET (1 .. n) /\ 1 .. n # {}
          BY <2>1
        <4>2. QED BY <2>1, <4>1, Greatest
      <3>2. QED BY <2>1, <3>1
    <2>3. g[1 .. n] = Applied(d, g[(1 .. n) \ {n}], order[n])
      BY <1>3, <2>1, <2>2 DEF Folded
    <2>4. QED BY <2>1, <2>3
  <1>7. stage[Len(order)] = Overridden(d, order)
    BY <1>1, <1>4
  <1> HIDE DEF stage
  <1>8. QED BY <1>5, <1>6, <1>7

-----------------------------------------------------------------------------
(***************************************************************************)
(* What holds of the windows after each override.                          *)
(***************************************************************************)

\* What is left of a window lies in it, and its parts do not overlap.
LEMMA SubtractSplits ==
  ASSUME NEW w \in Window, NEW block \in Window, block.start < block.end
  PROVE  /\ \A x \in Subtract(w, block) : w.start <= x.start /\ x.end <= w.end
         /\ \A x, y \in Subtract(w, block) : x # y => ~Overlap(x, y)
  <1> DEFINE part(a, b) == [from |-> w.from, start |-> a, end |-> b]
  <1>1. /\ w.start \in Int /\ w.end \in Int /\ block.start \in Int /\ block.end \in Int
        /\ w = part(w.start, w.end)
    BY DEF Window
  <1>2. \A b \in Int : [w EXCEPT !.end = b] = part(w.start, b)
    BY DEF Window
  <1>3. \A a \in Int : [w EXCEPT !.start = a] = part(a, w.end)
    BY DEF Window
  <1>4. \A a, b \in Int : part(a, b).start = a /\ part(a, b).end = b
    OBVIOUS
  <1> HIDE DEF part
  <1>5. \/ Subtract(w, block) = {w} \/ Subtract(w, block) = {}
        \/ block.end < w.end /\ block.end > w.start /\ Subtract(w, block) = {part(block.end, w.end)}
        \/ block.start > w.start /\ block.start < w.end /\ Subtract(w, block) = {part(w.start, block.start)}
        \/ /\ block.start > w.start /\ block.end < w.end
           /\ Subtract(w, block) = {part(w.start, block.start), part(block.end, w.end)}
    BY <1>1, <1>2, <1>3 DEF Subtract
  <1>6. QED BY <1>1, <1>4, <1>5 DEF Overlap

\* Windows that overlap come from an override or from rows of two updates.
RowsApart(ws) ==
  \A x, y \in ws : x # y /\ Overlap(x, y) =>
    x.from \in Override \/ y.from \in Override \/ x.from.by # y.from.by

LEMMA AppliedKeepsApart ==
  ASSUME NEW ws \in SUBSET Window, NEW c \in Window, c.start < c.end, RowsApart(ws)
  PROVE  /\ c.from \in Override => RowsApart(ws \cup {c})
         /\ RowsApart(UNION {Subtract(w, c) : w \in ws})
  <1>1. c.from \in Override => RowsApart(ws \cup {c})
    BY DEF RowsApart
  <1>2. ASSUME NEW v \in ws, NEW w \in ws, NEW x \in Subtract(v, c), NEW y \in Subtract(w, c),
               x # y, Overlap(x, y)
        PROVE  x.from \in Override \/ y.from \in Override \/ x.from.by # y.from.by
    <2>1. v # w
      BY <1>2, SubtractSplits
    <2>2. x.from = v.from /\ y.from = w.from /\ x \in Window /\ y \in Window
      BY SubtractLeavesRest
    <2>3. v.start <= x.start /\ x.end <= v.end /\ w.start <= y.start /\ y.end <= w.end
      BY SubtractSplits
    <2>4. Overlap(v, w)
      BY <1>2, <2>2, <2>3 DEF Overlap, Window
    <2>5. QED BY <2>1, <2>2, <2>4 DEF RowsApart
  <1>3. \A x : x \in UNION {Subtract(w, c) : w \in ws} <=> \E w \in ws : x \in Subtract(w, c)
    OBVIOUS
  <1>4. RowsApart(UNION {Subtract(w, c) : w \in ws})
    BY <1>2, <1>3 DEF RowsApart
  <1>5. QED BY <1>1, <1>4

DayUnits(d) == DayStart(d) .. DayEnd(d) - 1

\* The overrides among the first n that cover a unit of time; what the vendor means by them.
Covering(order, n, u) == {i \in 1 .. n : u \in Units(overrides[order[i]])}
MeantBy(d, order, n) ==
  {u \in DayUnits(d) :
     IF Covering(order, n, u) = {} THEN \E w \in BaseWindows(d) : u \in Units(w)
     ELSE overrides[order[Max(Covering(order, n, u))]].type = "EXTEND"}

LEMMA WindowsOfRows ==
  ASSUME TypeInv, HoursInv, NEW d \in Day
  PROVE  /\ BaseWindows(d) \subseteq Window /\ RowsApart(BaseWindows(d))
         /\ OpenIn(BaseWindows(d)) \subseteq DayUnits(d)
         /\ DayStart(d) \in Int /\ DayEnd(d) \in Int
  <1>1. PICK D : D = DayStart(d)
    OBVIOUS
  <1>2. D \in Int /\ DayLength \in Nat \ {0} /\ DayEnd(d) = D + DayLength
    <2>1. d \in Nat /\ DayLength \in Nat \ {0}
      BY SlotsAssumption DEF Day
    <2>2. QED BY <1>1, <2>1 DEF DayStart, DayEnd
  <1>3. ASSUME NEW w \in BaseWindows(d)
        PROVE  /\ w.from \in weekly /\ w.from.day = d % Week /\ w.from \in Row
               /\ w = [from |-> w.from, start |-> D + w.from.start, end |-> D + w.from.end]
               /\ w.from.start \in 0 .. DayLength /\ w.from.end \in 0 .. DayLength
    BY <1>1 DEF BaseWindows, TypeInv, Row
  <1>4. ASSUME NEW w \in BaseWindows(d)
        PROVE  /\ w \in Window /\ w.start = D + w.from.start /\ w.end = D + w.from.end
               /\ Units(w) \subseteq DayUnits(d)
    <2>1. w.start = D + w.from.start /\ w.end = D + w.from.end
      BY <1>3
    <2>2. w \in Window
      BY <1>2, <1>3 DEF Window
    <2>3. Units(w) \subseteq DayUnits(d)
      BY <1>1, <1>2, <1>3, <2>1 DEF Units, DayUnits
    <2>4. QED BY <2>1, <2>2, <2>3
  <1>5. ASSUME NEW x \in BaseWindows(d), NEW y \in BaseWindows(d), x # y, Overlap(x, y)
        PROVE  x.from.by # y.from.by
    <2>1. x.from # y.from
      BY <1>3, <1>5
    <2>2. Overlap(x.from, y.from)
      BY <1>2, <1>3, <1>4, <1>5 DEF Overlap
    <2>3. QED BY <1>3, <2>1, <2>2 DEF HoursInv, Disjoint
  <1>6. QED BY <1>1, <1>2, <1>4, <1>5 DEF OpenIn, RowsApart

\* The overrides that a query returns, and their parts of a day.
LEMMA OrderGives ==
  ASSUME HoursInv, NEW order \in Orders
  PROVE  /\ order \in Seq(Override) /\ Len(order) \in Nat /\ DOMAIN order = 1 .. Len(order)
         /\ \A n \in 1 .. Len(order) : order[n] \in Override /\ overrides[order[n]] \in Laid
  <1>1. Cardinality(Standing) \in Nat
    BY FS_CardinalityType DEF HoursInv
  <1>2. order \in [1 .. Cardinality(Standing) -> Standing]
    BY DEF Orders, SetToSeqs, Standing
  <1>3. \A o \in Standing : o \in Override /\ overrides[o] \in Laid
    BY DEF HoursInv, Standing
  <1>4. QED BY <1>1, <1>2, <1>3

LEMMA ClippedLies ==
  ASSUME TypeInv, HoursInv, NEW d \in Day, NEW o \in Override, overrides[o] \in Laid
  PROVE  /\ Clipped(o, d) \in Window /\ Clipped(o, d).from = o
         /\ Units(Clipped(o, d)) = Units(overrides[o]) \cap DayUnits(d)
  <1>1. DayStart(d) \in Int /\ DayEnd(d) \in Int
    BY WindowsOfRows
  <1>2. PICK a \in Int, b \in Int : overrides[o].start = a /\ overrides[o].end = b
    BY DEF Laid
  <1>3. Clipped(o, d) = [from |-> o, start |-> IF a > DayStart(d) THEN a ELSE DayStart(d),
                                     end |-> IF b < DayEnd(d) THEN b ELSE DayEnd(d)]
    BY <1>2 DEF Clipped
  <1>4. QED BY <1>1, <1>2, <1>3 DEF Window, Units, DayUnits

\* The windows of a day lie in it, open what is meant and overlap only as rows of two
\* updates or an override do, after any number of overrides.
LEMMA OverriddenAsMeant ==
  ASSUME TypeInv, HoursInv, NEW d \in Day, NEW order \in Orders
  PROVE  /\ Overridden(d, order) \subseteq Window /\ RowsApart(Overridden(d, order))
         /\ OpenIn(Overridden(d, order)) = MeantBy(d, order, Len(order))
  <1>1. /\ order \in Seq(Override) /\ Len(order) \in Nat
        /\ \A n \in 1 .. Len(order) : order[n] \in Override /\ overrides[order[n]] \in Laid
    BY OrderGives
  <1>2. PICK stage :
          /\ stage[0] = BaseWindows(d) /\ stage[Len(order)] = Overridden(d, order)
          /\ \A n \in 1 .. Len(order) : stage[n] = Applied(d, stage[n - 1], order[n])
    BY <1>1, WindowsUnfolded
  <1> DEFINE Good(n) == /\ stage[n] \subseteq Window /\ RowsApart(stage[n])
                        /\ OpenIn(stage[n]) = MeantBy(d, order, n)
             T == {n \in Nat : n <= Len(order) => Good(n)}
  <1>3. 0 \in T
    <2>1. \A u : Covering(order, 0, u) = {}
      BY DEF Covering
    <2>2. MeantBy(d, order, 0) = {u \in DayUnits(d) : \E w \in BaseWindows(d) : u \in Units(w)}
      BY <2>1 DEF MeantBy
    <2>3. \A u : u \in OpenIn(BaseWindows(d)) <=> \E w \in BaseWindows(d) : u \in Units(w)
      BY DEF OpenIn
    <2>4. OpenIn(BaseWindows(d)) = MeantBy(d, order, 0)
      BY <2>2, <2>3, WindowsOfRows
    <2>5. Good(0)
      BY <1>2, <2>4, WindowsOfRows
    <2>6. QED BY <2>5
  <1>4. ASSUME NEW m \in Nat, m \in T
        PROVE  m + 1 \in T
    <2>1. SUFFICES ASSUME m + 1 <= Len(order)
                   PROVE  Good(m + 1)
      OBVIOUS
    <2>2. Good(m)
      BY <1>1, <1>4, <2>1
    <2>3. PICK n : n = m + 1
      OBVIOUS
    <2>4. n \in 1 .. Len(order) /\ n - 1 = m /\ n \in Nat
      BY <1>1, <2>1, <2>3
    <2>5. PICK o \in Override : o = order[n] /\ overrides[o] \in Laid
      BY <1>1, <2>4
    <2>6. PICK c \in Window : /\ c = Clipped(o, d) /\ c.from = o
                              /\ Units(c) = Units(overrides[o]) \cap DayUnits(d)
      BY <2>5, ClippedLies
    <2>7. stage[n] = IF c.start >= c.end THEN stage[m]
                     ELSE IF overrides[o].type = "EXTEND" THEN stage[m] \cup {c}
                     ELSE UNION {Subtract(w, c) : w \in stage[m]}
      BY <1>2, <2>4, <2>5, <2>6 DEF Applied
    <2>8. c.start \in Int /\ c.end \in Int /\ (c.start >= c.end => Units(c) = {})
      BY DEF Window, Units
    \* What is meant changes in the hours that the override covers, and only there.
    <2>9. ASSUME NEW u \in DayUnits(d)
          PROVE  u \in MeantBy(d, order, n) <=>
                   IF u \in Units(c) THEN overrides[o].type = "EXTEND"
                   ELSE u \in MeantBy(d, order, m)
      <3>1. CASE u \in Units(c)
        <4>1. n \in Covering(order, n, u)
          BY <2>4, <2>5, <2>6, <3>1 DEF Covering
        <4>2. Covering(order, n, u) \in SUBSET (1 .. n)
          BY DEF Covering
        <4>3. Max(Covering(order, n, u)) = n
          <5>1. /\ Max(Covering(order, n, u)) \in Covering(order, n, u)
                /\ \A y \in Covering(order, n, u) : Max(Covering(order, n, u)) >= y
            BY <2>4, <4>1, <4>2, Greatest
          <5>2. Max(Covering(order, n, u)) \in 1 .. n /\ Max(Covering(order, n, u)) >= n
            BY <4>1, <4>2, <5>1
          <5>3. QED BY <2>4, <5>2
        <4>4. QED BY <2>5, <3>1, <4>1, <4>3 DEF MeantBy
      <3>2. CASE u \notin Units(c)
        <4>1. Covering(order, n, u) = Covering(order, m, u)
          <5>1. u \notin Units(overrides[order[n]])
            BY <2>5, <2>6, <3>2
          <5>2. \A i \in 1 .. n : i = n \/ i \in 1 .. m
            BY <2>4
          <5>3. 1 .. m \subseteq 1 .. n
            BY <2>4
          <5>4. QED BY <5>1, <5>2, <5>3 DEF Covering
        <4>2. QED BY <3>2, <4>1 DEF MeantBy
      <3>3. QED BY <3>1, <3>2
    <2>10. \A k : MeantBy(d, order, k) \subseteq DayUnits(d)
      BY DEF MeantBy
    <2>11. Units(c) \subseteq DayUnits(d)
      BY <2>6
    <2>12. overrides[o].type \in {"EXTEND", "BLOCK"}
      BY <2>5 DEF Laid
    <2>13. CASE c.start >= c.end
      <3>1. MeantBy(d, order, n) = MeantBy(d, order, m)
        BY <2>8, <2>9, <2>10, <2>13
      <3>2. QED BY <2>2, <2>3, <2>7, <2>13, <3>1
    <2>14. CASE c.start < c.end /\ overrides[o].type = "EXTEND"
      <3>1. stage[n] = stage[m] \cup {c}
        BY <2>7, <2>8, <2>14
      <3>2. MeantBy(d, order, n) = MeantBy(d, order, m) \cup Units(c)
        BY <2>9, <2>10, <2>11, <2>14
      <3>3. OpenIn(stage[m] \cup {c}) = OpenIn(stage[m]) \cup Units(c)
        BY <2>2, <2>14, OverrideAppliedExactly
      <3>4. RowsApart(stage[m] \cup {c})
        BY <2>2, <2>6, <2>14, AppliedKeepsApart
      <3>5. QED BY <2>2, <2>3, <3>1, <3>2, <3>3, <3>4
    <2>15. CASE c.start < c.end /\ overrides[o].type = "BLOCK"
      <3>1. stage[n] = UNION {Subtract(w, c) : w \in stage[m]}
        BY <2>7, <2>8, <2>15
      <3>2. MeantBy(d, order, n) = MeantBy(d, order, m) \ Units(c)
        BY <2>9, <2>10, <2>15
      <3>3. /\ UNION {Subtract(w, c) : w \in stage[m]} \subseteq Window
            /\ OpenIn(UNION {Subtract(w, c) : w \in stage[m]}) = OpenIn(stage[m]) \ Units(c)
        BY <2>2, <2>15, OverrideAppliedExactly
      <3>4. RowsApart(UNION {Subtract(w, c) : w \in stage[m]})
        BY <2>2, <2>15, AppliedKeepsApart
      <3>5. QED BY <2>2, <2>3, <3>1, <3>2, <3>3, <3>4
    <2>16. QED BY <2>8, <2>12, <2>13, <2>14, <2>15
  <1>5. Len(order) \in T
    <2> HIDE DEF T
    <2>1. QED BY <1>1, <1>3, <1>4, Counted
  <1>6. Good(Len(order))
    BY <1>1, <1>5
  <1>7. QED BY <1>2, <1>6

\* The windows that slots are cut from: these, or none without a weekly schedule.
LEMMA WindowsAsMeant ==
  ASSUME TypeInv, HoursInv, NEW d \in Day, NEW order \in Orders
  PROVE  /\ WindowsOf(d, order) \subseteq Window /\ RowsApart(WindowsOf(d, order))
         /\ OpenIn(WindowsOf(d, order)) =
              IF weekly = {} THEN {} ELSE MeantBy(d, order, Len(order))
  <1>1. CASE weekly = {}
    <2>1. WindowsOf(d, order) = {}
      BY <1>1 DEF WindowsOf
    <2>2. QED BY <1>1, <2>1 DEF RowsApart, OpenIn
  <1>2. CASE weekly # {}
    <2>1. WindowsOf(d, order) = Overridden(d, order)
      BY <1>2 DEF WindowsOf
    <2>2. QED BY <1>2, <2>1, OverriddenAsMeant
  <1>3. QED BY <1>1, <1>2

\* For overrides in whatever order the query returns them, as many as there are, across
\* midnight and across several windows, applyOverrides opens exactly the hours that the
\* vendor means: those of the last override that covers them, or of the weekly schedule.
\* It is not asked when there is no weekly schedule, and nothing is open then.
THEOREM HoursOpenAsMeant == Spec => []OpenAsMeant
  <1>1. UpdateInv /\ HoursInv => OpenAsMeant
    <2> SUFFICES ASSUME UpdateInv, HoursInv, NEW d \in Day, NEW order \in Orders
                 PROVE  UNION {Units(w) : w \in WindowsOf(d, order)} =
                          IF weekly = {} THEN {} ELSE MeantOpen(d, order)
      BY DEF OpenAsMeant
    <2>1. UNION {Units(w) : w \in WindowsOf(d, order)} =
            IF weekly = {} THEN {} ELSE MeantBy(d, order, Len(order))
      BY WindowsAsMeant DEF OpenIn, UpdateInv
    <2>2. DOMAIN order = 1 .. Len(order)
      BY OrderGives
    <2>3. MeantBy(d, order, Len(order)) = MeantOpen(d, order)
      BY <2>2 DEF MeantBy, MeantOpen, Covering, DayUnits
    <2>4. QED BY <2>1, <2>3
  <1>2. QED BY <1>1, UpdateInvInductive, HoursInvInductive, PTL DEF Spec

\* Within a window slots keep the buffer of the service between them; one that starts less
\* than a buffer after another ends is at a seam, of a window that starts that soon.
THEOREM SlotsKeepBufferButAtSeams == Spec => []BufferMissedOnlyAtSeams
  <1>1. UpdateInv /\ HoursInv => BufferMissedOnlyAtSeams
    <2> SUFFICES ASSUME UpdateInv, HoursInv, NEW d \in Day, NEW order \in Orders,
                        NEW s \in DaySlots(d, order), NEW t \in DaySlots(d, order),
                        s # t, s.start <= t.start, t.start < s.end + Buffer
                 PROVE  s.window # t.window /\ t.window.start < s.window.end + Buffer
      BY DEF BufferMissedOnlyAtSeams
    <2>1. WindowsOf(d, order) \in SUBSET Window
      BY WindowsAsMeant DEF UpdateInv
    <2>2. QED BY <2>1, SlotsKeepBuffer DEF DaySlots
  <1>2. QED BY <1>1, UpdateInvInductive, HoursInvInductive, PTL DEF Spec

\* A day offers the same time twice only where an extension was laid over open hours or two
\* replacements of the schedule that were in progress together have both left their rows.
THEOREM SlotsOverlapOnlyByExtension == Spec => []OverlapOnlyByExtension
  <1>1. UpdateInv /\ HoursInv => OverlapOnlyByExtension
    <2> SUFFICES ASSUME UpdateInv, HoursInv, NEW d \in Day, NEW order \in Orders,
                        NEW s \in DaySlots(d, order), NEW t \in DaySlots(d, order),
                        s # t, Overlap(s, t)
                 PROVE  \/ s.window.from \in Override \/ t.window.from \in Override
                        \/ s.window.from.by # t.window.from.by
      BY DEF OverlapOnlyByExtension
    <2>1. WindowsOf(d, order) \in SUBSET Window /\ RowsApart(WindowsOf(d, order))
      BY WindowsAsMeant DEF UpdateInv
    <2>2. PICK w \in WindowsOf(d, order) : s \in SlotsIn(w)
      BY DEF DaySlots
    <2>3. PICK x \in WindowsOf(d, order) : t \in SlotsIn(x)
      BY DEF DaySlots
    <2>4. /\ s.window = w /\ s.start \in Int /\ s.end = s.start + Duration
          /\ w.start <= s.start /\ s.end <= w.end
          /\ t.window = x /\ t.start \in Int /\ t.end = t.start + Duration
          /\ x.start <= t.start /\ t.end <= x.end
      BY <2>1, <2>2, <2>3, SlotsOfWindow
    <2>5. /\ Duration \in Nat /\ Buffer \in Nat
          /\ w.start \in Int /\ w.end \in Int /\ x.start \in Int /\ x.end \in Int
      BY <2>1, SlotsAssumption DEF Window
    <2>6. w # x
      <3>1. SUFFICES ASSUME w = x
                     PROVE  FALSE
        OBVIOUS
      <3>2. s.end + Buffer <= t.start \/ t.end + Buffer <= s.start
        BY <2>1, <2>2, <2>3, <2>4, <3>1, SlotsOfWindow
      <3>3. QED BY <2>4, <2>5, <3>2 DEF Overlap
    <2>7. Overlap(w, x)
      BY <2>4, <2>5 DEF Overlap
    <2>8. QED BY <2>1, <2>4, <2>6, <2>7 DEF RowsApart
  <1>2. QED BY <1>1, UpdateInvInductive, HoursInvInductive, PTL DEF Spec

-----------------------------------------------------------------------------
(***************************************************************************)
(* The images of a service.                                                *)
(***************************************************************************)

Writings == UNION {[D -> Int \cup {None}] : D \in SUBSET Image}

ImagesType ==
  /\ position \in [Image -> Int \cup {None}]
  /\ task \in [Req -> Task \cup {None}]
  /\ plan \in [Req -> Seq(Image \X Int)]
  /\ written \in [Req -> Writings]
  /\ holds \in [Req -> SUBSET Image]
  /\ disturbed \in BOOLEAN

\* A transaction holds the rows it has written, and no row is held twice or gone while it
\* is held.
LocksInv ==
  /\ \A r \in Req : DOMAIN written[r] \subseteq holds[r] /\ holds[r] \subseteq Rows
  /\ \A r, q \in Req : r # q => holds[r] \cap holds[q] = {}

\* What a transaction has written or is going to write: v for image i.
Target(r, i, v) ==
  \/ i \in DOMAIN written[r] /\ written[r][i] = v
  \/ \E k \in DOMAIN plan[r] : plan[r][k] = <<i, v>>
Touched(r) == DOMAIN written[r] \cup {plan[r][k][1] : k \in DOMAIN plan[r]}
\* The position of image i when the transaction has committed.
Final(r, i, v) == Target(r, i, v) \/ (i \notin Touched(r) /\ position[i] = v)

\* A transaction that is going to update a row that is gone cannot commit.
Doomed(r) == \E k \in DOMAIN plan[r] : plan[r][k][1] \notin Rows

\* The images are in order, or will be when r has committed, which nothing overlaps.
Sure(r) == ~disturbed \/ task[r].alone

\* f numbers the elements of S from 0, without gap or repetition.
Numbers(f, S) ==
  /\ \A i \in S : f[i] \in 0 .. Cardinality(S) - 1
  /\ \A i, j \in S : i # j => f[i] # f[j]
  /\ \A m \in 0 .. Cardinality(S) - 1 : \E i \in S : f[i] = m

\* What is in the hands of a request at each of its stages.
StageOk(r) ==
  /\ ~Doing(r, "write") => plan[r] = <<>>
  /\ task[r] = None \/ task[r].op \in {"create", "place", "delete"} => DOMAIN written[r] = {}
  /\ Doing(r, "list") => task[r].image # None /\ DOMAIN written[r] = {task[r].image}
  /\ (Doing(r, "list") \/ Doing(r, "write")) /\ task[r].image # None =>
       Target(r, task[r].image, None) /\ task[r].image \in DOMAIN written[r]
  /\ Doing(r, "write") =>
       /\ \A i, v : Target(r, i, v) => IF i = task[r].image THEN v = None ELSE v \in Nat
       /\ \A i, v, w : Target(r, i, v) /\ Target(r, i, w) => v = w

\* A reordering numbers the rows it touches, and they are all there are.
ReorderOk(r) ==
  Doing(r, "write") /\ task[r].image = None =>
    /\ \E f : Numbers(f, Touched(r)) /\ \A i \in Touched(r) : Target(r, i, f[i])
    /\ Sure(r) => Rows \subseteq Touched(r)

\* A deletion numbers the rows that stay, and touches all that stand after the deleted one.
DeleteOk(r) ==
  Doing(r, "write") /\ task[r].image # None /\ Sure(r) /\ ~Doomed(r) =>
    /\ \E f : /\ Numbers(f, Rows \ {task[r].image})
              /\ \A i \in Rows \ {task[r].image} : Final(r, i, f[i])
    /\ ~disturbed =>
         \A j \in Rows : position[j] > position[task[r].image] => j \in Touched(r)

AloneOk(r) ==
  task[r] # None /\ task[r].alone =>
    /\ \A q \in Req \ {r} : task[q] = None
    /\ task[r].op = "create" => task[r].place = Cardinality(Rows)

RequestOk(r) == StageOk(r) /\ ReorderOk(r) /\ DeleteOk(r)

InOrder == ~disturbed => Numbers(position, Rows)

ImagesInv ==
  /\ ImagesType /\ LocksInv /\ InOrder
  /\ \A r \in Req : RequestOk(r) /\ AloneOk(r)

LEMMA ImageNames ==
  /\ IsFiniteSet(Image) /\ IsFiniteSet(Req) /\ Req # {} /\ None \notin Int /\ None \notin Task
  /\ None \notin Image
  /\ MaxImages \in Nat \ {0} /\ Existing \in 0 .. MaxImages /\ Existing <= Cardinality(Image)
  /\ Positions \subseteq Int
  BY ServiceImagesAssumption

LEMMA RowsAre ==
  ASSUME ImagesType
  PROVE  /\ Rows \in SUBSET Image /\ IsFiniteSet(Rows) /\ Cardinality(Rows) \in Nat
         /\ \A i \in Image : position[i] \in Int \cup {None} /\ (i \in Rows <=> position[i] # None)
         /\ \A i \in Rows : position[i] \in Int
  <1>1. Rows \in SUBSET Image
    BY DEF Rows
  <1>2. IsFiniteSet(Rows) /\ Cardinality(Rows) \in Nat
    BY <1>1, ImageNames, FS_Subset, FS_CardinalityType
  <1>3. QED BY <1>1, <1>2 DEF ImagesType, Rows

\* A numbering of a finite set, from any bound, is up to its number of elements.
LEMMA NumbersIf ==
  ASSUME NEW S, IsFiniteSet(S), NEW n \in Nat, NEW f,
         \A i \in S : f[i] \in 0 .. n - 1,
         \A i, j \in S : i # j => f[i] # f[j],
         \A m \in 0 .. n - 1 : \E i \in S : f[i] = m
  PROVE  Numbers(f, S) /\ Cardinality(S) = n
  <1> DEFINE g == [i \in S |-> f[i]]
  <1>1. g \in Bijection(S, 0 .. n - 1)
    BY DEF Bijection, Injection, Surjection, IsInjective
  <1> HIDE DEF g
  <1>2. ExistsBijection(S, 0 .. n - 1)
    BY <1>1 DEF ExistsBijection
  <1>3. Cardinality(0 .. n - 1) = Cardinality(S)
    BY <1>2, FS_Bijection
  <1>4. Cardinality(0 .. n - 1) = n
    <2>1. Cardinality(0 .. n - 1) = IF 0 > n - 1 THEN 0 ELSE n - 1 - 0 + 1
      BY FS_Interval
    <2>2. QED BY <2>1
  <1>5. QED BY <1>3, <1>4 DEF Numbers

\* A sequence of all elements of a finite set names each of them once.
LEMMA Listed ==
  ASSUME NEW S, IsFiniteSet(S), NEW s \in SetToSeqs(S)
  PROVE  /\ s \in Seq(S) /\ Len(s) = Cardinality(S) /\ Len(s) \in Nat
         /\ DOMAIN s = 1 .. Len(s) /\ \A k \in 1 .. Len(s) : s[k] \in S
         /\ \A k, l \in 1 .. Len(s) : k # l => s[k] # s[l]
         /\ \A i \in S : \E k \in 1 .. Len(s) : s[k] = i
         /\ Range(s) = S
  <1>1. PICK n \in Nat : n = Cardinality(S)
    BY FS_CardinalityType
  <1>2. s \in [1 .. n -> S] /\ \A k, l \in 1 .. n : k # l => s[k] # s[l]
    BY <1>1 DEF SetToSeqs
  <1>3. s \in Injection(1 .. n, S)
    BY <1>2 DEF Injection, IsInjective
  <1>4. Cardinality(1 .. n) = n
    <2>1. Cardinality(1 .. n) = IF 1 > n THEN 0 ELSE n - 1 + 1
      BY FS_Interval
    <2>2. QED BY <2>1
  <1>5. s \in Surjection(1 .. n, S)
    BY <1>1, <1>3, <1>4, FS_Injection
  <1>6. \A i \in S : \E k \in 1 .. n : s[k] = i
    BY <1>5 DEF Surjection
  <1>7. s \in Seq(S) /\ Len(s) = n /\ DOMAIN s = 1 .. n
    BY <1>2
  <1>8. QED BY <1>1, <1>2, <1>6, <1>7 DEF Range

\* Request q is where it was; at most it is no longer alone.
Same(q) ==
  /\ task'[q] = None <=> task[q] = None
  /\ task[q] # None => /\ task'[q].op = task[q].op /\ task'[q].image = task[q].image
                       /\ task'[q].place = task[q].place /\ (task'[q].alone => task[q].alone)
  /\ plan'[q] = plan[q] /\ written'[q] = written[q]

LEMMA StageKept ==
  ASSUME NEW q \in Req, Same(q), StageOk(q)
  PROVE  StageOk(q)'
  <1>1. \A op : Doing(q, op)' <=> Doing(q, op)
    BY DEF Same, Doing
  <1>2. \A i, v : Target(q, i, v)' <=> Target(q, i, v)
    BY DEF Same, Target
  <1>3. QED BY <1>1, <1>2 DEF Same, StageOk, Doing

LEMMA RequestKept ==
  ASSUME NEW q \in Req, Same(q), RequestOk(q), UNCHANGED <<position, disturbed>>
  PROVE  RequestOk(q)'
  <1>1. \A op : Doing(q, op)' <=> Doing(q, op)
    BY DEF Same, Doing
  <1>2. /\ \A i, v : Target(q, i, v)' <=> Target(q, i, v)
        /\ Touched(q)' = Touched(q) /\ Rows' = Rows
    BY DEF Same, Target, Touched, Rows
  <1>3. /\ \A i, v : Final(q, i, v)' <=> Final(q, i, v)
        /\ Doomed(q)' <=> Doomed(q)
    BY <1>2 DEF Same, Final, Doomed
  <1>4. Doing(q, "write") /\ Sure(q)' => Sure(q)
    BY DEF Same, Sure, Doing
  <1>5. StageOk(q)'
    BY StageKept DEF RequestOk
  <1>6. Doing(q, "write") => task'[q].image = task[q].image
    BY DEF Same, Doing
  <1>7. ReorderOk(q)'
    <2>1. SUFFICES ASSUME Doing(q, "write"), task[q].image = None
                   PROVE  /\ \E f : Numbers(f, Touched(q)) /\ \A i \in Touched(q) : Target(q, i, f[i])'
                          /\ Sure(q)' => Rows \subseteq Touched(q)
      BY <1>1, <1>2, <1>6 DEF ReorderOk, Numbers
    <2>2. QED BY <1>2, <1>4, <2>1 DEF ReorderOk, RequestOk
  <1>8. DeleteOk(q)'
    <2>1. SUFFICES ASSUME Doing(q, "write"), task[q].image # None, Sure(q)', ~Doomed(q)
                   PROVE  /\ \E f : /\ Numbers(f, Rows \ {task[q].image})
                                    /\ \A i \in Rows \ {task[q].image} : Final(q, i, f[i])'
                          /\ ~disturbed => \A j \in Rows : position[j] > position[task[q].image]
                                                            => j \in Touched(q)
      BY <1>1, <1>2, <1>3, <1>6 DEF DeleteOk, Numbers
    <2>2. QED BY <1>3, <1>4, <2>1 DEF DeleteOk, RequestOk
  <1>9. QED BY <1>5, <1>7, <1>8 DEF RequestOk

\* A request begins.
LEMMA BeginDone ==
  ASSUME ImagesType, NEW r \in Req, NEW op, NEW image, NEW place, Begin(r, op, image, place),
         [op |-> op, image |-> image, place |-> place, alone |-> TRUE] \in Task
  PROVE  /\ task[r] = None /\ task' \in [Req -> Task \cup {None}]
         /\ task'[r] # None /\ task'[r].op = op /\ task'[r].image = image /\ task'[r].place = place
         /\ task'[r].alone => \A q \in Req : task[q] = None
         /\ \A q \in Req \ {r} : /\ task'[q] = None <=> task[q] = None
                                 /\ task[q] # None =>
                                      /\ task'[q].op = task[q].op /\ task'[q].image = task[q].image
                                      /\ task'[q].place = task[q].place /\ ~task'[q].alone
         /\ UNCHANGED <<position, written, holds, disturbed>>
  <1> DEFINE new == [op |-> op, image |-> image, place |-> place,
                     alone |-> \A p \in Req : task[p] = None]
  <1>1. /\ task[r] = None
        /\ task' = [q \in Req |-> IF q = r THEN new
                                  ELSE IF task[q] = None THEN None
                                  ELSE [task[q] EXCEPT !.alone = FALSE]]
        /\ UNCHANGED <<position, written, holds, disturbed>>
    BY DEF Begin
  <1>2. /\ new \in Task /\ new.op = op /\ new.image = image /\ new.place = place
        /\ new.alone => \A q \in Req : task[q] = None
    BY DEF Task
  <1>3. ASSUME NEW t \in Task
        PROVE  /\ [t EXCEPT !.alone = FALSE] \in Task
               /\ [t EXCEPT !.alone = FALSE].op = t.op /\ [t EXCEPT !.alone = FALSE].image = t.image
               /\ [t EXCEPT !.alone = FALSE].place = t.place /\ ~[t EXCEPT !.alone = FALSE].alone
    BY DEF Task
  <1> HIDE DEF new
  <1>4. \A q \in Req : task[q] \in Task \cup {None}
    BY DEF ImagesType
  <1>5. ASSUME NEW q \in Req \ {r}
        PROVE  /\ task'[q] \in Task \cup {None}
               /\ task'[q] = None <=> task[q] = None
               /\ task[q] # None =>
                    /\ task'[q].op = task[q].op /\ task'[q].image = task[q].image
                    /\ task'[q].place = task[q].place /\ ~task'[q].alone
    <2>1. CASE task[q] = None
      BY <1>1, <2>1
    <2>2. CASE task[q] # None
      <3>1. PICK t \in Task : t = task[q]
        BY <1>4, <2>2
      <3>2. task'[q] = [t EXCEPT !.alone = FALSE]
        BY <1>1, <2>2, <3>1
      <3>3. QED BY <1>3, <2>2, <3>1, <3>2, ImageNames
    <2>3. QED BY <2>1, <2>2
  <1>6. task'[r] = new
    BY <1>1
  <1>7. task' \in [Req -> Task \cup {None}]
    BY <1>1, <1>2, <1>5, <1>6
  <1>8. QED BY <1>1, <1>2, <1>5, <1>6, <1>7, ImageNames

\* Of the other requests nothing changes but that none is alone any more.
LEMMA BeginKeeps ==
  ASSUME ImagesInv, NEW r \in Req, NEW op, NEW image, NEW place, Begin(r, op, image, place),
         [op |-> op, image |-> image, place |-> place, alone |-> TRUE] \in Task,
         \A q \in Req \ {r} : plan'[q] = plan[q], plan' \in [Req -> Seq(Image \X Int)]
  PROVE  /\ ImagesType' /\ LocksInv' /\ InOrder'
         /\ \A q \in Req \ {r} : RequestOk(q)' /\ AloneOk(q)'
         /\ task'[r].alone => \A q \in Req \ {r} : task'[q] = None
  <1>1. ImagesType
    BY DEF ImagesInv
  <1>2. /\ task' \in [Req -> Task \cup {None}] /\ UNCHANGED <<position, written, holds, disturbed>>
        /\ task'[r].alone => \A q \in Req : task[q] = None
        /\ \A q \in Req \ {r} : /\ task'[q] = None <=> task[q] = None
                                /\ task[q] # None =>
                                     /\ task'[q].op = task[q].op /\ task'[q].image = task[q].image
                                     /\ task'[q].place = task[q].place /\ ~task'[q].alone
    BY <1>1, BeginDone
  <1>3. ImagesType'
    BY <1>1, <1>2 DEF ImagesType
  <1>4. Rows' = Rows
    BY <1>2 DEF Rows
  <1>5. LocksInv' /\ InOrder'
    BY <1>2, <1>4 DEF ImagesInv, LocksInv, InOrder, Numbers
  <1>6. ASSUME NEW q \in Req \ {r}
        PROVE  RequestOk(q)' /\ AloneOk(q)'
    <2>1. Same(q)
      BY <1>2 DEF Same
    <2>2. RequestOk(q)'
      BY <1>2, <2>1, RequestKept DEF ImagesInv
    <2>3. AloneOk(q)'
      BY <1>2 DEF AloneOk
    <2>4. QED BY <2>2, <2>3
  <1>7. QED BY <1>2, <1>3, <1>5, <1>6

\* A request ends.
LEMMA EndDone ==
  ASSUME ImagesType, NEW r \in Req, End(r)
  PROVE  /\ task' \in [Req -> Task \cup {None}] /\ plan' \in [Req -> Seq(Image \X Int)]
         /\ written' \in [Req -> Writings] /\ holds' \in [Req -> SUBSET Image]
         /\ task'[r] = None /\ plan'[r] = <<>> /\ DOMAIN written'[r] = {} /\ holds'[r] = {}
         /\ \A q \in Req \ {r} : Same(q) /\ task'[q] = task[q] /\ holds'[q] = holds[q]
  <1> DEFINE nothing == [i \in {} |-> 0]
  <1>1. /\ task' = [task EXCEPT ![r] = None] /\ plan' = [plan EXCEPT ![r] = <<>>]
        /\ written' = [written EXCEPT ![r] = nothing] /\ holds' = [holds EXCEPT ![r] = {}]
    BY DEF End
  <1>2. nothing \in Writings /\ DOMAIN nothing = {}
    <2>1. nothing \in [{} -> Int \cup {None}] /\ {} \in SUBSET Image
      OBVIOUS
    <2>2. QED BY <2>1 DEF Writings
  <1>3. <<>> \in Seq(Image \X Int)
    OBVIOUS
  <1> HIDE DEF nothing
  <1>4. QED BY <1>1, <1>2, <1>3 DEF ImagesType, Same

LEMMA Begins ==
  ASSUME ImagesInv, NEW r \in Req, NEW op \in {"create", "place", "delete"},
         NEW image \in Image \cup {None}, NEW place \in Int \cup {None},
         Begin(r, op, image, place), UNCHANGED plan, op = "create" => place = Cardinality(Rows)
  PROVE  ImagesInv'
  <1>1. [op |-> op, image |-> image, place |-> place, alone |-> TRUE] \in Task
    BY DEF Task
  <1>2. ImagesType /\ StageOk(r)
    BY DEF ImagesInv, RequestOk
  <1>3. /\ task[r] = None /\ task'[r] # None /\ task'[r].op = op /\ task'[r].place = place
        /\ UNCHANGED <<position, written>>
    BY <1>1, <1>2, BeginDone
  <1>4. /\ ImagesType' /\ LocksInv' /\ InOrder'
        /\ \A q \in Req \ {r} : RequestOk(q)' /\ AloneOk(q)'
        /\ task'[r].alone => \A q \in Req \ {r} : task'[q] = None
    BY <1>1, <1>2, BeginKeeps DEF ImagesType
  <1>5. RequestOk(r)'
    BY <1>2, <1>3 DEF RequestOk, StageOk, ReorderOk, DeleteOk, Doing
  <1>6. AloneOk(r)'
    <2>1. Rows' = Rows
      BY <1>3 DEF Rows
    <2>2. QED BY <1>3, <1>4, <2>1 DEF AloneOk
  <1>7. QED BY <1>4, <1>5, <1>6 DEF ImagesInv

LEMMA CreateReadKeeps ==
  ASSUME ImagesInv, NEW r \in Req, NEW given \in Positions \cup {None}, CreateRead(r, given)
  PROVE  ImagesInv'
  <1>1. PICK op \in {"create", "place"} : op = IF given = None THEN "create" ELSE "place"
    OBVIOUS
  <1>2. PICK place \in Int : place = IF given = None THEN Cardinality(Rows) ELSE given
    <2>1. Cardinality(Rows) \in Int
      BY RowsAre DEF ImagesInv
    <2>2. QED BY <2>1, ImageNames
  <1>3. Begin(r, op, None, place) /\ UNCHANGED plan
    BY <1>1, <1>2 DEF CreateRead
  <1>4. op = "create" => place = Cardinality(Rows)
    BY <1>1, <1>2
  <1>5. QED BY <1>3, <1>4, Begins

LEMMA DeleteReadKeeps ==
  ASSUME ImagesInv, NEW r \in Req, NEW i \in Image, DeleteRead(r, i)
  PROVE  ImagesInv'
  <1>1. Begin(r, "delete", i, None) /\ UNCHANGED plan
    BY DEF DeleteRead
  <1>2. QED BY <1>1, Begins

\* A plan that numbers a set of rows from 0: row c[k] gets k - 1.
LEMMA PlanNumbers ==
  ASSUME NEW S, IsFiniteSet(S), NEW n \in Nat, NEW c,
         \A k \in 1 .. n : c[k] \in S,
         \A k, l \in 1 .. n : k # l => c[k] # c[l],
         \A i \in S : \E k \in 1 .. n : c[k] = i
  PROVE  \E f : Numbers(f, S) /\ \A k \in 1 .. n : f[c[k]] = k - 1
  <1> DEFINE f == [i \in S |-> (CHOOSE k \in 1 .. n : c[k] = i) - 1]
  <1>1. \A k \in 1 .. n : f[c[k]] = k - 1
    OBVIOUS
  <1> HIDE DEF f
  <1>2. \A i \in S : f[i] \in 0 .. n - 1
    BY <1>1
  <1>3. \A i, j \in S : i # j => f[i] # f[j]
    BY <1>1
  <1>4. \A m \in 0 .. n - 1 : \E i \in S : f[i] = m
    <2>1. ASSUME NEW m \in 0 .. n - 1
          PROVE  m + 1 \in 1 .. n /\ (m + 1) - 1 = m
      OBVIOUS
    <2>2. QED BY <1>1, <2>1
  <1>5. Numbers(f, S)
    BY <1>2, <1>3, <1>4, NumbersIf
  <1>6. QED BY <1>1, <1>5

LEMMA ReorderReadKeeps ==
  ASSUME ImagesInv, NEW r \in Req, NEW S \in SUBSET Rows, NEW named \in SetToSeqs(S),
         ReorderRead(r, named)
  PROVE  ImagesInv'
  <1>1. ImagesType /\ StageOk(r)
    BY DEF ImagesInv, RequestOk
  <1>2. PICK s \in Rest(named) :
          plan' = [plan EXCEPT ![r] = Numbered(named, 0) \o Numbered(s, Len(named))]
    BY DEF ReorderRead
  <1>3. IsFiniteSet(S) /\ IsFiniteSet(Rows \ S) /\ IsFiniteSet(Rows) /\ S \subseteq Rows
        /\ Rows \in SUBSET Image
    BY <1>1, RowsAre, FS_Subset
  <1>4. /\ Len(named) \in Nat /\ DOMAIN named = 1 .. Len(named)
        /\ \A k \in 1 .. Len(named) : named[k] \in S
        /\ \A k, l \in 1 .. Len(named) : k # l => named[k] # named[l]
        /\ \A i \in S : \E k \in 1 .. Len(named) : named[k] = i
        /\ Range(named) = S
    BY <1>3, Listed
  <1>5. /\ Len(s) \in Nat /\ DOMAIN s = 1 .. Len(s)
        /\ \A k \in 1 .. Len(s) : s[k] \in Rows \ S
        /\ \A k, l \in 1 .. Len(s) : k # l => s[k] # s[l]
        /\ \A i \in Rows \ S : \E k \in 1 .. Len(s) : s[k] = i
    <2>1. s \in SetToSeqs(Rows \ S)
      BY <1>4 DEF Rest, Sorted
    <2>2. QED BY <1>3, <2>1, Listed
  <1>6. PICK a \in Nat, n \in Nat : a = Len(named) /\ n = Len(named) + Len(s)
    <2>1. Len(named) + Len(s) \in Nat
      BY <1>4, <1>5
    <2>2. QED BY <1>4, <2>1
  <1>7. PICK c : c = [k \in 1 .. n |-> IF k <= a THEN named[k] ELSE s[k - a]]
    OBVIOUS
  <1>8. PICK p : p = Numbered(named, 0) \o Numbered(s, a)
    OBVIOUS
  <1>9. p \in Seq(Image \X Int) /\ DOMAIN p = 1 .. n /\ \A k \in 1 .. n : p[k] = <<c[k], k - 1>>
    <2>1. /\ Numbered(named, 0) \in Seq(Image \X Int) /\ Len(Numbered(named, 0)) = a
          /\ \A k \in 1 .. a : Numbered(named, 0)[k] = <<named[k], k - 1>>
      <3>1. Numbered(named, 0) = [k \in 1 .. a |-> <<named[k], 0 + k - 1>>]
        BY <1>4, <1>6 DEF Numbered
      <3>2. \A k \in 1 .. a : <<named[k], 0 + k - 1>> \in Image \X Int /\ 0 + k - 1 = k - 1
        BY <1>3, <1>4, <1>6
      <3>3. QED BY <3>1, <3>2
    <2>2. /\ Numbered(s, a) \in Seq(Image \X Int) /\ Len(Numbered(s, a)) = n - a
          /\ \A k \in 1 .. n - a : Numbered(s, a)[k] = <<s[k], a + k - 1>>
      <3>1. Numbered(s, a) = [k \in 1 .. n - a |-> <<s[k], a + k - 1>>]
        BY <1>5, <1>6 DEF Numbered
      <3>2. \A k \in 1 .. n - a : <<s[k], a + k - 1>> \in Image \X Int
        BY <1>3, <1>5, <1>6
      <3>3. n - a \in Nat
        BY <1>4, <1>5, <1>6
      <3>4. QED BY <3>1, <3>2, <3>3
    <2>3. p \in Seq(Image \X Int) /\ Len(p) = n
      BY <1>8, <2>1, <2>2, ConcatProperties
    <2>4. ASSUME NEW k \in 1 .. n
          PROVE  p[k] = <<c[k], k - 1>>
      <3>1. CASE k <= a
        BY <1>7, <1>8, <2>1, <2>2, <3>1, ConcatProperties
      <3>2. CASE ~(k <= a)
        <4>1. k - a \in 1 .. n - a /\ k = a + (k - a) /\ a + (k - a) - 1 = k - 1
          BY <1>6, <3>2
        <4>2. p[k] = Numbered(s, a)[k - a]
          <5>1. k \in 1 .. Len(Numbered(named, 0)) + Len(Numbered(s, a))
            BY <1>6, <2>1, <2>2
          <5>2. p[k] = IF k <= Len(Numbered(named, 0)) THEN Numbered(named, 0)[k]
                       ELSE Numbered(s, a)[k - Len(Numbered(named, 0))]
            BY <1>8, <2>1, <2>2, <5>1, ConcatProperties
          <5>3. QED BY <2>1, <3>2, <5>2
        <4>3. QED BY <1>7, <2>2, <3>2, <4>1, <4>2
      <3>3. QED BY <3>1, <3>2
    <2>5. QED BY <2>3, <2>4
  <1>10. /\ \A k \in 1 .. n : c[k] \in Rows
         /\ \A k, l \in 1 .. n : k # l => c[k] # c[l]
         /\ \A i \in Rows : \E k \in 1 .. n : c[k] = i
    <2>1. \A k \in 1 .. n : k <= a => k \in 1 .. a /\ c[k] = named[k] /\ c[k] \in S
      BY <1>4, <1>6, <1>7
    <2>2. \A k \in 1 .. n : ~(k <= a) => /\ k - a \in 1 .. Len(s) /\ c[k] = s[k - a]
                                         /\ c[k] \in Rows \ S
      BY <1>5, <1>6, <1>7
    <2>3. ASSUME NEW k \in 1 .. n, NEW l \in 1 .. n, k # l
          PROVE  c[k] # c[l]
      <3>1. CASE k <= a /\ l <= a
        BY <1>4, <1>6, <2>1, <2>3, <3>1
      <3>2. CASE ~(k <= a) /\ ~(l <= a)
        <4>1. k - a # l - a
          BY <2>3
        <4>2. QED BY <1>5, <2>2, <3>2, <4>1
      <3>3. QED BY <2>1, <2>2, <3>1, <3>2
    <2>4. ASSUME NEW i \in Rows
          PROVE  \E k \in 1 .. n : c[k] = i
      <3>1. CASE i \in S
        <4>1. PICK k \in 1 .. a : named[k] = i
          BY <1>4, <1>6, <3>1
        <4>2. k \in 1 .. n /\ c[k] = i
          BY <1>4, <1>5, <1>6, <1>7, <4>1
        <4>3. QED BY <4>2
      <3>2. CASE i \notin S
        <4>1. PICK k \in 1 .. Len(s) : s[k] = i
          BY <1>5, <3>2
        <4>2. a + k \in 1 .. n /\ ~(a + k <= a) /\ (a + k) - a = k
          BY <1>4, <1>5, <1>6
        <4>3. c[a + k] = i
          BY <1>7, <4>1, <4>2
        <4>4. QED BY <4>2, <4>3
      <3>3. QED BY <3>1, <3>2
    <2>5. QED BY <1>3, <2>1, <2>2, <2>3, <2>4
  <1>11. PICK f : Numbers(f, Rows) /\ \A k \in 1 .. n : f[c[k]] = k - 1
    <2>1. IsFiniteSet(Rows) /\ n \in Nat
      BY <1>3
    <2>2. QED BY <2>1, <1>10, PlanNumbers
  <1>12. Begin(r, "write", None, None)
    BY DEF ReorderRead
  <1>13. [op |-> "write", image |-> None, place |-> None, alone |-> TRUE] \in Task
    BY DEF Task
  <1>14. /\ task[r] = None /\ task'[r] # None /\ task'[r].op = "write" /\ task'[r].image = None
         /\ UNCHANGED <<position, written, disturbed>>
    BY <1>1, <1>12, <1>13, BeginDone
  <1>15. /\ plan' \in [Req -> Seq(Image \X Int)] /\ plan'[r] = p
         /\ \A q \in Req \ {r} : plan'[q] = plan[q]
    BY <1>1, <1>2, <1>6, <1>8, <1>9 DEF ImagesType
  <1>16. /\ ImagesType' /\ LocksInv' /\ InOrder'
         /\ \A q \in Req \ {r} : RequestOk(q)' /\ AloneOk(q)'
         /\ task'[r].alone => \A q \in Req \ {r} : task'[q] = None
    BY <1>12, <1>13, <1>15, BeginKeeps
  <1>17. DOMAIN written'[r] = {} /\ Rows' = Rows
    BY <1>1, <1>14 DEF StageOk, Rows
  <1>18. \A i, v : Target(r, i, v)' <=> \E k \in 1 .. n : i = c[k] /\ v = k - 1
    <2>1. SUFFICES ASSUME NEW i, NEW v
                   PROVE  Target(r, i, v)' <=> \E k \in 1 .. n : i = c[k] /\ v = k - 1
      OBVIOUS
    <2>2. Target(r, i, v)' <=> \E k \in 1 .. n : p[k] = <<i, v>>
      BY <1>9, <1>15, <1>17 DEF Target
    <2>3. \A k \in 1 .. n : p[k] = <<i, v>> <=> i = c[k] /\ v = k - 1
      <3>1. \A k \in 1 .. n : p[k] = <<c[k], k - 1>>
        BY <1>9
      <3>2. QED BY <3>1
    <2>4. QED BY <2>2, <2>3
  <1>19. Touched(r)' = Rows
    <2>1. Touched(r)' = {plan'[r][k][1] : k \in 1 .. n}
      BY <1>9, <1>15, <1>17 DEF Touched
    <2>2. \A k \in 1 .. n : plan'[r][k][1] = c[k]
      BY <1>9, <1>15
    <2>3. QED BY <1>10, <2>1, <2>2
  <1>20. StageOk(r)'
    <2>1. Doing(r, "write")' /\ ~Doing(r, "list")'
      BY <1>14 DEF Doing
    <2>2. \A i, v : Target(r, i, v)' => v \in Nat /\ i # None
      <3>1. \A k \in 1 .. n : k - 1 \in Nat
        OBVIOUS
      <3>2. \A i \in Rows : i # None
        <4>1. SUFFICES ASSUME None \in Rows
                       PROVE  FALSE
          OBVIOUS
        <4>2. QED BY <1>3, <4>1, ImageNames
      <3>3. QED BY <1>10, <1>18, <3>1, <3>2
    <2>3. \A i, v, w : Target(r, i, v)' /\ Target(r, i, w)' => v = w
      BY <1>10, <1>18
    <2>4. QED BY <1>14, <1>17, <2>1, <2>2, <2>3 DEF StageOk
  <1>21. ReorderOk(r)'
    <2>1. \A i \in Rows : Target(r, i, f[i])'
      BY <1>10, <1>11, <1>18
    <2>2. \E g : Numbers(g, Rows) /\ \A i \in Rows : Target(r, i, g[i])'
      BY <1>11, <2>1
    <2>3. QED BY <1>17, <1>19, <2>2 DEF ReorderOk, Numbers
  <1>22. DeleteOk(r)' /\ AloneOk(r)'
    BY <1>14, <1>16 DEF DeleteOk, AloneOk
  <1>23. QED BY <1>16, <1>20, <1>21, <1>22 DEF ImagesInv, RequestOk

\* Of the others nothing changes when a request ends, and none of them was alone.
LEMMA Ends ==
  ASSUME ImagesInv, NEW r \in Req, task[r] # None, End(r)
  PROVE  /\ RequestOk(r)' /\ AloneOk(r)'
         /\ \A q \in Req \ {r} : /\ Same(q) /\ StageOk(q)' /\ AloneOk(q)' /\ task'[q] = task[q]
                                 /\ task[q] # None => ~task[q].alone /\ ~task[r].alone
  <1>1. /\ task'[r] = None /\ plan'[r] = <<>> /\ DOMAIN written'[r] = {}
        /\ \A q \in Req \ {r} : Same(q) /\ task'[q] = task[q]
    BY EndDone DEF ImagesInv
  <1>2. RequestOk(r)' /\ AloneOk(r)'
    BY <1>1 DEF RequestOk, StageOk, ReorderOk, DeleteOk, AloneOk, Doing
  <1>3. ASSUME NEW q \in Req \ {r}
        PROVE  /\ StageOk(q)' /\ AloneOk(q)'
               /\ task[q] # None => ~task[q].alone /\ ~task[r].alone
    <2>1. StageOk(q)'
      BY <1>1, StageKept DEF ImagesInv, RequestOk
    <2>2. task[q] # None => ~task[q].alone /\ ~task[r].alone
      BY DEF ImagesInv, AloneOk
    <2>3. AloneOk(q)'
      BY <1>1, <2>2 DEF AloneOk
    <2>4. QED BY <2>1, <2>2, <2>3
  <1>4. QED BY <1>1, <1>2, <1>3

LEMMA AbortKeeps ==
  ASSUME ImagesInv, NEW r \in Req, Abort(r)
  PROVE  ImagesInv'
  <1>1. task[r] # None /\ End(r) /\ UNCHANGED <<position, disturbed>>
    BY DEF Abort
  <1>2. ImagesType' /\ Rows' = Rows
    BY <1>1, EndDone DEF ImagesInv, ImagesType, Rows
  <1>3. LocksInv' /\ InOrder'
    <2>1. /\ DOMAIN written'[r] = {} /\ holds'[r] = {}
          /\ \A q \in Req \ {r} : holds'[q] = holds[q] /\ written'[q] = written[q]
      BY <1>1, EndDone DEF ImagesInv, Same
    <2>2. QED BY <1>1, <1>2, <2>1 DEF ImagesInv, LocksInv, InOrder, Numbers
  <1>4. ASSUME NEW q \in Req \ {r}
        PROVE  RequestOk(q)'
    BY <1>1, Ends, RequestKept DEF ImagesInv
  <1>5. QED BY <1>1, <1>2, <1>3, <1>4, Ends DEF ImagesInv

LEMMA CreateCommitKeeps ==
  ASSUME ImagesInv, NEW r \in Req, NEW i \in Image, CreateCommit(r, i)
  PROVE  ImagesInv'
  <1>1. /\ task[r] # None /\ End(r) /\ i \notin Rows
        /\ position' = [position EXCEPT ![i] = task[r].place]
        /\ disturbed' = (disturbed \/ Doing(r, "place") \/ ~task[r].alone)
        /\ Doing(r, "create") \/ Doing(r, "place")
    BY DEF CreateCommit, Doing
  <1>2. ImagesType /\ task[r] \in Task /\ task[r].place \in Int \cup {None}
    BY <1>1 DEF ImagesInv, ImagesType, Task
  <1>3. ImagesType'
    BY <1>1, <1>2, EndDone DEF ImagesType
  <1>4. /\ Rows \subseteq Rows' /\ \A j \in Rows : position'[j] = position[j]
        /\ position'[i] = task[r].place /\ Rows' \subseteq Rows \cup {i}
    BY <1>1, <1>2 DEF ImagesType, Rows
  <1>5. LocksInv'
    <2>1. /\ DOMAIN written'[r] = {} /\ holds'[r] = {}
          /\ \A q \in Req \ {r} : holds'[q] = holds[q] /\ written'[q] = written[q]
      BY <1>1, EndDone DEF ImagesInv, Same
    <2>2. QED BY <1>4, <2>1 DEF ImagesInv, LocksInv
  <1>6. InOrder'
    <2>1. SUFFICES ASSUME ~disturbed'
                   PROVE  Numbers(position', Rows')
      BY DEF InOrder, Numbers
    <2>2. ~disturbed /\ Doing(r, "create") /\ task[r].alone
      BY <1>1, <2>1
    <2>3. PICK n \in Nat : n = Cardinality(Rows)
      BY <1>2, RowsAre
    <2>4. task[r].place = n
      BY <1>1, <2>2, <2>3 DEF ImagesInv, AloneOk, Doing
    <2>5. Rows' = Rows \cup {i} /\ position'[i] = n
      BY <1>2, <1>4, <2>3, <2>4, ImageNames DEF Rows
    <2>6. Numbers(position, Rows)
      BY <2>2 DEF ImagesInv, InOrder
    <2>7. \A j \in Rows : position'[j] \in 0 .. n - 1
      BY <1>4, <2>3, <2>6 DEF Numbers
    <2>8. \A j \in Rows' : position'[j] \in 0 .. (n + 1) - 1
      BY <2>3, <2>5, <2>7
    <2>9. \A j, k \in Rows' : j # k => position'[j] # position'[k]
      BY <1>4, <2>3, <2>5, <2>6, <2>7 DEF Numbers
    <2>10. \A m \in 0 .. (n + 1) - 1 : \E j \in Rows' : position'[j] = m
      <3>1. ASSUME NEW m \in 0 .. (n + 1) - 1
            PROVE  m = n \/ m \in 0 .. n - 1
        OBVIOUS
      <3>2. \A m \in 0 .. n - 1 : \E j \in Rows : position'[j] = m
        BY <1>4, <2>3, <2>6 DEF Numbers
      <3>3. QED BY <2>5, <3>1, <3>2
    <2>11. IsFiniteSet(Rows') /\ n + 1 \in Nat
      BY <1>2, <2>5, RowsAre, FS_AddElement
    <2>12. QED BY <2>8, <2>9, <2>10, <2>11, NumbersIf
  <1>7. ASSUME NEW q \in Req \ {r}
        PROVE  RequestOk(q)'
    <2>1. Same(q) /\ StageOk(q)' /\ (task[q] # None => ~task[q].alone /\ disturbed')
      BY <1>1, Ends
    <2>2. task[q] # None => ~Sure(q)'
      BY <2>1 DEF Same, Sure
    <2>3. Doing(q, "write")' => Doing(q, "write") /\ task'[q].image = task[q].image
      BY <2>1 DEF Same, Doing
    <2>4. ReorderOk(q)'
      <3>1. SUFFICES ASSUME Doing(q, "write"), task[q].image = None
                     PROVE  \E f : Numbers(f, Touched(q)') /\ \A j \in Touched(q)' : Target(q, j, f[j])'
        BY <2>2, <2>3 DEF ReorderOk, Doing, Numbers
      <3>2. Touched(q)' = Touched(q) /\ \A j, v : Target(q, j, v)' <=> Target(q, j, v)
        BY <2>1 DEF Same, Touched, Target
      <3>3. QED BY <3>1, <3>2 DEF ImagesInv, RequestOk, ReorderOk
    <2>5. DeleteOk(q)'
      BY <2>2, <2>3 DEF DeleteOk, Doing
    <2>6. QED BY <2>1, <2>4, <2>5 DEF RequestOk
  <1>8. QED BY <1>1, <1>3, <1>5, <1>6, <1>7, Ends DEF ImagesInv

\* A commit puts the rows in order if it may: of transactions that overlap, a second one
\* has to update or to delete a row that the first has deleted, or waits for it forever.
LEMMA CommitKeeps ==
  ASSUME ImagesInv, NEW r \in Req, Commit(r)
  PROVE  ImagesInv'
  <1> DEFINE W == written[r]
             gone == task[r].image
  <1>1. /\ Doing(r, "write") /\ plan[r] = <<>> /\ task[r] # None /\ End(r)
        /\ position' = [i \in Image |-> IF i \in DOMAIN W THEN W[i] ELSE position[i]]
        /\ disturbed' = (disturbed /\ ~task[r].alone)
    BY DEF Commit, Doing
  <1>2. ImagesType /\ RequestOk(r) /\ StageOk(r)
    BY DEF ImagesInv, RequestOk
  <1>3. W \in Writings /\ DOMAIN W \subseteq Image /\ \A i \in DOMAIN W : W[i] \in Int \cup {None}
    BY <1>2 DEF ImagesType, Writings
  <1>4. ImagesType'
    BY <1>1, <1>2, <1>3, EndDone DEF ImagesType
  <1>5. DOMAIN W \subseteq holds[r] /\ DOMAIN W \subseteq Rows /\ Touched(r) = DOMAIN W
        /\ \A i, v : Target(r, i, v) <=> i \in DOMAIN W /\ W[i] = v
    BY <1>1 DEF ImagesInv, LocksInv, Touched, Target
  <1>6. /\ \A i \in DOMAIN W : W[i] = None <=> i = gone
        /\ gone # None => gone \in DOMAIN W
    <2>1. /\ \A i, v : Target(r, i, v) => IF i = gone THEN v = None ELSE v \in Nat
          /\ gone # None => gone \in DOMAIN W
      BY <1>1, <1>2 DEF StageOk
    <2>2. \A i \in DOMAIN W : Target(r, i, W[i])
      BY <1>5
    <2>3. QED BY <2>1, <2>2, ImageNames
  <1>7. \A i \in Image : position'[i] = IF i \in DOMAIN W THEN W[i] ELSE position[i]
    BY <1>1
  <1>8. Rows' = Rows \ {gone}
    <2>1. ASSUME NEW i \in Image
          PROVE  position'[i] # None <=> position[i] # None /\ i # gone
      <3>1. i \in DOMAIN W => position[i] # None
        BY <1>5 DEF Rows
      <3>2. QED BY <1>6, <1>7, <3>1, ImageNames
    <2>2. QED BY <2>1 DEF Rows
  <1>9. \A v : \A i \in Image : Final(r, i, v) => position'[i] = v
    BY <1>5, <1>7 DEF Final
  <1>10. Rows \subseteq Image
    BY <1>2, RowsAre
  <1>11. Sure(r) => Numbers(position', Rows')
    <2>1. SUFFICES ASSUME Sure(r)
                   PROVE  Numbers(position', Rows \ {gone})
      BY <1>8
    <2>2. Rows \ {gone} \subseteq Image
      BY <1>2, RowsAre
    <2>3. CASE gone = None
      <3>1. PICK f : Numbers(f, Touched(r)) /\ \A i \in Touched(r) : Target(r, i, f[i])
        BY <1>1, <1>2, <2>3 DEF RequestOk, ReorderOk
      <3>2. Rows = Touched(r)
        BY <1>1, <1>2, <1>5, <2>1, <2>3 DEF RequestOk, ReorderOk
      <3>3. Rows \ {gone} = Rows
        BY <1>10, <2>3, ImageNames
      <3>4. \A i \in Rows : position'[i] = f[i]
        BY <1>9, <1>10, <3>1, <3>2 DEF Final
      <3>5. Numbers(position', Rows)
        BY <3>1, <3>2, <3>4 DEF Numbers
      <3>6. QED BY <3>3, <3>5
    <2>4. CASE gone # None
      <3>1. ~Doomed(r)
        BY <1>1 DEF Doomed
      <3>2. PICK f : /\ Numbers(f, Rows \ {gone})
                     /\ \A i \in Rows \ {gone} : Final(r, i, f[i])
        BY <1>1, <1>2, <2>1, <2>4, <3>1 DEF RequestOk, DeleteOk
      <3>3. \A i \in Rows \ {gone} : position'[i] = f[i]
        BY <1>9, <2>2, <3>2
      <3>4. QED BY <3>2, <3>3 DEF Numbers
    <2>5. QED BY <2>3, <2>4
  <1>12. InOrder'
    <2>1. ~disturbed' => Sure(r)
      BY <1>1 DEF Sure
    <2>2. QED BY <1>11, <2>1 DEF InOrder, Numbers
  <1>13. LocksInv'
    <2>1. /\ DOMAIN written'[r] = {} /\ holds'[r] = {}
          /\ \A q \in Req \ {r} : holds'[q] = holds[q] /\ written'[q] = written[q]
      BY <1>1, EndDone DEF ImagesInv, Same
    <2>2. \A q \in Req \ {r} : gone \notin holds[q]
      BY <1>2, <1>5, <1>6, ImageNames DEF ImagesInv, LocksInv, ImagesType
    <2>3. QED BY <1>8, <2>1, <2>2 DEF ImagesInv, LocksInv
  <1>14. ASSUME NEW q \in Req \ {r}
         PROVE  RequestOk(q)'
    <2>1. Same(q) /\ StageOk(q)' /\ (task[q] # None => ~task[q].alone /\ ~task[r].alone)
      BY <1>1, Ends
    <2>2. /\ Doing(q, "write")' => Doing(q, "write") /\ task'[q].image = task[q].image
          /\ Touched(q)' = Touched(q) /\ \A j, v : Target(q, j, v)' <=> Target(q, j, v)
      BY <2>1 DEF Same, Doing, Touched, Target
    <2>3. Doing(q, "write") /\ Sure(q)' => ~disturbed /\ Sure(q) /\ Sure(r)
      BY <1>1, <2>1 DEF Same, Sure, Doing
    <2>4. RequestOk(q) /\ StageOk(q)
      BY DEF ImagesInv, RequestOk
    <2>5. ReorderOk(q)'
      <3>1. SUFFICES ASSUME Doing(q, "write"), task[q].image = None
                     PROVE  /\ \E f : Numbers(f, Touched(q)) /\ \A j \in Touched(q) : Target(q, j, f[j])
                            /\ Sure(q)' => Rows' \subseteq Touched(q)
        BY <2>2 DEF ReorderOk, Numbers
      <3>2. QED BY <1>8, <2>3, <2>4, <3>1 DEF RequestOk, ReorderOk
    <2>6. DeleteOk(q)'
      <3>1. SUFFICES ASSUME Doing(q, "write"), task[q].image # None, Sure(q)', ~Doomed(q)'
                     PROVE  FALSE
        BY <2>2 DEF DeleteOk
      <3>2. PICK j : j = task[q].image
        OBVIOUS
      <3>3. j \in DOMAIN written[q] /\ j \in holds[q] /\ j \in Rows
        BY <2>4, <3>1, <3>2 DEF StageOk, ImagesInv, LocksInv
      <3>4. j \notin holds[r] /\ j \notin DOMAIN W
        BY <1>5, <3>3 DEF ImagesInv, LocksInv
      <3>5. ~disturbed /\ Sure(q) /\ Sure(r)
        BY <2>3, <3>1
      <3>6. CASE gone = None
        BY <1>1, <1>2, <1>5, <3>3, <3>4, <3>5, <3>6 DEF RequestOk, ReorderOk
      <3>7. CASE gone # None
        <4>1. gone \in DOMAIN W /\ gone \in holds[r] /\ gone \in Rows /\ gone # j
          BY <1>5, <1>6, <3>4, <3>7
        <4>2. gone \notin DOMAIN written[q]
          BY <4>1 DEF ImagesInv, LocksInv
        <4>3. /\ position[gone] \in Int /\ position[j] \in Int /\ position[gone] # position[j]
          BY <1>2, <3>3, <3>5, <4>1, RowsAre DEF ImagesInv, InOrder, Numbers
        <4>4. CASE position[j] > position[gone]
          <5>1. ~Doomed(r)
            BY <1>1 DEF Doomed
          <5>2. j \in Touched(r)
            BY <1>1, <1>2, <3>3, <3>5, <3>7, <4>4, <5>1 DEF RequestOk, DeleteOk
          <5>3. QED BY <1>5, <3>4, <5>2
        <4>5. CASE position[gone] > position[j]
          <5>1. ~Doomed(q)
            BY <1>8, <2>1, <3>1 DEF Doomed, Same
          <5>2. gone \in Touched(q)
            BY <2>4, <3>1, <3>2, <3>5, <4>1, <4>5, <5>1 DEF RequestOk, DeleteOk
          <5>3. PICK k \in DOMAIN plan[q] : plan[q][k][1] = gone
            BY <4>2, <5>2 DEF Touched
          <5>4. Doomed(q)'
            BY <1>8, <2>1, <5>3 DEF Doomed, Same
          <5>5. QED BY <3>1, <5>4
        <4>6. QED BY <4>3, <4>4, <4>5
      <3>8. QED BY <3>6, <3>7
    <2>7. QED BY <2>1, <2>5, <2>6 DEF RequestOk
  <1>15. QED BY <1>1, <1>4, <1>12, <1>13, <1>14, Ends DEF ImagesInv

LEMMA UpdateKeeps ==
  ASSUME ImagesInv, NEW r \in Req, Update(r)
  PROVE  ImagesInv'
  <1>1. ImagesType /\ RequestOk(r) /\ StageOk(r)
    BY DEF ImagesInv, RequestOk
  <1>2. PICK u : u = Head(plan[r])
    OBVIOUS
  <1>3. /\ plan[r] # <<>> /\ u[1] \in Rows /\ Locks(r, u[1])
        /\ written' = [written EXCEPT ![r] =
             [i \in DOMAIN written[r] \cup {u[1]} |-> IF i = u[1] THEN u[2] ELSE written[r][i]]]
        /\ plan' = [plan EXCEPT ![r] = Tail(plan[r])]
        /\ UNCHANGED <<position, task, disturbed>>
    BY <1>2 DEF Update
  <1>4. PICK n \in Nat : n = Len(plan[r])
    BY <1>1 DEF ImagesType
  <1>5. /\ plan[r] \in Seq(Image \X Int) /\ DOMAIN plan[r] = 1 .. n /\ n # 0
        /\ u = plan[r][1] /\ u \in Image \X Int /\ u = <<u[1], u[2]>>
        /\ Tail(plan[r]) \in Seq(Image \X Int) /\ DOMAIN Tail(plan[r]) = 1 .. n - 1
        /\ \A k \in 1 .. n - 1 : Tail(plan[r])[k] = plan[r][k + 1]
    BY <1>1, <1>2, <1>3, <1>4, HeadTailProperties DEF ImagesType
  <1>6. PICK x \in Image, v \in Int : u = <<x, v>> /\ u[1] = x /\ u[2] = v
    BY <1>5
  <1> DEFINE W == [i \in DOMAIN written[r] \cup {x} |-> IF i = x THEN v ELSE written[r][i]]
  <1>7. written[r] \in Writings /\ DOMAIN written[r] \subseteq Image
        /\ \A i \in DOMAIN written[r] : written[r][i] \in Int \cup {None}
    BY <1>1 DEF ImagesType, Writings
  <1>8. /\ W \in Writings /\ DOMAIN W = DOMAIN written[r] \cup {x} /\ W[x] = v
        /\ \A i \in DOMAIN written[r] : i # x => W[i] = written[r][i]
    BY <1>7 DEF Writings
  <1>9. written' = [written EXCEPT ![r] = W]
    BY <1>3, <1>6
  <1> HIDE DEF W
  <1>10. /\ written'[r] = W /\ plan'[r] = Tail(plan[r])
         /\ holds'[r] = holds[r] \cup {x} /\ \A q \in Req \ {r} : x \notin holds[q]
         /\ \A q \in Req \ {r} : Same(q) /\ holds'[q] = holds[q] /\ written'[q] = written[q]
    BY <1>1, <1>3, <1>6, <1>9 DEF ImagesType, Locks, Same
  <1>11. ImagesType'
    BY <1>1, <1>3, <1>5, <1>6, <1>8, <1>9 DEF ImagesType, Locks
  <1>12. Rows' = Rows /\ x \in Rows
    BY <1>3, <1>6 DEF Rows
  <1>13. LocksInv'
    BY <1>8, <1>10, <1>12 DEF ImagesInv, LocksInv
  <1>14. Doing(r, "write") /\ \A op : Doing(r, op)' <=> Doing(r, op)
    BY <1>1, <1>3 DEF StageOk, Doing
  <1>15. /\ \A i, w : Target(r, i, w) => IF i = task[r].image THEN w = None ELSE w \in Nat
         /\ \A i, w, y : Target(r, i, w) /\ Target(r, i, y) => w = y
    BY <1>1, <1>14 DEF StageOk
  <1>16. ASSUME NEW i, NEW w
         PROVE  (\E k \in 1 .. n : plan[r][k] = <<i, w>>) <=>
                  (i = x /\ w = v) \/ \E k \in 1 .. n - 1 : Tail(plan[r])[k] = <<i, w>>
    <2>1. \A k \in 1 .. n : k = 1 \/ (k - 1 \in 1 .. n - 1 /\ (k - 1) + 1 = k)
      OBVIOUS
    <2>2. \A k \in 1 .. n - 1 : k + 1 \in 1 .. n
      OBVIOUS
    <2>3. 1 \in 1 .. n
      BY <1>5
    <2>4. plan[r][1] = <<i, w>> <=> i = x /\ w = v
      BY <1>5, <1>6
    <2>5. ASSUME NEW k \in 1 .. n, plan[r][k] = <<i, w>>, ~(i = x /\ w = v)
          PROVE  \E l \in 1 .. n - 1 : Tail(plan[r])[l] = <<i, w>>
      <3>1. k - 1 \in 1 .. n - 1 /\ (k - 1) + 1 = k
        BY <2>1, <2>4, <2>5
      <3>2. Tail(plan[r])[k - 1] = <<i, w>>
        BY <1>5, <2>5, <3>1
      <3>3. QED BY <3>1, <3>2
    <2>6. ASSUME NEW l \in 1 .. n - 1, Tail(plan[r])[l] = <<i, w>>
          PROVE  \E k \in 1 .. n : plan[r][k] = <<i, w>>
      <3>1. plan[r][l + 1] = <<i, w>>
        BY <1>5, <2>6
      <3>2. QED BY <2>2, <3>1
    <2>7. QED BY <2>3, <2>4, <2>5, <2>6, Zenon
  <1>17. Target(r, x, v)
    <2>1. 1 \in DOMAIN plan[r] /\ plan[r][1] = <<x, v>>
      BY <1>5, <1>6
    <2>2. QED BY <2>1 DEF Target
  <1>18. \A i, w : Target(r, i, w)' <=> Target(r, i, w)
    <2>1. SUFFICES ASSUME NEW i, NEW w
                   PROVE  Target(r, i, w)' <=> Target(r, i, w)
      OBVIOUS
    <2>2. Target(r, i, w)' <=> \/ i \in DOMAIN W /\ W[i] = w
                               \/ \E k \in 1 .. n - 1 : Tail(plan[r])[k] = <<i, w>>
      BY <1>5, <1>10 DEF Target
    <2>3. Target(r, i, w) <=> \/ i \in DOMAIN written[r] /\ written[r][i] = w
                              \/ i = x /\ w = v
                              \/ \E k \in 1 .. n - 1 : Tail(plan[r])[k] = <<i, w>>
      <3>1. Target(r, i, w) <=> \/ i \in DOMAIN written[r] /\ written[r][i] = w
                                \/ \E k \in 1 .. n : plan[r][k] = <<i, w>>
        BY <1>5 DEF Target
      <3>2. QED BY <1>16, <3>1
    <2>4. i = x => (Target(r, i, w) => w = v)
      BY <1>15, <1>17
    <2>5. QED BY <1>8, <2>2, <2>3, <2>4
  <1>19. ASSUME NEW i
         PROVE  (\E k \in 1 .. n : plan[r][k][1] = i) <=>
                  i = x \/ \E k \in 1 .. n - 1 : Tail(plan[r])[k][1] = i
    <2>1. \A k \in 1 .. n : k = 1 \/ (k - 1 \in 1 .. n - 1 /\ (k - 1) + 1 = k)
      OBVIOUS
    <2>2. \A k \in 1 .. n - 1 : k + 1 \in 1 .. n
      OBVIOUS
    <2>3. 1 \in 1 .. n /\ plan[r][1][1] = x
      BY <1>5, <1>6
    <2>4. ASSUME NEW k \in 1 .. n, plan[r][k][1] = i, i # x
          PROVE  \E l \in 1 .. n - 1 : Tail(plan[r])[l][1] = i
      <3>1. k - 1 \in 1 .. n - 1 /\ (k - 1) + 1 = k
        BY <2>1, <2>3, <2>4
      <3>2. Tail(plan[r])[k - 1] = plan[r][k]
        BY <1>5, <3>1
      <3>3. Tail(plan[r])[k - 1][1] = i
        BY <2>4, <3>2
      <3>4. QED BY <3>1, <3>3
    <2>5. ASSUME NEW l \in 1 .. n - 1, Tail(plan[r])[l][1] = i
          PROVE  \E k \in 1 .. n : plan[r][k][1] = i
      <3>1. plan[r][l + 1] = Tail(plan[r])[l] /\ l + 1 \in 1 .. n
        BY <1>5, <2>2
      <3>2. plan[r][l + 1][1] = i
        BY <2>5, <3>1
      <3>3. QED BY <3>1, <3>2
    <2>6. QED BY <2>3, <2>4, <2>5, Zenon
  <1>20. Touched(r)' = Touched(r)
    <2>1. ASSUME NEW i
          PROVE  i \in Touched(r)' <=> i \in Touched(r)
      <3>1. i \in Touched(r)' <=> i \in DOMAIN W \/ \E k \in 1 .. n - 1 : Tail(plan[r])[k][1] = i
        <4>1. /\ DOMAIN plan'[r] = 1 .. n - 1 /\ DOMAIN written'[r] = DOMAIN W
              /\ \A k \in 1 .. n - 1 : plan'[r][k] = Tail(plan[r])[k]
          BY <1>5, <1>10
        <4>2. i \in Touched(r)' <=> \/ i \in DOMAIN written'[r]
                                     \/ \E k \in DOMAIN plan'[r] : plan'[r][k][1] = i
          BY DEF Touched
        <4>3. QED BY <4>1, <4>2
      <3>2. i \in Touched(r) <=> i \in DOMAIN written[r] \/ \E k \in 1 .. n : plan[r][k][1] = i
        BY <1>5 DEF Touched
      <3>3. QED BY <1>8, <1>19, <3>1, <3>2
    <2>2. QED BY <2>1
  <1>21. Doomed(r) => Doomed(r)'
    <2>1. SUFFICES ASSUME Doomed(r)
                   PROVE  Doomed(r)'
      OBVIOUS
    <2>2. PICK k \in 1 .. n : plan[r][k][1] \notin Rows
      BY <1>5, <2>1 DEF Doomed
    <2>3. plan[r][k][1] # x
      BY <1>12, <2>2
    <2>4. \E l \in 1 .. n - 1 : Tail(plan[r])[l][1] = plan[r][k][1]
      BY <1>19, <2>3
    <2>5. QED BY <1>5, <1>10, <1>12, <2>2, <2>4 DEF Doomed
  <1>22. StageOk(r)'
    <2>1. ~Doing(r, "list")
      BY <1>14 DEF Doing
    <2>2. task[r].image # None => task[r].image \in DOMAIN W
      BY <1>1, <1>8, <1>14 DEF StageOk
    <2>3. task[r] # None /\ task[r].op = "write"
      BY <1>14 DEF Doing
    <2>4. task[r].image # None => Target(r, task[r].image, None)
      BY <1>1, <1>14 DEF StageOk
    <2>5. QED BY <1>3, <1>10, <1>14, <1>15, <1>18, <2>1, <2>2, <2>3, <2>4 DEF StageOk
  <1>23. ReorderOk(r)'
    <2>1. SUFFICES ASSUME task[r].image = None
                   PROVE  /\ \E f : Numbers(f, Touched(r)) /\ \A i \in Touched(r) : Target(r, i, f[i])'
                          /\ Sure(r) => Rows \subseteq Touched(r)
      BY <1>3, <1>12, <1>20 DEF ReorderOk, Numbers, Sure
    <2>2. QED BY <1>1, <1>14, <1>18, <2>1 DEF ReorderOk, RequestOk
  <1>24. DeleteOk(r)'
    <2>1. SUFFICES ASSUME task[r].image # None, Sure(r), ~Doomed(r)'
                   PROVE  /\ \E f : /\ Numbers(f, Rows \ {task[r].image})
                                    /\ \A i \in Rows \ {task[r].image} : Final(r, i, f[i])'
                          /\ ~disturbed => \A j \in Rows : position[j] > position[task[r].image]
                                                            => j \in Touched(r)
      BY <1>3, <1>12, <1>20 DEF DeleteOk, Numbers, Sure
    <2>2. \A i, w : Final(r, i, w)' <=> Final(r, i, w)
      BY <1>3, <1>18, <1>20 DEF Final
    <2>3. QED BY <1>1, <1>14, <1>21, <2>1, <2>2 DEF DeleteOk, RequestOk
  <1>25. \A q \in Req \ {r} : RequestOk(q)'
    BY <1>3, <1>10, RequestKept DEF ImagesInv
  <1>26. InOrder' /\ \A q \in Req : AloneOk(q)'
    BY <1>3, <1>12 DEF ImagesInv, InOrder, Numbers, AloneOk
  <1>27. QED BY <1>11, <1>13, <1>22, <1>23, <1>24, <1>25, <1>26 DEF ImagesInv, RequestOk

\* A request goes on to its next stage.
LEMMA StageDone ==
  ASSUME ImagesType, NEW r \in Req, task[r] # None, NEW op \in {"list", "write"}
  PROVE  task' = [task EXCEPT ![r].op = op] =>
           /\ task' \in [Req -> Task \cup {None}] /\ task'[r] # None /\ task'[r].op = op
           /\ task'[r].image = task[r].image /\ task'[r].alone = task[r].alone
           /\ \A q \in Req \ {r} : task'[q] = task[q]
  <1> DEFINE Goal ==
        /\ task' \in [Req -> Task \cup {None}] /\ task'[r] # None /\ task'[r].op = op
        /\ task'[r].image = task[r].image /\ task'[r].alone = task[r].alone
        /\ \A q \in Req \ {r} : task'[q] = task[q]
  <1>0. SUFFICES ASSUME task' = [task EXCEPT ![r].op = op]
                 PROVE  Goal
    BY Zenon
  <1>1. PICK t \in Task : t = task[r]
    BY DEF ImagesType
  <1>2. task' = [task EXCEPT ![r] = [t EXCEPT !.op = op]]
    BY <1>0, <1>1, Zenon
  <1>3. /\ [t EXCEPT !.op = op] \in Task /\ [t EXCEPT !.op = op].op = op
        /\ [t EXCEPT !.op = op].image = t.image /\ [t EXCEPT !.op = op].alone = t.alone
    BY DEF Task
  <1>4. PICK u \in Task : u = [t EXCEPT !.op = op]
    BY <1>3
  <1>5. task' = [task EXCEPT ![r] = u] /\ u.op = op /\ u.image = t.image /\ u.alone = t.alone
    BY <1>2, <1>3, <1>4
  <1>6. QED BY <1>1, <1>5, ImageNames DEF ImagesType

LEMMA DeleteRowKeeps ==
  ASSUME ImagesInv, NEW r \in Req, DeleteRow(r)
  PROVE  ImagesInv'
  <1>1. ImagesType /\ StageOk(r)
    BY DEF ImagesInv, RequestOk
  <1>2. PICK i : i = task[r].image
    OBVIOUS
  <1> DEFINE W == [j \in {i} |-> None]
  <1>3. /\ Doing(r, "delete") /\ task[r] # None /\ task[r].op = "delete"
        /\ i \in Rows /\ Locks(r, i) /\ written' = [written EXCEPT ![r] = W]
        /\ task' = [task EXCEPT ![r].op = "list"]
        /\ UNCHANGED <<position, plan, disturbed>>
    BY <1>2 DEF DeleteRow, Doing
  <1>4. /\ task' \in [Req -> Task \cup {None}] /\ task'[r] # None /\ task'[r].op = "list"
        /\ task'[r].image = i /\ task'[r].alone = task[r].alone
        /\ \A q \in Req \ {r} : task'[q] = task[q]
    BY <1>1, <1>2, <1>3, StageDone
  <1>5. i \in Image /\ Rows' = Rows /\ i # None
    BY <1>1, <1>3, RowsAre, ImageNames DEF Rows
  <1>6. W \in Writings /\ DOMAIN W = {i} /\ W[i] = None
    <2>1. W \in [{i} -> Int \cup {None}] /\ {i} \in SUBSET Image
      BY <1>5
    <2>2. QED BY <2>1 DEF Writings
  <1> HIDE DEF W
  <1>7. /\ written'[r] = W /\ holds'[r] = holds[r] \cup {i} /\ plan'[r] = <<>>
        /\ \A q \in Req \ {r} : /\ i \notin holds[q] /\ holds'[q] = holds[q] /\ Same(q)
                                /\ written'[q] = written[q]
    <2>1. plan[r] = <<>>
      BY <1>1, <1>3 DEF StageOk, Doing
    <2>2. /\ written'[r] = W /\ holds'[r] = holds[r] \cup {i} /\ plan'[r] = <<>>
          /\ \A q \in Req \ {r} : /\ i \notin holds[q] /\ holds'[q] = holds[q]
                                  /\ written'[q] = written[q]
      <3> SUFFICES ASSUME written' = [written EXCEPT ![r] = W], Locks(r, i), UNCHANGED plan
                   PROVE  /\ written'[r] = W /\ holds'[r] = holds[r] \cup {i} /\ plan'[r] = <<>>
                          /\ \A q \in Req \ {r} : /\ i \notin holds[q] /\ holds'[q] = holds[q]
                                                  /\ written'[q] = written[q]
        BY <1>3, Zenon
      <3>1. QED BY <1>1, <2>1 DEF ImagesType, Locks
    <2>3. \A q \in Req \ {r} : Same(q)
      <3>1. UNCHANGED plan
        BY <1>3, Zenon
      <3>2. QED BY <1>4, <2>2, <3>1 DEF Same
    <2>4. QED BY <2>2, <2>3
  <1>8. ImagesType'
    BY <1>1, <1>3, <1>4, <1>5, <1>6 DEF ImagesType, Locks
  <1>9. LocksInv'
    BY <1>3, <1>5, <1>6, <1>7 DEF ImagesInv, LocksInv
  <1>10. RequestOk(r)'
    <2>1. Doing(r, "list")' /\ ~Doing(r, "write")'
      BY <1>4 DEF Doing
    <2>2. Target(r, i, None)'
      BY <1>6, <1>7 DEF Target
    <2>3. StageOk(r)'
      BY <1>4, <1>5, <1>6, <1>7, <2>1, <2>2 DEF StageOk
    <2>4. QED BY <2>1, <2>3 DEF RequestOk, ReorderOk, DeleteOk
  <1>11. \A q \in Req \ {r} : RequestOk(q)'
    BY <1>3, <1>7, RequestKept DEF ImagesInv
  <1>12. ASSUME NEW q \in Req
         PROVE  AloneOk(q)'
    <2>1. AloneOk(q)
      BY DEF ImagesInv
    <2>2. \A p \in Req : task'[p] = None <=> task[p] = None
      BY <1>3, <1>4
    <2>3. CASE q = r
      BY <1>3, <1>4, <2>1, <2>2, <2>3 DEF AloneOk
    <2>4. CASE q # r
      BY <1>4, <1>5, <2>1, <2>2, <2>4 DEF AloneOk
    <2>5. QED BY <2>3, <2>4
  <1>13. InOrder'
    BY <1>3, <1>5 DEF ImagesInv, InOrder, Numbers
  <1>14. QED BY <1>8, <1>9, <1>10, <1>11, <1>12, <1>13 DEF ImagesInv

\* Among rows in order, the row in place k of the rows that stay and that stands after the
\* deleted one has to move: k rows cannot all stand before k and beside the deleted one.
LEMMA LaterMove ==
  ASSUME ImagesType, Numbers(position, Rows), NEW i \in Rows, NEW s, NEW n \in Nat,
         \A k \in 1 .. n : s[k] \in Rows \ {i},
         \A k, l \in 1 .. n : k # l => s[k] # s[l],
         \A k, l \in 1 .. n : k < l => position[s[k]] <= position[s[l]],
         NEW k \in 1 .. n, position[s[k]] > position[i]
  PROVE  position[s[k]] # k - 1
  <1>1. SUFFICES ASSUME position[s[k]] = k - 1
                 PROVE  FALSE
    OBVIOUS
  <1>2. PICK p \in Int : p = position[i]
    BY RowsAre
  <1>3. /\ \A j \in Rows : position[j] \in Int /\ position[j] >= 0
        /\ \A j, l \in Rows : j # l => position[j] # position[l]
    BY RowsAre DEF Numbers
  <1> DEFINE g == [l \in 1 .. k |-> position[s[l]]]
             T == (0 .. k - 1) \ {p}
  <1>4. \A l \in 1 .. k : l \in 1 .. n
    OBVIOUS
  <1>5. g \in [1 .. k -> T]
    <2>1. ASSUME NEW l \in 1 .. k
          PROVE  position[s[l]] \in T
      <3>1. position[s[l]] \in Int /\ position[s[l]] >= 0 /\ position[s[l]] # p
        BY <1>2, <1>3, <1>4
      <3>2. position[s[l]] <= k - 1
        BY <1>1, <1>4
      <3>3. QED BY <3>1, <3>2
    <2>2. QED BY <2>1
  <1>6. IsFiniteSet(T) /\ Cardinality(T) = k - 1
    <2>1. IsFiniteSet(0 .. k - 1) /\ Cardinality(0 .. k - 1) = k
      <3>1. /\ IsFiniteSet(0 .. k - 1)
            /\ Cardinality(0 .. k - 1) = IF 0 > k - 1 THEN 0 ELSE k - 1 - 0 + 1
        BY FS_Interval
      <3>2. QED BY <3>1
    <2>2. p \in 0 .. k - 1
      BY <1>1, <1>2, <1>3
    <2>3. IsFiniteSet(T) /\ Cardinality(T) = Cardinality(0 .. k - 1) - 1
      BY <2>1, <2>2, FS_RemoveElement
    <2>4. QED BY <2>1, <2>3
  <1>7. IsFiniteSet(1 .. k) /\ Cardinality(1 .. k) = k
    <2>1. IsFiniteSet(1 .. k) /\ Cardinality(1 .. k) = IF 1 > k THEN 0 ELSE k - 1 + 1
      BY FS_Interval
    <2>2. QED BY <2>1
  <1>8. \E l, m \in 1 .. k : l # m /\ g[l] = g[m]
    <2> HIDE DEF g, T
    <2>1. Cardinality(T) < Cardinality(1 .. k)
      BY <1>6, <1>7
    <2>2. QED BY <1>5, <1>6, <1>7, <2>1, FS_PigeonHole
  <1>9. QED BY <1>3, <1>4, <1>8

LEMMA DeleteListKeeps ==
  ASSUME ImagesInv, NEW r \in Req, DeleteList(r)
  PROVE  ImagesInv'
  <1>1. ImagesType /\ StageOk(r)
    BY DEF ImagesInv, RequestOk
  <1>2. PICK i : i = task[r].image
    OBVIOUS
  <1>a. PICK s \in Sorted(Rows \ {i}) : \E p \in Renumber(s) : plan' = [plan EXCEPT ![r] = p]
    BY <1>2 DEF DeleteList
  <1>3. PICK p \in Renumber(s) :
          /\ Doing(r, "list") /\ task[r] # None /\ task[r].op = "list"
          /\ plan' = [plan EXCEPT ![r] = p]
          /\ task' = [task EXCEPT ![r].op = "write"]
          /\ UNCHANGED <<position, written, holds, disturbed>>
    BY <1>2, <1>a DEF DeleteList, Doing
  <1>4. /\ task' \in [Req -> Task \cup {None}] /\ task'[r] # None /\ task'[r].op = "write"
        /\ task'[r].image = i /\ task'[r].alone = task[r].alone
        /\ \A q \in Req \ {r} : task'[q] = task[q]
    BY <1>1, <1>2, <1>3, StageDone
  <1>5. /\ i # None /\ i \in Image /\ DOMAIN written[r] = {i} /\ written[r][i] = None /\ i \in Rows
    <2>1. plan[r] = <<>>
      BY <1>1, <1>3 DEF StageOk, Doing
    <2>2. i # None /\ DOMAIN written[r] = {i} /\ Target(r, i, None)
      BY <1>1, <1>2, <1>3 DEF StageOk
    <2>3. written[r][i] = None
      BY <2>1, <2>2 DEF Target
    <2>4. i \in Rows
      BY <2>2 DEF ImagesInv, LocksInv
    <2>5. QED BY <1>1, <2>2, <2>3, <2>4, RowsAre
  <1>6. IsFiniteSet(Rows) /\ IsFiniteSet(Rows \ {i}) /\ Rows \in SUBSET Image
        /\ \A x \in Rows : position[x] \in Int
    BY <1>1, RowsAre, FS_Subset
  <1>7. PICK n \in Nat : n = Cardinality(Rows \ {i})
    BY <1>6, FS_CardinalityType
  <1>8. /\ Len(s) = n /\ DOMAIN s = 1 .. n
        /\ \A k \in 1 .. n : s[k] \in Rows \ {i}
        /\ \A k, l \in 1 .. n : k # l => s[k] # s[l]
        /\ \A x \in Rows \ {i} : \E k \in 1 .. n : s[k] = x
    <2>1. s \in SetToSeqs(Rows \ {i})
      BY DEF Sorted
    <2>2. /\ Len(s) = Cardinality(Rows \ {i}) /\ DOMAIN s = 1 .. Len(s)
          /\ \A k \in 1 .. Len(s) : s[k] \in Rows \ {i}
          /\ \A k, l \in 1 .. Len(s) : k # l => s[k] # s[l]
          /\ \A x \in Rows \ {i} : \E k \in 1 .. Len(s) : s[k] = x
      BY <1>6, <2>1, Listed
    <2>3. Len(s) = n
      BY <1>7, <2>2
    <2>4. QED BY <2>2, <2>3
  <1>9. \A k, l \in 1 .. n : k < l => position[s[k]] <= position[s[l]]
    BY <1>8 DEF Sorted
  <1>10. /\ \A k \in 1 .. n : position[s[k]] # k - 1 => <<s[k], k - 1>> \in Changes(s)
         /\ \A u \in Changes(s) : \E k \in 1 .. n : u = <<s[k], k - 1>> /\ position[s[k]] # k - 1
    <2>1. Numbered(s, 0) = [k \in 1 .. n |-> <<s[k], 0 + k - 1>>]
      BY <1>8 DEF Numbered
    <2>2. \A k \in 1 .. n : 0 + k - 1 = k - 1
      OBVIOUS
    <2>3. Range(Numbered(s, 0)) = {<<s[k], k - 1>> : k \in 1 .. n}
      BY <2>1, <2>2 DEF Range
    <2>4. QED BY <2>3 DEF Changes
  <1>11. IsFiniteSet(Changes(s)) /\ Changes(s) \subseteq Image \X Int
    <2>1. Changes(s) \subseteq (Rows \ {i}) \X (0 .. n - 1)
      BY <1>8, <1>10
    <2>2. IsFiniteSet(0 .. n - 1)
      BY FS_Interval
    <2>3. IsFiniteSet((Rows \ {i}) \X (0 .. n - 1))
      BY <1>6, <2>2, FS_Product
    <2>4. \A u \in (Rows \ {i}) \X (0 .. n - 1) : u \in Image \X Int
      BY <1>6
    <2>5. QED BY <2>1, <2>3, <2>4, FS_Subset
  <1>12. /\ p \in Seq(Changes(s)) /\ \A k \in DOMAIN p : p[k] \in Changes(s)
         /\ \A u \in Changes(s) : \E k \in DOMAIN p : p[k] = u
    BY <1>11, Listed DEF Renumber
  <1>13. p \in Seq(Image \X Int)
    BY <1>11, <1>12
  <1>14. /\ plan'[r] = p /\ written'[r] = written[r]
         /\ \A q \in Req \ {r} : Same(q)
    <2>1. plan'[r] = p /\ \A q \in Req \ {r} : plan'[q] = plan[q]
      <3> SUFFICES ASSUME plan' = [plan EXCEPT ![r] = p]
                   PROVE  plan'[r] = p /\ \A q \in Req \ {r} : plan'[q] = plan[q]
        BY <1>3, Zenon
      <3>1. QED BY <1>1 DEF ImagesType
    <2>2. UNCHANGED written
      BY <1>3, Zenon
    <2>3. QED BY <1>4, <2>1, <2>2 DEF Same
  <1>15. UNCHANGED <<position, written, holds, disturbed>>
    BY <1>3, Zenon
  <1>16. ImagesType'
    <2>1. plan' \in [Req -> Seq(Image \X Int)]
      <3> SUFFICES ASSUME plan' = [plan EXCEPT ![r] = p]
                   PROVE  plan' \in [Req -> Seq(Image \X Int)]
        BY <1>3, Zenon
      <3>1. QED BY <1>1, <1>13 DEF ImagesType
    <2>2. QED BY <1>1, <1>4, <1>15, <2>1 DEF ImagesType
  <1>17. Rows' = Rows
    BY <1>15 DEF Rows
  <1>18. LocksInv' /\ InOrder'
    BY <1>15, <1>17 DEF ImagesInv, LocksInv, InOrder, Numbers
  <1>19. \A x, v : Target(r, x, v)' <=>
                     \/ x = i /\ v = None
                     \/ \E k \in 1 .. n : x = s[k] /\ v = k - 1 /\ position[s[k]] # k - 1
    <2>1. SUFFICES ASSUME NEW x, NEW v
                   PROVE  Target(r, x, v)' <=>
                            \/ x = i /\ v = None
                            \/ \E k \in 1 .. n : x = s[k] /\ v = k - 1 /\ position[s[k]] # k - 1
      OBVIOUS
    <2>2. Target(r, x, v)' <=> (x = i /\ v = None) \/ \E k \in DOMAIN p : p[k] = <<x, v>>
      BY <1>5, <1>14 DEF Target
    <2>3. (\E k \in DOMAIN p : p[k] = <<x, v>>) <=> <<x, v>> \in Changes(s)
      BY <1>12
    <2>4. <<x, v>> \in Changes(s) <=>
            \E k \in 1 .. n : x = s[k] /\ v = k - 1 /\ position[s[k]] # k - 1
      BY <1>10
    <2>5. QED BY <2>2, <2>3, <2>4
  <1>20. \A x : x \in Touched(r)' <=>
                  x = i \/ \E k \in 1 .. n : x = s[k] /\ position[s[k]] # k - 1
    <2>1. SUFFICES ASSUME NEW x
                   PROVE  x \in Touched(r)' <=>
                            x = i \/ \E k \in 1 .. n : x = s[k] /\ position[s[k]] # k - 1
      OBVIOUS
    <2>2. x \in Touched(r)' <=> x = i \/ \E k \in DOMAIN p : p[k][1] = x
      BY <1>5, <1>14 DEF Touched
    <2>3. (\E k \in DOMAIN p : p[k][1] = x) <=> \E u \in Changes(s) : u[1] = x
      BY <1>12
    <2>4. (\E u \in Changes(s) : u[1] = x) <=> \E k \in 1 .. n : x = s[k] /\ position[s[k]] # k - 1
      <3>1. ASSUME NEW u \in Changes(s), u[1] = x
            PROVE  \E k \in 1 .. n : x = s[k] /\ position[s[k]] # k - 1
        <4>1. PICK k \in 1 .. n : u = <<s[k], k - 1>> /\ position[s[k]] # k - 1
          BY <1>10
        <4>2. QED BY <3>1, <4>1
      <3>2. ASSUME NEW k \in 1 .. n, x = s[k], position[s[k]] # k - 1
            PROVE  \E u \in Changes(s) : u[1] = x
        <4>1. <<s[k], k - 1>> \in Changes(s) /\ <<s[k], k - 1>>[1] = x
          BY <1>10, <3>2
        <4>2. QED BY <4>1
      <3>3. QED BY <3>1, <3>2
    <2>5. QED BY <2>2, <2>3, <2>4
  <1>21. Doing(r, "write")' /\ ~Doing(r, "list")'
    BY <1>4 DEF Doing
  <1>22. StageOk(r)'
    <2>1. Target(r, i, None)'
      BY <1>19
    <2>2. \A k \in 1 .. n : k - 1 \in Nat /\ s[k] # i
      BY <1>8
    <2>3. \A x, v : Target(r, x, v)' => IF x = i THEN v = None ELSE v \in Nat
      BY <1>19, <2>2
    <2>4. \A x, v, w : Target(r, x, v)' /\ Target(r, x, w)' => v = w
      <3>1. \A k, l \in 1 .. n : s[k] = s[l] => k - 1 = l - 1
        BY <1>8
      <3>2. QED BY <1>19, <2>2, <3>1
    <2>5. QED BY <1>4, <1>5, <1>14, <1>21, <2>1, <2>3, <2>4 DEF StageOk
  <1>23. ReorderOk(r)'
    BY <1>4, <1>5 DEF ReorderOk
  <1>24. DeleteOk(r)'
    <2>1. PICK f : Numbers(f, Rows \ {i}) /\ \A k \in 1 .. n : f[s[k]] = k - 1
      <3>1. PICK S : S = Rows \ {i}
        OBVIOUS
      <3>2. /\ IsFiniteSet(S) /\ \A k \in 1 .. n : s[k] \in S
            /\ \A k, l \in 1 .. n : k # l => s[k] # s[l]
            /\ \A x \in S : \E k \in 1 .. n : s[k] = x
        BY <1>6, <1>8, <3>1
      <3>3. \E f : Numbers(f, S) /\ \A k \in 1 .. n : f[s[k]] = k - 1
        BY <3>2, PlanNumbers
      <3>4. QED BY <3>1, <3>3
    <2>2. ASSUME NEW x \in Rows \ {i}
          PROVE  Final(r, x, f[x])'
      <3>1. PICK k \in 1 .. n : s[k] = x
        BY <1>8
      <3>2. PICK v : v = f[x]
        OBVIOUS
      <3>3. v = k - 1
        BY <2>1, <3>1, <3>2
      <3>4. CASE position[x] # k - 1
        <4>1. Target(r, x, v)'
          BY <1>19, <3>1, <3>3, <3>4
        <4>2. QED BY <3>2, <4>1 DEF Final
      <3>5. CASE position[x] = k - 1
        <4>1. x \notin Touched(r)'
          BY <1>8, <1>20, <3>1, <3>5
        <4>2. QED BY <1>15, <3>2, <3>3, <3>5, <4>1 DEF Final
      <3>6. QED BY <3>4, <3>5
    <2>3. ASSUME ~disturbed, NEW j \in Rows, position[j] > position[i]
          PROVE  j \in Touched(r)'
      <3>1. j # i
        BY <1>5, <1>6, <2>3
      <3>2. PICK k \in 1 .. n : s[k] = j
        BY <1>8, <3>1
      <3>3. Numbers(position, Rows)
        BY <2>3 DEF ImagesInv, InOrder
      <3>4. position[s[k]] # k - 1
        <4>1. \A l \in 1 .. n : s[l] \in Rows \ {i}
          BY <1>8
        <4>2. \A l, m \in 1 .. n : l # m => s[l] # s[m]
          BY <1>8
        <4>3. position[s[k]] > position[i]
          BY <2>3, <3>2
        <4>4. QED BY <1>1, <1>5, <1>9, <3>3, <4>1, <4>2, <4>3, LaterMove
      <3>5. QED BY <1>20, <3>2, <3>4
    <2>4. /\ \E g : Numbers(g, Rows \ {i}) /\ \A x \in Rows \ {i} : Final(r, x, g[x])'
          /\ ~disturbed => \A j \in Rows : position[j] > position[i] => j \in Touched(r)'
      BY <2>1, <2>2, <2>3
    <2>5. (task[r].image)' = i /\ position' = position /\ disturbed' = disturbed
      BY <1>4, <1>15
    <2>6. (\E g : Numbers(g, Rows \ {task[r].image})
                  /\ \A x \in Rows \ {task[r].image} : Final(r, x, g[x]))'
      BY <1>17, <2>4, <2>5 DEF Numbers
    <2>7. (~disturbed => \A j \in Rows : position[j] > position[task[r].image] => j \in Touched(r))'
      BY <1>17, <2>4, <2>5
    <2>8. QED BY <2>6, <2>7 DEF DeleteOk
  <1>25. \A q \in Req \ {r} : RequestOk(q)'
    BY <1>14, <1>15, RequestKept DEF ImagesInv
  <1>26. ASSUME NEW q \in Req
         PROVE  AloneOk(q)'
    <2>1. AloneOk(q)
      BY DEF ImagesInv
    <2>2. \A o \in Req : task'[o] = None <=> task[o] = None
      BY <1>3, <1>4
    <2>3. CASE q = r
      BY <1>3, <1>4, <2>1, <2>2, <2>3 DEF AloneOk
    <2>4. CASE q # r
      BY <1>4, <1>17, <2>1, <2>2, <2>4 DEF AloneOk
    <2>5. QED BY <2>3, <2>4
  <1>27. RequestOk(r)'
    BY <1>22, <1>23, <1>24 DEF RequestOk
  <1>28. QED BY <1>16, <1>18, <1>25, <1>26, <1>27 DEF ImagesInv

LEMMA ImagesInvInitially ==
  ASSUME ImagesInit
  PROVE  ImagesInv
  <1>1. PICK s \in SetToSeqs(Image) :
          position = [i \in Image |-> LET n == CHOOSE m \in DOMAIN s : s[m] = i
                                      IN IF n <= Existing THEN n - 1 ELSE None]
    BY DEF ImagesInit
  <1>2. /\ task = [r \in Req |-> None] /\ disturbed = FALSE
        /\ plan = [r \in Req |-> <<>>] /\ holds = [r \in Req |-> {}]
        /\ written = [r \in Req |-> [i \in {} |-> 0]]
    BY DEF ImagesInit
  <1>3. /\ Len(s) = Cardinality(Image) /\ Len(s) \in Nat /\ DOMAIN s = 1 .. Len(s)
        /\ \A k \in 1 .. Len(s) : s[k] \in Image
        /\ \A k, l \in 1 .. Len(s) : k # l => s[k] # s[l]
        /\ \A i \in Image : \E k \in 1 .. Len(s) : s[k] = i
    BY ImageNames, Listed
  <1> DEFINE at == [i \in Image |-> CHOOSE m \in DOMAIN s : s[m] = i]
  <1>4. \A i \in Image : position[i] = IF at[i] <= Existing THEN at[i] - 1 ELSE None
    BY <1>1
  <1>5. \A i \in Image : at[i] \in 1 .. Len(s) /\ s[at[i]] = i
    BY <1>3
  <1>6. position \in [Image -> Int \cup {None}]
    <2>1. position = [i \in Image |-> position[i]]
      BY <1>1
    <2> HIDE DEF at
    <2>2. QED BY <1>4, <1>5, <2>1
  <1> HIDE DEF at
  <1>7. \A k \in 1 .. Len(s) : at[s[k]] = k
    BY <1>3, <1>5
  <1>8. \A i \in Image : i \in Rows <=> at[i] <= Existing
    BY <1>4, <1>5, ImageNames DEF Rows
  <1>9. Numbers(position, Rows)
    <2>1. \A i \in Rows : i \in Image /\ at[i] \in 1 .. Existing /\ position[i] = at[i] - 1
      BY <1>4, <1>5, <1>8, ImageNames DEF Rows
    <2>2. \A i \in Rows : position[i] \in 0 .. Existing - 1
      BY <2>1, ImageNames
    <2>3. \A i, j \in Rows : i # j => position[i] # position[j]
      BY <1>5, <2>1
    <2>4. ASSUME NEW m \in 0 .. Existing - 1
          PROVE  \E i \in Rows : position[i] = m
      <3>1. m + 1 \in 1 .. Len(s) /\ m + 1 <= Existing /\ (m + 1) - 1 = m
        BY <1>3, ImageNames
      <3>2. s[m + 1] \in Image /\ at[s[m + 1]] = m + 1
        BY <1>3, <1>7, <3>1
      <3>3. s[m + 1] \in Rows
        BY <1>8, <3>1, <3>2
      <3>4. QED BY <2>1, <3>1, <3>2, <3>3
    <2>5. IsFiniteSet(Rows) /\ Existing \in Nat
      BY ImageNames, FS_Subset DEF Rows
    <2>6. QED BY <2>2, <2>3, <2>4, <2>5, NumbersIf
  <1>10. ImagesType
    <2>1. <<>> \in Seq(Image \X Int)
      OBVIOUS
    <2>2. [i \in {} |-> 0] \in Writings
      <3>1. [i \in {} |-> 0] \in [{} -> Int \cup {None}] /\ {} \in SUBSET Image
        OBVIOUS
      <3>2. QED BY <3>1 DEF Writings
    <2>3. QED BY <1>2, <1>6, <2>1, <2>2 DEF ImagesType
  <1>11. LocksInv
    BY <1>2 DEF LocksInv
  <1>12. \A r \in Req : RequestOk(r) /\ AloneOk(r)
    <2>1. SUFFICES ASSUME NEW r \in Req
                   PROVE  RequestOk(r) /\ AloneOk(r)
      OBVIOUS
    <2>2. task[r] = None /\ plan[r] = <<>> /\ DOMAIN written[r] = {}
      BY <1>2
    <2>3. \A op : ~Doing(r, op)
      BY <2>2 DEF Doing
    <2>4. StageOk(r)
      BY <2>2, <2>3 DEF StageOk
    <2>5. QED BY <2>2, <2>3, <2>4, Zenon DEF RequestOk, ReorderOk, DeleteOk, AloneOk
  <1>13. QED BY <1>9, <1>10, <1>11, <1>12 DEF ImagesInv, InOrder

LEMMA ImagesInvStays ==
  ASSUME ImagesInv, UNCHANGED <<position, task, plan, written, holds, disturbed>>
  PROVE  ImagesInv'
  <1>1. /\ ImagesType' /\ Rows' = Rows
    BY DEF ImagesInv, ImagesType, Rows
  <1>2. LocksInv' /\ InOrder'
    BY <1>1 DEF ImagesInv, LocksInv, InOrder, Numbers
  <1>3. \A r \in Req : RequestOk(r)'
    BY RequestKept DEF ImagesInv, Same
  <1>4. \A r \in Req : AloneOk(r)'
    BY <1>1 DEF ImagesInv, AloneOk
  <1>5. QED BY <1>1, <1>2, <1>3, <1>4 DEF ImagesInv

LEMMA ImagesInvInductive ==
  /\ ImagesInit => ImagesInv
  /\ ImagesInv /\ [ImagesNext]_imagesVars => ImagesInv'
  <1>1. ASSUME ImagesInv, ImagesNext
        PROVE  ImagesInv'
    <2>1. PICK r \in Req :
            \/ \E given \in Positions \cup {None} : CreateRead(r, given)
            \/ \E i \in Image : CreateCommit(r, i) \/ DeleteRead(r, i)
            \/ \E S \in SUBSET Rows : \E named \in SetToSeqs(S) : ReorderRead(r, named)
            \/ DeleteRow(r) \/ DeleteList(r) \/ Update(r) \/ Commit(r) \/ Abort(r)
      BY <1>1 DEF ImagesNext
    <2>2. CASE \E given \in Positions \cup {None} : CreateRead(r, given)
      BY <1>1, <2>2, CreateReadKeeps
    <2>3. CASE \E i \in Image : CreateCommit(r, i) \/ DeleteRead(r, i)
      BY <1>1, <2>3, CreateCommitKeeps, DeleteReadKeeps
    <2>4. CASE \E S \in SUBSET Rows : \E named \in SetToSeqs(S) : ReorderRead(r, named)
      BY <1>1, <2>4, ReorderReadKeeps
    <2>5. CASE DeleteRow(r)
      BY <1>1, <2>5, DeleteRowKeeps
    <2>6. CASE DeleteList(r)
      BY <1>1, <2>6, DeleteListKeeps
    <2>7. CASE Update(r)
      BY <1>1, <2>7, UpdateKeeps
    <2>8. CASE Commit(r)
      BY <1>1, <2>8, CommitKeeps
    <2>9. CASE Abort(r)
      BY <1>1, <2>9, AbortKeeps
    <2>10. QED BY <2>1, <2>2, <2>3, <2>4, <2>5, <2>6, <2>7, <2>8, <2>9
  <1>2. ASSUME ImagesInv, UNCHANGED imagesVars
        PROVE  ImagesInv'
    BY <1>2, ImagesInvStays DEF imagesVars, txVars
  <1>3. QED BY <1>1, <1>2, ImagesInvInitially

\* Of any number of images and requests: the images are numbered from 0 without gap or
\* repetition whenever no creation has disturbed them, however deletions and reorderings
\* (deleteServiceImage, reorderServiceImages) interleave and whichever of them aborts.
THEOREM ImagesStayNumbered == ImagesSpec => []NumberedUnlessDisturbed
  <1>1. ASSUME ImagesInv
        PROVE  NumberedUnlessDisturbed
    <2>1. SUFFICES ASSUME ~disturbed
                   PROVE  {position[i] : i \in Rows} = 0 .. Cardinality(Rows) - 1
      BY DEF NumberedUnlessDisturbed
    <2>2. Numbers(position, Rows)
      BY <1>1, <2>1 DEF ImagesInv, InOrder
    <2>3. QED BY <2>2 DEF Numbers
  <1>2. QED BY <1>1, ImagesInvInductive, PTL DEF ImagesSpec

\* The requests that have counted the images and not yet inserted theirs.
Creators == {r \in Req : Doing(r, "create") \/ Doing(r, "place")}

\* The images there are and the ones on their way.
RoomInv == Cardinality(Rows) + Cardinality(Creators) <= MaxImages + Cardinality(Req) - 1

LEMMA CountsAre ==
  ASSUME ImagesType
  PROVE  /\ IsFiniteSet(Rows) /\ Cardinality(Rows) \in Nat
         /\ IsFiniteSet(Creators) /\ Cardinality(Creators) \in Nat
         /\ Cardinality(Creators) <= Cardinality(Req) /\ Cardinality(Req) \in Nat
         /\ MaxImages \in Nat
  <1>1. Creators \subseteq Req
    BY DEF Creators
  <1>2. QED BY <1>1, RowsAre, ImageNames, FS_Subset, FS_CardinalityType

LEMMA RoomKept ==
  ASSUME ImagesType, ImagesType', RoomInv, Rows' \subseteq Rows, Creators' \subseteq Creators
  PROVE  RoomInv'
  <1>1. PICK R, C : R = Rows' /\ C = Creators'
    OBVIOUS
  <1>2. /\ Cardinality(R) \in Nat /\ Cardinality(R) <= Cardinality(Rows)
        /\ Cardinality(C) \in Nat /\ Cardinality(C) <= Cardinality(Creators)
    BY <1>1, CountsAre, FS_Subset, FS_CardinalityType
  <1>3. Cardinality(R) + Cardinality(C) <= MaxImages + Cardinality(Req) - 1
    BY <1>2, CountsAre DEF RoomInv
  <1>4. QED BY <1>1, <1>3 DEF RoomInv

LEMMA RoomWhenBegun ==
  ASSUME ImagesInv, ImagesInv', RoomInv, NEW r \in Req, NEW op \in {"delete", "write"},
         NEW image \in Image \cup {None}, Begin(r, op, image, None)
  PROVE  RoomInv'
  <1>1. [op |-> op, image |-> image, place |-> None, alone |-> TRUE] \in Task
    BY DEF Task
  <1>2. /\ position' = position /\ task[r] = None /\ task'[r].op = op
        /\ \A q \in Req \ {r} : /\ task'[q] = None <=> task[q] = None
                                /\ task[q] # None => task'[q].op = task[q].op
    BY <1>1, BeginDone DEF ImagesInv
  <1>3. Rows' = Rows /\ Creators' \subseteq Creators
    BY <1>2 DEF Rows, Creators, Doing
  <1>4. QED BY <1>3, RoomKept DEF ImagesInv

LEMMA RoomWhenEnded ==
  ASSUME ImagesInv, ImagesInv', RoomInv, NEW r \in Req, End(r), Rows' \subseteq Rows
  PROVE  RoomInv'
  <1>1. task'[r] = None /\ \A q \in Req \ {r} : task'[q] = task[q]
    BY EndDone DEF ImagesInv
  <1>2. Creators' \subseteq Creators
    BY <1>1 DEF Creators, Doing
  <1>3. QED BY <1>2, RoomKept DEF ImagesInv

LEMMA RoomWhenCounted ==
  ASSUME ImagesInv, ImagesInv', RoomInv, NEW r \in Req, NEW given, CreateRead(r, given)
  PROVE  RoomInv'
  <1>1. Rows' = Rows /\ Cardinality(Rows) < MaxImages
    BY DEF CreateRead, Begin, Room, Rows
  <1>2. PICK C : C = Creators'
    OBVIOUS
  <1>3. Cardinality(C) \in Nat /\ Cardinality(C) <= Cardinality(Req)
    <2>1. C \subseteq Req
      BY <1>2 DEF Creators
    <2>2. QED BY <2>1, ImageNames, FS_Subset, FS_CardinalityType
  <1>4. Cardinality(Rows) + Cardinality(C) <= MaxImages + Cardinality(Req) - 1
    BY <1>1, <1>3, CountsAre DEF ImagesInv
  <1>5. QED BY <1>1, <1>2, <1>4 DEF RoomInv

LEMMA RoomWhenInserted ==
  ASSUME ImagesInv, ImagesInv', RoomInv, NEW r \in Req, NEW i \in Image, CreateCommit(r, i)
  PROVE  RoomInv'
  <1>1. /\ Doing(r, "create") \/ Doing(r, "place")
        /\ i \notin Rows /\ \A j \in Image \ {i} : position'[j] = position[j]
        /\ End(r)
    BY DEF CreateCommit, ImagesInv, ImagesType
  <1>2. PICK R, C : R = Rows' /\ C = Creators'
    OBVIOUS
  <1>3. R \subseteq Rows \cup {i}
    BY <1>1, <1>2 DEF Rows
  <1>4. C \subseteq Creators \ {r} /\ r \in Creators
    <2>1. task'[r] = None /\ \A q \in Req \ {r} : task'[q] = task[q]
      BY <1>1, EndDone DEF ImagesInv
    <2>2. QED BY <1>1, <1>2, <2>1 DEF Creators, Doing
  <1>5. Cardinality(R) \in Nat /\ Cardinality(R) <= Cardinality(Rows) + 1
    <2>1. IsFiniteSet(Rows \cup {i}) /\ Cardinality(Rows \cup {i}) = Cardinality(Rows) + 1
      BY <1>1, CountsAre, FS_AddElement DEF ImagesInv
    <2>2. IsFiniteSet(R) /\ Cardinality(R) <= Cardinality(Rows \cup {i})
      BY <1>3, <2>1, FS_Subset
    <2>3. QED BY <2>1, <2>2, FS_CardinalityType
  <1>6. Cardinality(C) \in Nat /\ Cardinality(C) <= Cardinality(Creators) - 1
    <2>1. IsFiniteSet(Creators \ {r}) /\ Cardinality(Creators \ {r}) = Cardinality(Creators) - 1
      BY <1>4, CountsAre, FS_RemoveElement DEF ImagesInv
    <2>2. IsFiniteSet(C) /\ Cardinality(C) <= Cardinality(Creators \ {r})
      BY <1>4, <2>1, FS_Subset
    <2>3. QED BY <2>1, <2>2, FS_CardinalityType
  <1>7. Cardinality(R) + Cardinality(C) <= MaxImages + Cardinality(Req) - 1
    BY <1>5, <1>6, CountsAre DEF RoomInv, ImagesInv
  <1>8. QED BY <1>2, <1>7 DEF RoomInv

LEMMA RoomInvInductive ==
  /\ ImagesInit => RoomInv
  /\ ImagesInv /\ ImagesInv' /\ RoomInv /\ [ImagesNext]_imagesVars => RoomInv'
  <1>1. ASSUME ImagesInit
        PROVE  RoomInv
    <2>1. ImagesInv /\ Creators = {}
      BY <1>1, ImagesInvInitially DEF ImagesInit, Creators, Doing
    <2>2. Cardinality(Creators) = 0 /\ Cardinality(Req) >= 1
      BY <2>1, ImageNames, FS_EmptySet, FS_CardinalityType
    <2>3. Cardinality(Rows) <= Existing
      <3>1. PICK s \in SetToSeqs(Image) :
              position = [i \in Image |-> LET n == CHOOSE m \in DOMAIN s : s[m] = i
                                          IN IF n <= Existing THEN n - 1 ELSE None]
        BY <1>1 DEF ImagesInit
      <3>2. \A i \in Rows : position[i] \in 0 .. Existing - 1
        <4>1. /\ DOMAIN s = 1 .. Len(s) /\ Len(s) \in Nat
              /\ \A i \in Image : \E k \in 1 .. Len(s) : s[k] = i
          BY ImageNames, Listed
        <4>2. QED BY <3>1, <4>1, ImageNames DEF Rows
      <3>3. \A i, j \in Rows : i # j => position[i] # position[j]
        BY <1>1, <2>1 DEF ImagesInit, ImagesInv, InOrder, Numbers
      <3>4. [i \in Rows |-> position[i]] \in Injection(Rows, 0 .. Existing - 1)
        BY <3>2, <3>3 DEF Injection, IsInjective
      <3>5. IsFiniteSet(0 .. Existing - 1) /\ Cardinality(0 .. Existing - 1) = Existing
        <4>1. /\ IsFiniteSet(0 .. Existing - 1)
              /\ Cardinality(0 .. Existing - 1) =
                   IF 0 > Existing - 1 THEN 0 ELSE Existing - 1 - 0 + 1
          BY ImageNames, FS_Interval
        <4>2. QED BY <4>1, ImageNames
      <3>6. QED BY <3>4, <3>5, FS_Injection
    <2>4. QED BY <2>1, <2>2, <2>3, CountsAre, ImageNames DEF RoomInv, ImagesInv
  <1>2. ASSUME ImagesInv, ImagesInv', RoomInv, ImagesNext
        PROVE  RoomInv'
    <2>1. PICK r \in Req :
            \/ \E given \in Positions \cup {None} : CreateRead(r, given)
            \/ \E i \in Image : CreateCommit(r, i) \/ DeleteRead(r, i)
            \/ \E S \in SUBSET Rows : \E named \in SetToSeqs(S) : ReorderRead(r, named)
            \/ DeleteRow(r) \/ DeleteList(r) \/ Update(r) \/ Commit(r) \/ Abort(r)
      BY <1>2 DEF ImagesNext
    <2>2. CASE \E given \in Positions \cup {None} : CreateRead(r, given)
      BY <1>2, <2>2, RoomWhenCounted
    <2>3. CASE \E i \in Image : CreateCommit(r, i)
      BY <1>2, <2>3, RoomWhenInserted
    <2>4. CASE \E i \in Image : DeleteRead(r, i)
      BY <1>2, <2>4, RoomWhenBegun DEF DeleteRead
    <2>5. CASE \E S \in SUBSET Rows : \E named \in SetToSeqs(S) : ReorderRead(r, named)
      BY <1>2, <2>5, RoomWhenBegun DEF ReorderRead
    <2>6. CASE DeleteRow(r) \/ DeleteList(r)
      <3>1. /\ position' = position /\ task[r] # None /\ task[r].op \in {"delete", "list"}
            /\ \/ task' = [task EXCEPT ![r].op = "list"]
               \/ task' = [task EXCEPT ![r].op = "write"]
        BY <2>6 DEF DeleteRow, DeleteList, Doing
      <3>2. task'[r].op \in {"list", "write"} /\ \A q \in Req \ {r} : task'[q] = task[q]
        BY <1>2, <3>1, StageDone, Zenon DEF ImagesInv
      <3>3. Rows' = Rows /\ Creators' \subseteq Creators
        BY <3>1, <3>2 DEF Rows, Creators, Doing
      <3>4. QED BY <1>2, <3>3, RoomKept DEF ImagesInv
    <2>7. CASE Update(r)
      BY <1>2, <2>7, RoomKept DEF Update, ImagesInv, Rows, Creators, Doing
    <2>8. CASE Commit(r)
      <3>1. Rows' \subseteq Rows
        BY <1>2, <2>8 DEF Commit, Rows, ImagesInv, LocksInv
      <3>2. QED BY <1>2, <2>8, <3>1, RoomWhenEnded DEF Commit
    <2>9. CASE Abort(r)
      <3>1. Rows' = Rows
        BY <2>9 DEF Abort, Rows
      <3>2. QED BY <1>2, <2>9, <3>1, RoomWhenEnded DEF Abort
    <2>10. QED BY <2>1, <2>2, <2>3, <2>4, <2>5, <2>6, <2>7, <2>8, <2>9
  <1>3. ASSUME ImagesInv, ImagesInv', RoomInv, UNCHANGED imagesVars
        PROVE  RoomInv'
    BY <1>3, RoomKept DEF ImagesInv, imagesVars, Rows, Creators, Doing
  <1>4. QED BY <1>1, <1>2, <1>3

\* Of any number of requests that create images at once (createServiceImageForVendor counts
\* and then inserts), each beyond the first exceeds the limit by one image at most.
THEOREM LimitMissedByFew == ImagesSpec => []LimitMissedOnlyTogether
  <1>1. ASSUME ImagesInv, RoomInv
        PROVE  LimitMissedOnlyTogether
    BY <1>1, CountsAre DEF RoomInv, LimitMissedOnlyTogether, ImagesInv
  <1>2. QED BY <1>1, ImagesInvInductive, RoomInvInductive, PTL DEF ImagesSpec
=============================================================================
