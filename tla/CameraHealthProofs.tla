-------------------------- MODULE CameraHealthProofs --------------------------
(* Theorems about CameraHealth, for any cameras, any answers of Home          *)
(* Assistant, any threshold and staleness limit, and any number of polls,    *)
(* failures and restarts.                                                    *)
EXTENDS CameraHealth, WellFoundedInduction, TLAPS

Polls == [at : 0..MaxTime, first : BOOLEAN, seen : [Cameras -> Statuses]]

TypeInv ==
  /\ pollAt \in 0..MaxTime \cup {None}
  /\ starting \in BOOLEAN
  /\ now \in 0..MaxTime
  /\ current \in [Cameras -> Rows \cup {None}]
  /\ polls \in Seq(Polls)
  /\ Len(polls) <= MaxPolls

(* A row against what the n polls of its camera saw, h, and their moments, t. *)

Repeats(n, h) ==
  {i \in 1..n : /\ i >= Threshold
                /\ h[i] # "healthy"
                /\ \A j \in (i - Threshold + 1)..i : h[j] = h[i]}

\* What a row is counting towards.  Without a candidate it shows what the last
\* poll saw.  With one, its failures are the last polls, and what came before
\* them is nothing, a poll of another kind, or a commit of the same status.
CandidateOf(n, h, row) ==
  IF row.pending = None
    THEN row.status = h[n] /\ (row.status = "offline" => row.offlineSince # None)
    ELSE /\ row.failures >= 1
         /\ \A j \in (n - row.failures + 1)..n : h[j] = row.pending
         /\ \/ row.failures = n /\ row.status = row.pending
            \/ row.failures < n /\ h[n - row.failures] # row.pending
            \/ row.status = row.pending /\ (row.pending = "offline" => row.offlineSince # None)

\* The polls the current status may come from; it comes from the last.
Decisive(n, h) == {i \in 1..n : i = 1 \/ h[i] = "healthy" \/ i \in Repeats(n, h)}
StatusOf(n, h, row) ==
  \E i \in Decisive(n, h) : (\A j \in Decisive(n, h) : j <= i) /\ row.status = h[i]

\* The polls that confirmed the present outage; it counts from the first.
Since(n, h) ==
  {i \in 1..n : /\ \A k \in 1..n : h[k] = "healthy" => k < i
                /\ h[i] = "offline" /\ i \in Repeats(n, h)}
OutageOf(n, h, t, row) ==
  IF Since(n, h) = {} THEN row.offlineSince = None
  ELSE \E i \in Since(n, h) : (\A j \in Since(n, h) : i <= j) /\ row.offlineSince = t[i]

RowInv(n, h, t, row) ==
  IF n = 0 THEN row = None
  ELSE /\ row \in Rows
       /\ row.failures <= n
       /\ row.checked = t[n]
       /\ CandidateOf(n, h, row) /\ StatusOf(n, h, row) /\ OutageOf(n, h, t, row)

SeenBy(c) == [i \in 1..Len(polls) |-> polls[i].seen[c]]
Moments   == [i \in 1..Len(polls) |-> polls[i].at]

Inv == TypeInv /\ \A c \in Cameras : RowInv(Len(polls), SeenBy(c), Moments, current[c])

-----------------------------------------------------------------------------
LEMMA InitInv == Init => Inv
BY HealthAssumption DEF HealthAssumption, Init, Inv, TypeInv, RowInv

\* What one poll makes of a row: a recovery, a commit, or one more failure.
LEMMA Recorded ==
  ASSUME NEW row \in Rows \cup {None}, NEW status \in Statuses, NEW at \in 0..MaxTime,
         row # None => row.failures < MaxPolls, MaxPolls >= 1
  PROVE  LET before == IF row = None THEN NewRow(status, at) ELSE row
             count == IF before.pending = status THEN before.failures + 1 ELSE 1
             new == RecordCurrent(row, status, at)
         IN /\ new \in Rows /\ new.checked = at
            /\ status = "healthy" =>
                 new.status = "healthy" /\ new.pending = None /\ new.offlineSince = None
                   /\ new.failures = 0
            /\ status # "healthy" /\ count >= Threshold =>
                 /\ new.status = status /\ new.pending = None /\ new.failures = count
                 /\ new.offlineSince = IF status = "offline" /\ before.offlineSince = None
                                         THEN at ELSE before.offlineSince
            /\ status # "healthy" /\ ~(count >= Threshold) =>
                 /\ new.status = before.status /\ new.pending = status /\ new.failures = count
                 /\ new.offlineSince = before.offlineSince
<1> USE HealthAssumption DEF HealthAssumption
<1> DEFINE before == IF row = None THEN NewRow(status, at) ELSE row
           count == IF before.pending = status THEN before.failures + 1 ELSE 1
           counted == CountFailure(before, status, at)
<1>1. before \in Rows /\ before.failures < MaxPolls
  BY DEF NewRow, Rows
<1>2. count \in 1..MaxPolls
  BY <1>1 DEF Rows
<1>3. counted = [before EXCEPT !.pending = status, !.checked = at, !.failures = count]
  BY DEF CountFailure
<1> HIDE DEF before, count, counted
<1>4. CASE status = "healthy"
  <2>1. RecordCurrent(row, status, at) = Healthy(before, at)
    BY <1>4 DEF RecordCurrent, before, counted
  <2>2. [before EXCEPT !.status = "healthy", !.pending = None] \in Rows
    BY <1>1 DEF Rows, Statuses
  <2>3. Healthy(before, at) \in Rows
    <3>1. 0 \in 0..MaxPolls
      OBVIOUS
    <3>2. [[before EXCEPT !.status = "healthy", !.pending = None]
             EXCEPT !.failures = 0, !.checked = at, !.offlineSince = None] \in Rows
      BY <2>2, <3>1 DEF Rows
    <3> QED BY <2>2, <3>2 DEF Healthy, Rows
  <2>4. /\ Healthy(before, at).checked = at /\ Healthy(before, at).status = "healthy"
        /\ Healthy(before, at).pending = None /\ Healthy(before, at).offlineSince = None
        /\ Healthy(before, at).failures = 0
    BY <1>1 DEF Healthy, Rows
  <2> QED BY <1>4, <2>1, <2>3, <2>4 DEF before, count
<1>5. CASE status # "healthy"
  <2>0. counted = [status |-> before.status, pending |-> status, failures |-> count,
                   checked |-> at, offlineSince |-> before.offlineSince]
    BY <1>1, <1>3 DEF Rows
  <2>1. /\ counted \in Rows /\ counted.checked = at /\ counted.pending = status
        /\ counted.failures = count /\ counted.status = before.status
        /\ counted.offlineSince = before.offlineSince
    BY <1>1, <1>2, <1>5, <2>0 DEF Rows, Adverse
  <2>2. CASE count >= Threshold
    <3>1. RecordCurrent(row, status, at) = Commit(counted, status, at)
      BY <1>5, <2>1, <2>2 DEF RecordCurrent, before, counted
    <3>2. /\ Commit(counted, status, at) \in Rows
          /\ Commit(counted, status, at).checked = at
          /\ Commit(counted, status, at).status = status
          /\ Commit(counted, status, at).pending = None
          /\ Commit(counted, status, at).failures = count
          /\ Commit(counted, status, at).offlineSince =
               IF status = "offline" /\ before.offlineSince = None
                 THEN at ELSE before.offlineSince
      BY <2>1 DEF Commit, Rows
    <3> QED BY <1>5, <2>2, <3>1, <3>2 DEF before, count
  <2>3. CASE ~(count >= Threshold)
    <3>1. RecordCurrent(row, status, at) = counted
      BY <1>5, <2>1, <2>3 DEF RecordCurrent, before, counted
    <3> QED BY <1>5, <2>1, <2>3, <3>1 DEF before, count
  <2> QED BY <2>2, <2>3
<1> QED BY <1>4, <1>5

\* Where the last k polls begin, of n polls before and one more.
LEMMA LastPolls ==
  ASSUME NEW n \in Nat, NEW f \in Nat, NEW k \in Nat, k = f + 1, f <= n
  PROVE  (n + 1) - k = n - f /\ n - f \in Nat /\ (f >= 1 /\ f < n => n - f \in 1..n)
OBVIOUS

\* A row after one more poll: its candidate, its status, its outage.
LEMMA PollKeepsRow ==
  ASSUME NEW n \in Nat, NEW s \in Statuses, NEW at \in 0..MaxTime, n < MaxPolls,
         NEW h \in [1..n -> Statuses], NEW g \in [1..(n + 1) -> Statuses],
         NEW t \in [1..n -> 0..MaxTime], NEW u \in [1..(n + 1) -> 0..MaxTime],
         \A i \in 1..n : g[i] = h[i] /\ u[i] = t[i],
         g[n + 1] = s, u[n + 1] = at,
         NEW row \in Rows \cup {None}, RowInv(n, h, t, row),
         NEW new, new = RecordCurrent(row, s, at)
  PROVE  RowInv(n + 1, g, u, new)
<1> USE HealthAssumption DEF HealthAssumption
<1>1. PICK before : before = IF row = None THEN NewRow(s, at) ELSE row
  OBVIOUS
<1>2. PICK count : count = IF before.pending = s THEN before.failures + 1 ELSE 1
  OBVIOUS
<1>3. \A i \in 1..n : i \in Repeats(n + 1, g) <=> i \in Repeats(n, h)
  <2> SUFFICES ASSUME NEW i \in 1..n PROVE i \in Repeats(n + 1, g) <=> i \in Repeats(n, h)
    OBVIOUS
  <2>1. i >= Threshold => \A j \in (i - Threshold + 1)..i : j \in 1..n
    OBVIOUS
  <2> QED BY <2>1 DEF Repeats
<1>4. /\ n = 0 => row = None
      /\ n > 0 => /\ row \in Rows /\ row # None /\ row.failures <= n
                  /\ CandidateOf(n, h, row) /\ StatusOf(n, h, row) /\ OutageOf(n, h, t, row)
  BY <1>3 DEF RowInv
<1>5. /\ s \in Statuses /\ at \in 0..MaxTime /\ MaxPolls >= 1
      /\ row # None => row.failures < MaxPolls
  BY <1>4 DEF Rows
<1>6. /\ new \in Rows /\ new.checked = at
      /\ s = "healthy" => /\ new.status = "healthy" /\ new.pending = None
                          /\ new.offlineSince = None /\ new.failures = 0
      /\ s # "healthy" /\ count >= Threshold =>
           /\ new.status = s /\ new.pending = None /\ new.failures = count
           /\ new.offlineSince = IF s = "offline" /\ before.offlineSince = None
                                   THEN at ELSE before.offlineSince
      /\ s # "healthy" /\ ~(count >= Threshold) =>
           /\ new.status = before.status /\ new.pending = s /\ new.failures = count
           /\ new.offlineSince = before.offlineSince
  BY <1>1, <1>2, <1>5, Recorded
<1>7. /\ n = 0 => before.status = s /\ before.offlineSince = None /\ before.pending = None
      /\ n > 0 => before = row
      /\ before.failures \in Nat /\ before.failures <= n
      /\ count \in 1..(n + 1)
  BY <1>1, <1>2, <1>3, <1>4 DEF NewRow, Rows
<1>8. /\ s # None /\ at # None
      /\ \A i \in 1..(n + 1) : i \in 1..n \/ i = n + 1
  BY <1>3, <1>5

\* The polls a candidate counts are the last ones.
<1>9. s # "healthy" => \A j \in ((n + 1) - count + 1)..(n + 1) : g[j] = s
  <2> SUFFICES ASSUME s # "healthy", NEW j \in ((n + 1) - count + 1)..(n + 1), j # n + 1
               PROVE  g[j] = s
    BY <1>3
  <2>0. count \in Nat /\ count > 1 /\ j \in Int /\ j <= n /\ j > (n + 1) - count
    BY <1>7
  <2>1. count # 1 /\ before.pending = s /\ count = before.failures + 1 /\ n > 0
    BY <1>2, <1>7, <1>8, <2>0
  <2>2. row.pending = s /\ count = row.failures + 1 /\ row.failures \in Nat
    BY <1>7, <2>1
  <2>3. \A k \in (n - row.failures + 1)..n : h[k] = s
    BY <1>4, <1>8, <2>1, <2>2 DEF CandidateOf
  <2>4. row.failures <= n
    BY <1>4, <2>1
  <2>5. j \in (n - row.failures + 1)..n /\ j \in 1..n
    <3>1. (n + 1) - count = n - row.failures /\ n - row.failures \in Nat
      BY <2>0, <2>2, <2>4, LastPolls
    <3>2. j > n - row.failures
      BY <2>0, <3>1
    <3> QED BY <2>0, <3>1, <3>2
  <2> QED BY <2>3, <2>5

<1>10. CandidateOf(n + 1, g, new) <=>
        IF new.pending = None
          THEN new.status = g[n + 1] /\ (new.status = "offline" => new.offlineSince # None)
          ELSE /\ new.failures >= 1
               /\ \A j \in ((n + 1) - new.failures + 1)..(n + 1) : g[j] = new.pending
               /\ \/ new.failures = n + 1 /\ new.status = new.pending
                  \/ new.failures < n + 1 /\ g[(n + 1) - new.failures] # new.pending
                  \/ /\ new.status = new.pending
                     /\ new.pending = "offline" => new.offlineSince # None
  BY DEF CandidateOf
<1>11. CandidateOf(n + 1, g, new)
  <2>2. CASE s = "healthy"
    BY <1>6, <1>10, <2>2
  <2>3. CASE s # "healthy" /\ count >= Threshold
    BY <1>6, <1>8, <1>10, <2>3
  <2>4. CASE s # "healthy" /\ ~(count >= Threshold)
    <3>1. /\ new.pending = s /\ new.failures = count /\ new.status = before.status
          /\ new.offlineSince = before.offlineSince /\ s # None /\ count >= 1
      BY <1>6, <1>7, <1>8, <2>4
    <3>2. \/ count = n + 1 /\ before.status = s
          \/ count < n + 1 /\ g[(n + 1) - count] # s
          \/ before.status = s /\ (s = "offline" => before.offlineSince # None)
      <4>1. CASE n = 0
        BY <1>2, <1>3, <1>7, <1>8, <4>1
      <4>2. CASE n > 0 /\ before.pending = s
        <5>1. row.pending = s /\ count = row.failures + 1 /\ before = row
          BY <1>2, <1>7, <4>2
        <5>2. \/ row.failures = n /\ row.status = s
              \/ row.failures < n /\ h[n - row.failures] # s
              \/ row.status = s /\ (s = "offline" => row.offlineSince # None)
          BY <1>4, <1>8, <4>2, <5>1 DEF CandidateOf
        <5>3. row.failures \in Nat /\ row.failures >= 1
          BY <1>4, <1>7, <1>8, <4>2, <5>1 DEF CandidateOf
        <5>4. row.failures < n => n - row.failures \in 1..n /\ (n + 1) - count = n - row.failures
          <6>1. count \in Nat /\ (row.failures < n => row.failures <= n)
            BY <1>7, <5>3
          <6> QED BY <5>1, <5>3, <6>1, LastPolls
        <5>5. row.failures < n => g[(n + 1) - count] = h[n - row.failures]
          BY <5>4
        <5>6. row.failures = n => count = n + 1
          BY <5>1
        <5>7. row.failures < n => count < n + 1
          BY <5>1, <5>3
        <5> QED BY <5>1, <5>2, <5>5, <5>6, <5>7
      <4>3. CASE n > 0 /\ before.pending # s
        <5>1. count = 1 /\ before = row /\ (n + 1) - count = n /\ n \in 1..n /\ count < n + 1
          BY <1>2, <1>3, <1>7, <4>3
        <5>2. CASE row.pending = None
          <6>1. row.status = h[n] /\ (row.status = "offline" => row.offlineSince # None)
            BY <1>4, <4>3, <5>2 DEF CandidateOf
          <6> QED BY <1>3, <5>1, <6>1
        <5>3. CASE row.pending # None
          <6>1. row.failures \in Nat /\ row.failures >= 1
            BY <1>4, <1>7, <4>3, <5>1, <5>3 DEF CandidateOf
          <6>2. n \in (n - row.failures + 1)..n
            BY <1>3, <6>1
          <6>3. h[n] = row.pending
            BY <1>4, <4>3, <5>3, <6>2 DEF CandidateOf
          <6> QED BY <1>3, <4>3, <5>1, <6>3
        <5> QED BY <5>2, <5>3
      <4> QED BY <1>3, <4>1, <4>2, <4>3
    <3> QED BY <1>9, <1>10, <2>4, <3>1, <3>2
  <2> QED BY <2>2, <2>3, <2>4

\* A commit is a repetition, and a repetition without one was committed before.
<1>12. n + 1 \in Repeats(n + 1, g) <=>
        /\ n + 1 >= Threshold /\ s # "healthy"
        /\ \A j \in (n + 1 - Threshold + 1)..(n + 1) : g[j] = s
  BY <1>3 DEF Repeats
<1>13. s # "healthy" /\ count >= Threshold => n + 1 \in Repeats(n + 1, g)
  BY <1>3, <1>7, <1>9, <1>12
<1>14. n + 1 \in Repeats(n + 1, g) /\ ~(count >= Threshold) =>
         /\ new.status = s /\ (s = "offline" => new.offlineSince # None)
  <2> SUFFICES ASSUME n + 1 \in Repeats(n + 1, g), ~(count >= Threshold)
               PROVE  new.status = s /\ (s = "offline" => new.offlineSince # None)
    OBVIOUS
  <2>1. new.pending = s /\ new.failures = count /\ s # None /\ s # "healthy"
    BY <1>6, <1>8, <1>12
  <2>2. count < n + 1 /\ (n + 1) - count \in (n + 1 - Threshold + 1)..(n + 1)
    BY <1>3, <1>7, <1>12
  <2>3. g[(n + 1) - count] = s
    BY <1>12, <2>2
  <2>4. new.failures # n + 1 /\ g[(n + 1) - new.failures] = new.pending
    BY <1>3, <1>7, <2>1, <2>2, <2>3
  <2>5. \/ new.failures = n + 1 /\ new.status = new.pending
        \/ new.failures < n + 1 /\ g[(n + 1) - new.failures] # new.pending
        \/ new.status = new.pending /\ (new.pending = "offline" => new.offlineSince # None)
    BY <1>11, <1>10, <2>1
  <2> QED BY <2>1, <2>4, <2>5

<1>15. StatusOf(n + 1, g, new)
  <2>1. \A i \in 1..n : i \in Decisive(n + 1, g) <=> i \in Decisive(n, h)
    BY <1>3 DEF Decisive
  <2>2. n + 1 \in Decisive(n + 1, g) <=> n = 0 \/ s = "healthy" \/ n + 1 \in Repeats(n + 1, g)
    BY <1>3 DEF Decisive
  <2>3. Decisive(n + 1, g) \subseteq 1..(n + 1) /\ Decisive(n, h) \subseteq 1..n
    BY <1>3 DEF Decisive
  <2>4. CASE n + 1 \in Decisive(n + 1, g)
    <3>1. new.status = s
      BY <1>6, <1>7, <1>13, <1>14, <2>2, <2>4
    <3>2. \A j \in Decisive(n + 1, g) : j <= n + 1
      BY <1>3, <2>3
    <3> QED BY <1>3, <2>4, <3>1, <3>2 DEF StatusOf
  <2>5. CASE n + 1 \notin Decisive(n + 1, g)
    <3>1. n > 0 /\ s # "healthy" /\ ~(count >= Threshold) /\ new.status = row.status
      BY <1>3, <1>6, <1>7, <1>13, <2>2, <2>5
    <3>2. PICK i \in Decisive(n, h) : (\A j \in Decisive(n, h) : j <= i) /\ row.status = h[i]
      BY <1>4, <3>1 DEF StatusOf
    <3>3. Decisive(n + 1, g) = Decisive(n, h)
      <4>1. Decisive(n + 1, g) \subseteq 1..n
        BY <2>3, <2>5
      <4> QED BY <2>1, <2>3, <4>1
    <3>4. g[i] = h[i]
      BY <1>3, <2>3
    <3> QED BY <3>1, <3>2, <3>3, <3>4 DEF StatusOf
  <2> QED BY <2>4, <2>5

<1>16. OutageOf(n + 1, g, u, new)
  <2>1. Since(n + 1, g) \subseteq 1..(n + 1) /\ Since(n, h) \subseteq 1..n
    BY <1>3 DEF Since
  <2>2. CASE s = "healthy"
    <3>1. Since(n + 1, g) = {}
      BY <1>3, <2>1, <2>2 DEF Since
    <3> QED BY <1>6, <2>2, <3>1 DEF OutageOf
  <2>3. CASE s # "healthy"
    <3>1. \A i \in 1..n : i \in Since(n + 1, g) <=> i \in Since(n, h)
      BY <1>3, <2>3 DEF Since
    <3>2. n + 1 \in Since(n + 1, g) <=> s = "offline" /\ n + 1 \in Repeats(n + 1, g)
      <4>1. \A k \in 1..(n + 1) : g[k] = "healthy" => k < n + 1
        BY <1>8, <2>3
      <4> QED BY <2>3, <4>1 DEF Since
    <3>3. before.offlineSince = None <=> Since(n, h) = {}
      <4>1. CASE n = 0
        BY <1>7, <2>1, <4>1
      <4>2. CASE n > 0
        <5>1. Since(n, h) # {} => \E i \in Since(n, h) : row.offlineSince = t[i]
          BY <1>4, <4>2 DEF OutageOf
        <5>2. \A i \in 1..n : t[i] # None
          BY <1>3
        <5>3. Since(n, h) = {} => row.offlineSince = None
          BY <1>4, <4>2 DEF OutageOf
        <5> QED BY <1>7, <2>1, <4>2, <5>1, <5>2, <5>3
      <4> QED BY <1>3, <4>1, <4>2
    <3>4. CASE Since(n, h) # {}
      <4>1. n > 0 /\ before = row
        BY <1>3, <1>7, <2>1, <3>4
      <4>2. PICK i \in Since(n, h) : (\A j \in Since(n, h) : i <= j) /\ row.offlineSince = t[i]
        BY <1>4, <3>4, <4>1 DEF OutageOf
      <4>3. new.offlineSince = row.offlineSince
        BY <1>6, <2>3, <3>3, <3>4, <4>1
      <4>4. i \in Since(n + 1, g) /\ u[i] = t[i] /\ \A j \in Since(n + 1, g) : i <= j
        BY <1>3, <2>1, <3>1, <4>2
      <4> QED BY <4>2, <4>3, <4>4 DEF OutageOf
    <3>5. CASE Since(n, h) = {}
      <4>1. Since(n + 1, g) \subseteq {n + 1}
        BY <1>8, <2>1, <3>1, <3>5
      <4>2. before.offlineSince = None
        BY <3>3, <3>5
      <4>3. CASE s = "offline" /\ n + 1 \in Repeats(n + 1, g)
        <5>1. count >= Threshold
          BY <1>6, <1>14, <2>3, <4>2, <4>3
        <5>2. new.offlineSince = at
          BY <1>6, <2>3, <4>2, <4>3, <5>1
        <5>3. Since(n + 1, g) = {n + 1}
          BY <3>2, <4>1, <4>3
        <5>4. n + 1 \in Since(n + 1, g) /\ \A j \in Since(n + 1, g) : n + 1 <= j
          BY <5>3
        <5>5. new.offlineSince = u[n + 1]
          BY <5>2
        <5> QED BY <5>4, <5>5 DEF OutageOf
      <4>4. CASE ~(s = "offline" /\ n + 1 \in Repeats(n + 1, g))
        <5>1. Since(n + 1, g) = {}
          BY <3>2, <4>1, <4>4
        <5>2. new.offlineSince = None
          BY <1>6, <1>13, <2>3, <4>2, <4>4
        <5> QED BY <5>1, <5>2 DEF OutageOf
      <4> QED BY <4>3, <4>4
    <3> QED BY <3>4, <3>5
  <2> QED BY <2>2, <2>3

<1>17. new \in Rows /\ new.failures <= n + 1 /\ new.checked = u[n + 1]
  BY <1>3, <1>6, <1>7
<1> QED BY <1>3, <1>8, <1>11, <1>15, <1>16, <1>17 DEF RowInv

\* Without a new poll and a new row nothing is to be shown.
LEMMA NoPollKeepsInv ==
  ASSUME Inv, TypeInv', UNCHANGED <<current, polls>>
  PROVE  Inv'
BY DEF Inv, SeenBy, Moments

LEMMA NextKeepsInv == Inv /\ [Next]_vars => Inv'
<1> SUFFICES ASSUME Inv, [Next]_vars PROVE Inv'
  OBVIOUS
<1> USE HealthAssumption DEF HealthAssumption
<1>1. CASE PollRecord
  <2>1. PICK seen \in [Cameras -> Statuses] :
          /\ current' = [c \in Cameras |-> RecordCurrent(current[c], seen[c], pollAt)]
          /\ polls' = Append(polls, [at |-> pollAt, first |-> starting, seen |-> seen])
    BY <1>1 DEF PollRecord
  <2>2. PICK poll, n, p, q : /\ poll = [at |-> pollAt, first |-> starting, seen |-> seen]
                             /\ n = Len(polls) /\ p = polls /\ q = polls'
    OBVIOUS
  <2>3. /\ poll \in Polls /\ p \in Seq(Polls) /\ q = Append(p, poll)
        /\ n \in Nat /\ n = Len(p) /\ n < MaxPolls /\ n + 1 <= MaxPolls
    BY <1>1, <2>1, <2>2 DEF Inv, TypeInv, Polls, PollRecord
  <2>4. /\ q \in Seq(Polls) /\ Len(q) = n + 1 /\ q[n + 1] = poll
        /\ \A i \in 1..n : q[i] = p[i] /\ p[i] \in Polls
        /\ \A i \in 1..(n + 1) : q[i] \in Polls
    BY <2>3
  <2>5. \A c \in Cameras : /\ RowInv(n + 1, SeenBy(c)', Moments', current'[c])
                            /\ current'[c] \in Rows
    <3> SUFFICES ASSUME NEW c \in Cameras
                 PROVE  RowInv(n + 1, SeenBy(c)', Moments', current'[c]) /\ current'[c] \in Rows
      OBVIOUS
    <3>1. PICK h, g, t, u : /\ h = [i \in 1..n |-> p[i].seen[c]]
                            /\ g = [i \in 1..(n + 1) |-> q[i].seen[c]]
                            /\ t = [i \in 1..n |-> p[i].at]
                            /\ u = [i \in 1..(n + 1) |-> q[i].at]
      OBVIOUS
    <3>2. h = SeenBy(c) /\ t = Moments /\ g = SeenBy(c)' /\ u = Moments'
      BY <2>2, <2>4, <3>1 DEF SeenBy, Moments
    <3>3. PICK row, new, s : row = current[c] /\ new = current'[c] /\ s = seen[c]
      OBVIOUS
    <3>4. /\ row \in Rows \cup {None} /\ RowInv(n, h, t, row) /\ s \in Statuses
          /\ pollAt \in 0..MaxTime /\ new = RecordCurrent(row, s, pollAt)
      BY <1>1, <2>1, <2>2, <3>2, <3>3 DEF Inv, TypeInv, PollRecord
    <3>5. /\ h \in [1..n -> Statuses] /\ t \in [1..n -> 0..MaxTime]
          /\ g \in [1..(n + 1) -> Statuses] /\ u \in [1..(n + 1) -> 0..MaxTime]
      BY <2>4, <3>1 DEF Polls
    <3>6. /\ \A i \in 1..n : g[i] = h[i] /\ u[i] = t[i]
          /\ g[n + 1] = s /\ u[n + 1] = pollAt
      BY <2>2, <2>3, <2>4, <3>1, <3>3
    <3>7. RowInv(n + 1, g, u, new)
      BY <2>3, <3>4, <3>5, <3>6, PollKeepsRow
    <3> QED BY <2>3, <3>2, <3>3, <3>7 DEF RowInv
  <2>6. TypeInv'
    BY <1>1, <2>1, <2>2, <2>3, <2>4, <2>5 DEF Inv, TypeInv, PollRecord
  <2> QED BY <2>2, <2>4, <2>5, <2>6 DEF Inv
<1>2. CASE PollStart
  BY <1>2, NoPollKeepsInv DEF Inv, TypeInv, PollStart
<1>3. CASE PollFails
  BY <1>3, NoPollKeepsInv DEF Inv, TypeInv, PollFails
<1>4. CASE Tick
  BY <1>4, NoPollKeepsInv DEF Inv, TypeInv, Tick
<1>5. CASE Stop
  BY <1>5, NoPollKeepsInv DEF Inv, TypeInv, Stop
<1>6. CASE Start
  BY <1>6, NoPollKeepsInv DEF Inv, TypeInv, Start
<1>7. CASE UNCHANGED vars
  BY <1>7, NoPollKeepsInv DEF Inv, TypeInv, vars
<1> QED BY <1>1, <1>2, <1>3, <1>4, <1>5, <1>6, <1>7 DEF Next

LEMMA SpecInv == Spec => []Inv
BY InitInv, NextKeepsInv, PTL DEF Spec

-----------------------------------------------------------------------------
\* One step of the argument of both theorems: the sets of polls that the
\* invariant and the properties speak of are the same.
LEMMA SamePolls ==
  ASSUME TypeInv, NEW c \in Cameras, polls # <<>>
  PROVE  /\ Len(polls) \in Nat \ {0} /\ DOMAIN polls = 1..Len(polls)
         /\ \A i \in 1..Len(polls) : polls[i].seen[c] = SeenBy(c)[i] /\ polls[i].at = Moments[i]
         /\ \A i \in 1..Len(polls) : Repeated(c, i) <=> i \in Repeats(Len(polls), SeenBy(c))
<1> USE HealthAssumption DEF HealthAssumption
<1>1. Len(polls) \in Nat \ {0} /\ DOMAIN polls = 1..Len(polls)
  BY DEF TypeInv
<1>2. \A i \in 1..Len(polls) : polls[i].seen[c] = SeenBy(c)[i] /\ polls[i].at = Moments[i]
  BY DEF SeenBy, Moments
<1>3. ASSUME NEW i \in 1..Len(polls)
      PROVE  Repeated(c, i) <=> i \in Repeats(Len(polls), SeenBy(c))
  <2>1. i >= Threshold => \A j \in (i - Threshold + 1)..i : j \in 1..Len(polls)
    BY <1>1
  <2>2. i >= Threshold => \A j \in (i - Threshold + 1)..i : polls[j].seen[c] = SeenBy(c)[j]
    BY <1>2, <2>1
  <2> QED BY <1>2, <2>2 DEF Repeated, Repeats
<1> QED BY <1>1, <1>2, <1>3

LEMMA GreatestIsMax ==
  ASSUME NEW S \in SUBSET Int, NEW x \in S, \A y \in S : y <= x
  PROVE  Max(S) = x
<1>1. \E z \in S : \A y \in S : z >= y
  OBVIOUS
<1>2. PICK m : m = Max(S)
  OBVIOUS
<1>3. m \in S /\ \A y \in S : m >= y
  BY <1>1, <1>2 DEF Max
<1>4. m \in Int /\ x \in Int /\ m >= x /\ m <= x
  BY <1>3
<1> QED BY <1>2, <1>4

LEMMA LeastIsMin ==
  ASSUME NEW S \in SUBSET Int, NEW x \in S, \A y \in S : x <= y
  PROVE  Min(S) = x
<1>1. \E z \in S : \A y \in S : z <= y
  OBVIOUS
<1>2. PICK m : m = Min(S)
  OBVIOUS
<1>3. m \in S /\ \A y \in S : m <= y
  BY <1>1, <1>2 DEF Min
<1>4. m \in Int /\ x \in Int /\ m >= x /\ m <= x
  BY <1>3
<1> QED BY <1>2, <1>4

LEMMA InvGivesDebounced == Inv => CurrentIsDebounced
<1> SUFFICES ASSUME Inv, NEW c \in Cameras, polls # <<>>
             PROVE  LET decisive == {i \in DOMAIN polls :
                                       i = 1 \/ polls[i].seen[c] = "healthy" \/ Repeated(c, i)}
                        debounced == polls[Max(decisive)].seen[c]
                    IN /\ current[c].status = debounced
                       /\ Effective(c) = IF now - polls[Len(polls)].at > StaleAfter
                                            THEN "unknown" ELSE debounced
  BY DEF CurrentIsDebounced
<1> DEFINE n == Len(polls)
           h == SeenBy(c)
           decisive == {i \in DOMAIN polls :
                          i = 1 \/ polls[i].seen[c] = "healthy" \/ Repeated(c, i)}
<1>1. /\ n \in Nat \ {0} /\ DOMAIN polls = 1..n
      /\ \A i \in 1..n : polls[i].seen[c] = h[i] /\ polls[i].at = Moments[i]
  BY SamePolls DEF Inv
<1>2. \A i \in 1..n : Repeated(c, i) <=> i \in Repeats(n, h)
  BY SamePolls DEF Inv
<1>3. /\ current[c] \in Rows /\ current[c].checked = Moments[n] /\ StatusOf(n, h, current[c])
  BY <1>1 DEF Inv, RowInv
<1> HIDE DEF n, h
<1>4. decisive = Decisive(n, h)
  <2>1. ASSUME NEW i \in 1..n PROVE i \in decisive <=> i \in Decisive(n, h)
    <3>0. Repeated(c, i) <=> i \in Repeats(n, h)
      BY <1>2
    <3>1. polls[i].seen[c] = h[i] /\ i \in DOMAIN polls
      BY <1>1
    <3> QED BY <3>0, <3>1 DEF Decisive
  <2>2. decisive \subseteq 1..n /\ Decisive(n, h) \subseteq 1..n
    BY <1>1 DEF Decisive
  <2> QED BY <2>1, <2>2
<1>5. PICK i \in Decisive(n, h) : (\A j \in Decisive(n, h) : j <= i) /\ current[c].status = h[i]
  BY <1>3 DEF StatusOf
<1>6. i \in 1..n /\ Decisive(n, h) \in SUBSET Int
  BY DEF Decisive
<1>7. Max(decisive) = i
  BY <1>4, <1>5, <1>6, GreatestIsMax
<1>8. current[c].status = polls[Max(decisive)].seen[c]
  <2>1. polls[i].seen[c] = h[i]
    BY <1>1, <1>6
  <2> QED BY <1>5, <1>7, <2>1
<1>9. current[c].checked = polls[n].at /\ current[c] # None
  <2>1. polls[n].at = Moments[n]
    BY <1>1
  <2> QED BY <1>3, <2>1, HealthAssumption DEF HealthAssumption
<1>10. Effective(c) = IF now - polls[n].at > StaleAfter THEN "unknown" ELSE current[c].status
  BY <1>9 DEF Effective
<1> QED BY <1>8, <1>10 DEF n

\* The current status is what the last decisive poll saw, and no older than the
\* staleness limit when reported: _record_current and _effective_status.
THEOREM CurrentStaysDebounced == Spec => []CurrentIsDebounced
BY SpecInv, InvGivesDebounced, PTL

LEMMA InvGivesConfirmed == Inv => OfflineSinceIsConfirmed
<1> SUFFICES ASSUME Inv, NEW c \in Cameras, polls # <<>>
             PROVE  LET healthy == {i \in DOMAIN polls : polls[i].seen[c] = "healthy"}
                        since == {i \in DOMAIN polls :
                                    /\ \A k \in healthy : k < i
                                    /\ polls[i].seen[c] = "offline" /\ Repeated(c, i)}
                    IN current[c].offlineSince = IF since = {} THEN None ELSE polls[Min(since)].at
  BY DEF OfflineSinceIsConfirmed
<1> DEFINE n == Len(polls)
           h == SeenBy(c)
           healthy == {i \in DOMAIN polls : polls[i].seen[c] = "healthy"}
           since == {i \in DOMAIN polls : /\ \A k \in healthy : k < i
                                          /\ polls[i].seen[c] = "offline" /\ Repeated(c, i)}
<1>1. /\ n \in Nat \ {0} /\ DOMAIN polls = 1..n
      /\ \A i \in 1..n : polls[i].seen[c] = h[i] /\ polls[i].at = Moments[i]
  BY SamePolls DEF Inv
<1>2. \A i \in 1..n : Repeated(c, i) <=> i \in Repeats(n, h)
  BY SamePolls DEF Inv
<1>3. OutageOf(n, h, Moments, current[c])
  BY <1>1 DEF Inv, RowInv
<1> HIDE DEF n, h
<1>4. since = Since(n, h)
  <2>1. \A k \in 1..n : k \in healthy <=> h[k] = "healthy"
    BY <1>1
  <2>2. ASSUME NEW i \in 1..n PROVE i \in since <=> i \in Since(n, h)
    <3>0. Repeated(c, i) <=> i \in Repeats(n, h)
      BY <1>2
    <3>1. polls[i].seen[c] = h[i] /\ i \in DOMAIN polls
      BY <1>1
    <3>2. healthy \subseteq 1..n
      BY <1>1
    <3>3. (\A k \in healthy : k < i) <=> \A k \in 1..n : h[k] = "healthy" => k < i
      BY <2>1, <3>2
    <3> HIDE DEF healthy
    <3> QED BY <3>0, <3>1, <3>3 DEF Since
  <2>3. since \subseteq 1..n /\ Since(n, h) \subseteq 1..n
    BY <1>1 DEF Since
  <2> QED BY <2>2, <2>3
<1>5. Since(n, h) \in SUBSET (1..n)
  BY DEF Since
<1>6. CASE since = {}
  BY <1>3, <1>4, <1>6 DEF OutageOf
<1>7. CASE since # {}
  <2>1. PICK i \in Since(n, h) : /\ \A j \in Since(n, h) : i <= j
                                 /\ current[c].offlineSince = Moments[i]
    BY <1>3, <1>4, <1>7 DEF OutageOf
  <2>2. Since(n, h) \in SUBSET Int
    BY <1>5
  <2>3. Min(Since(n, h)) = i
    BY <2>1, <2>2, LeastIsMin
  <2>4. polls[i].at = Moments[i]
    BY <1>1, <1>5
  <2> QED BY <1>4, <1>7, <2>1, <2>3, <2>4
<1> QED BY <1>6, <1>7

\* offline_since is the moment the present outage was first confirmed, however
\* often the same or another adverse status was recorded since: _record_current.
THEOREM OfflineSinceStaysConfirmed == Spec => []OfflineSinceIsConfirmed
BY SpecInv, InvGivesConfirmed, PTL

-----------------------------------------------------------------------------
LEMMA HistoryTyped ==
  ASSUME NEW s \in Seq(Intervals), NEW status \in Statuses, NEW at \in 0..MaxTime
  PROVE  RecordHistory(s, status, at) \in Seq(Intervals)
<1> USE HealthAssumption DEF HealthAssumption
<1>1. ASSUME NEW q \in Seq(Intervals) PROVE StartInterval(q, status, at) \in Seq(Intervals)
  <2>1. [status |-> status, started |-> at, ended |-> Open, through |-> at] \in Intervals
    BY DEF Intervals
  <2> QED BY <2>1 DEF StartInterval
<1>2. CASE s = <<>> \/ Last(s).ended # Open
  BY <1>1, <1>2 DEF RecordHistory
<1>3. CASE s # <<>> /\ Last(s).ended = Open
  <2>1. Len(s) \in 1..Len(s) /\ s[Len(s)] \in Intervals /\ Last(s) = s[Len(s)]
    BY <1>3 DEF Last
  <2>2. ASSUME NEW x \in Intervals PROVE [s EXCEPT ![Len(s)] = x] \in Seq(Intervals)
    BY <2>1, <2>2
  <2>3. ExtendInterval(s, at) \in Seq(Intervals)
    <3>1. [s[Len(s)] EXCEPT !.through = at] \in Intervals
      BY <2>1 DEF Intervals
    <3>2. ExtendInterval(s, at) = [s EXCEPT ![Len(s)] = [s[Len(s)] EXCEPT !.through = at]]
      BY <2>1 DEF ExtendInterval
    <3> QED BY <2>2, <3>1, <3>2
  <2>4. ASSUME NEW moment \in {at, None} PROVE CloseInterval(s, moment) \in Seq(Intervals)
    <3>1. PICK end : end = Max2(IF moment # None THEN moment ELSE Last(s).through, Last(s).through)
      OBVIOUS
    <3>2. end \in 0..MaxTime
      BY <2>1, <3>1 DEF Intervals, Max2
    <3>3. [s[Len(s)] EXCEPT !.ended = end] \in Intervals
      BY <2>1, <3>2 DEF Intervals
    <3>4. CloseInterval(s, moment) = [s EXCEPT ![Len(s)] = [s[Len(s)] EXCEPT !.ended = end]]
      BY <2>1, <3>1 DEF CloseInterval
    <3> QED BY <2>2, <3>3, <3>4
  <2> QED BY <1>1, <1>3, <2>3, <2>4 DEF RecordHistory
<1> QED BY <1>2, <1>3

LEMMA NextKeepsTypes == Inv /\ TypeOK /\ [Next]_vars => TypeOK'
<1> SUFFICES ASSUME Inv, TypeOK, [Next]_vars PROVE TypeOK'
  OBVIOUS
<1> USE HealthAssumption DEF HealthAssumption
<1>1. now' \in 0..MaxTime /\ current' \in [Cameras -> Rows \cup {None}] /\ polls' \in Seq(Polls)
  BY NextKeepsInv DEF Inv, TypeInv
<1>2. pollAt' \in 0..MaxTime \cup {None} /\ starting' \in BOOLEAN
  BY NextKeepsInv DEF Inv, TypeInv
<1>3. up' \in BOOLEAN
  BY DEF TypeOK, Next, PollStart, PollRecord, PollFails, Tick, Stop, Start, vars
<1>4. history' \in [Cameras -> Seq(Intervals)]
  <2>1. CASE PollRecord
    <3>1. PICK seen \in [Cameras -> Statuses] :
            history' = [c \in Cameras |-> RecordHistory(history[c], seen[c], pollAt)]
      BY <2>1 DEF PollRecord
    <3>2. pollAt \in 0..MaxTime
      BY <2>1 DEF PollRecord, TypeOK
    <3> QED BY <3>1, <3>2, HistoryTyped DEF TypeOK
  <2>2. CASE ~PollRecord
    BY <2>2 DEF TypeOK, Next, PollStart, PollFails, Tick, Stop, Start, vars
  <2> QED BY <2>1, <2>2
<1> QED BY <1>1, <1>2, <1>3, <1>4 DEF TypeOK, Polls

\* Every row and every interval the monitor writes is a legal one: an interval
\* that was closed has an end, and a candidate is never a healthy status.
THEOREM TypesStayCorrect == Spec => []TypeOK
<1>1. Init => TypeOK
  BY HealthAssumption DEF HealthAssumption, Init, TypeOK
<1>2. Inv /\ TypeOK /\ [Next]_vars => TypeOK'
  BY NextKeepsTypes
<1> QED BY <1>1, <1>2, SpecInv, PTL DEF Spec

-----------------------------------------------------------------------------
LEMMA LeastNat ==
  ASSUME NEW T \in SUBSET Nat, T # {}
  PROVE  \E x \in T : \A y \in T : x <= y
<1>1. PICK R : R = OpToRel(<, Nat)
  OBVIOUS
<1>2. \A x, y \in Nat : <<x, y>> \in R <=> x < y
  BY <1>1 DEF OpToRel
<1>3. IsWellFoundedOn(R, Nat)
  BY <1>1, NatLessThanWellFounded
<1>4. PICK x \in T : \A y \in T : ~ (<<y, x>> \in R)
  BY <1>3, WFMin
<1>5. ASSUME NEW y \in T PROVE x <= y
  <2>1. ~(y < x)
    BY <1>2, <1>4
  <2> QED BY <2>1
<1> QED BY <1>5

\* The loop over a number of rows, written out.
Unrolled(s, n, start, end, grace, acc) ==
  acc = [k \in 0..n |->
           IF k = 0
             THEN [segments |-> IF s[1].started > start
                                  THEN {Segment(start, Min2(s[1].started, end), "unknown")} ELSE {},
                   cursor   |-> Max2(start, s[1].started)]
           ELSE IF Overlaps(s[k], start, end)
             THEN AddInterval(acc[k - 1], s[k], start, end, grace)
           ELSE acc[k - 1]]

LEMMA LoopRuns ==
  ASSUME NEW s, NEW start, NEW end, NEW grace
  PROVE  \A n \in Nat : \E acc : Unrolled(s, n, start, end, grace, acc)
<1> DEFINE fails == {n \in Nat : ~ \E acc : Unrolled(s, n, start, end, grace, acc)}
<1> SUFFICES ASSUME fails # {} PROVE FALSE
  OBVIOUS
<1>1. PICK n \in fails : \A m \in fails : n <= m
  BY LeastNat
<1>2. CASE n = 0
  <2>1. PICK acc : acc = [k \in 0..0 |-> 
            [segments |-> IF s[1].started > start
                                  THEN {Segment(start, Min2(s[1].started, end), "unknown")} ELSE {},
                   cursor   |-> Max2(start, s[1].started)]]
    OBVIOUS
  <2>2. Unrolled(s, 0, start, end, grace, acc)
    BY <2>1 DEF Unrolled
  <2> QED BY <1>2, <2>2
<1>3. CASE n # 0
  <2>1. n - 1 \in Nat /\ n - 1 \notin fails /\ n \in Nat
    BY <1>1, <1>3
  <2>2. PICK acc : Unrolled(s, n - 1, start, end, grace, acc)
    BY <2>1
  <2>3. PICK last : last = IF Overlaps(s[n], start, end)
                             THEN AddInterval(acc[n - 1], s[n], start, end, grace)
                             ELSE acc[n - 1]
    OBVIOUS
  <2>4. PICK more : more = [k \in 0..n |-> IF k = n THEN last ELSE acc[k]]
    OBVIOUS
  <2>5. more[n] = last /\ \A k \in 0..(n - 1) : more[k] = acc[k] /\ k \in 0..n
    BY <2>1, <2>4
  <2>6. acc[0] = [segments |-> IF s[1].started > start
                                THEN {Segment(start, Min2(s[1].started, end), "unknown")} ELSE {},
                 cursor   |-> Max2(start, s[1].started)]
    BY <2>1, <2>2 DEF Unrolled
  <2>7. ASSUME NEW k \in 1..(n - 1)
        PROVE  acc[k] = IF Overlaps(s[k], start, end)
                          THEN AddInterval(acc[k - 1], s[k], start, end, grace)
                          ELSE acc[k - 1]
    <3>1. k \in 0..(n - 1) /\ k # 0
      BY <2>1
    <3> QED BY <2>2, <3>1 DEF Unrolled
  <2>8. ASSUME NEW k \in 1..n
        PROVE  more[k] = IF Overlaps(s[k], start, end)
                           THEN AddInterval(more[k - 1], s[k], start, end, grace)
                           ELSE more[k - 1]
    <3>1. more[k - 1] = acc[k - 1]
      BY <2>1, <2>5
    <3>2. CASE k = n
      BY <2>3, <2>5, <3>1, <3>2
    <3>3. CASE k # n
      <4>1. k \in 1..(n - 1) /\ k \in 0..(n - 1)
        BY <2>1, <3>3
      <4>2. more[k] = acc[k]
        BY <2>5, <4>1
      <4> QED BY <2>7, <3>1, <4>1, <4>2
    <3> QED BY <3>2, <3>3
  <2>9. more[0] = acc[0] /\ more = [k \in 0..n |-> more[k]] /\ \A k \in 0..n : k = 0 \/ k \in 1..n
    BY <2>1, <2>4, <2>5
  <2>10. more = [k \in 0..n |->
            IF k = 0
              THEN [segments |-> IF s[1].started > start
                                   THEN {Segment(start, Min2(s[1].started, end), "unknown")} ELSE {},
                    cursor   |-> Max2(start, s[1].started)]
            ELSE IF Overlaps(s[k], start, end)
              THEN AddInterval(more[k - 1], s[k], start, end, grace)
            ELSE more[k - 1]]
    BY <2>6, <2>8, <2>9, Zenon
  <2> QED BY <2>10 DEF Unrolled
<1> QED BY <1>2, <1>3

LEMMA TimelineUnrolls ==
  ASSUME NEW s, NEW start, NEW end, NEW grace, Len(s) \in Nat
  PROVE  Unrolled(s, Len(s), start, end, grace, Timeline(s, start, end, grace))
<1>1. \E acc : Unrolled(s, Len(s), start, end, grace, acc)
  BY LoopRuns
<1>2. Timeline(s, start, end, grace) = CHOOSE acc : Unrolled(s, Len(s), start, end, grace, acc)
  BY DEF Timeline, Unrolled
<1> QED BY <1>1, <1>2

-----------------------------------------------------------------------------
\* The slices an interval answers for, and what a history says of a slice.
Covers(interval, t, grace) == interval.started <= t /\ t < ConfirmedTo(interval, grace)

StatusesAt(s, t, grace) == {s[k].status : k \in {k \in 1..Len(s) : Covers(s[k], t, grace)}}

TruthAt(s, t, grace) ==
  IF StatusesAt(s, t, grace) = {} THEN {"unknown"} ELSE StatusesAt(s, t, grace)

\* What a set of segments says of a slice.
Told(segments, t) == {g.status : g \in {g \in segments : g.start <= t /\ t < g.end}}

\* The intervals follow one another, and only the last may be open.
Ordered(s) ==
  /\ s \in Seq(Intervals)
  /\ \A k \in 1..Len(s) : /\ s[k].started <= s[k].through
                          /\ s[k].ended # Open => s[k].through <= s[k].ended
  /\ \A j, k \in 1..Len(s) : j < k => s[j].ended # Open /\ s[j].ended <= s[k].started

WithinWindow(segments, start, end) ==
  \A g \in segments : /\ g.start \in Int /\ g.end \in Int /\ g.status \in Statuses
                      /\ start <= g.start /\ g.end <= end

\* The loop after k intervals: up to the cursor the timeline is right, no later
\* interval begins before it, and nothing after it is covered by an earlier one.
LoopInv(s, k, start, end, grace, acc) ==
  /\ acc.cursor \in Int /\ start <= acc.cursor
  /\ WithinWindow(acc.segments, start, end)
  /\ \A g \in acc.segments : g.end <= acc.cursor
  /\ \A t \in start..(end - 1) : t < acc.cursor => Told(acc.segments, t) = TruthAt(s, t, grace)
  /\ \A j \in 1..Len(s), t \in start..(end - 1) :
       j <= k /\ Covers(s[j], t, grace) => t < acc.cursor
  /\ \A j \in 1..Len(s) : j > k => acc.cursor = start \/ acc.cursor <= s[j].started

LEMMA OneInterval ==
  ASSUME NEW s, Ordered(s), NEW k \in 1..Len(s), NEW grace \in Nat
  PROVE  /\ s[k].started \in Nat /\ s[k].status \in Statuses /\ Len(s) \in Nat
         /\ ConfirmedTo(s[k], grace) \in Nat /\ s[k].started <= ConfirmedTo(s[k], grace)
         /\ \A j \in 1..Len(s) : j > k => ConfirmedTo(s[k], grace) <= s[j].started
         /\ \A j \in 1..Len(s) : j < k => ConfirmedTo(s[j], grace) <= s[k].started
<1>1. \A j \in 1..Len(s) : s[j] \in Intervals
  BY DEF Ordered
<1>2. Len(s) \in Nat /\ MaxTime \in Nat
  BY HealthAssumption DEF Ordered, HealthAssumption
<1>3. \A j \in 1..Len(s) : j # k => j \in Int /\ k \in Int
  BY <1>2
<1> QED BY <1>1, <1>2, <1>3 DEF Ordered, ConfirmedTo, Intervals, Open

\* At most one interval answers for a slice.
LEMMA OneTruth ==
  ASSUME NEW s, Ordered(s), NEW grace \in Nat, NEW t \in Int, NEW k \in 1..Len(s),
         Covers(s[k], t, grace)
  PROVE  TruthAt(s, t, grace) = {s[k].status}
<1>1. ASSUME NEW j \in 1..Len(s), Covers(s[j], t, grace) PROVE j = k
  <2>0. /\ ConfirmedTo(s[j], grace) \in Nat /\ s[j].started \in Nat
        /\ ConfirmedTo(s[k], grace) \in Nat /\ s[k].started \in Nat
    BY OneInterval
  <2>1. j \in Int /\ k \in Int
    BY OneInterval
  <2>2. CASE j < k
    <3>1. ConfirmedTo(s[j], grace) <= s[k].started
      BY <2>2, OneInterval
    <3> QED BY <1>1, <2>0, <3>1 DEF Covers
  <2>3. CASE k < j
    <3>1. ConfirmedTo(s[k], grace) <= s[j].started
      BY <2>3, OneInterval
    <3> QED BY <1>1, <2>0, <3>1 DEF Covers
  <2> QED BY <2>1, <2>2, <2>3
<1>2. StatusesAt(s, t, grace) = {s[k].status}
  BY <1>1 DEF StatusesAt
<1> QED BY <1>2 DEF TruthAt

LEMMA NoTruth ==
  ASSUME NEW s, NEW grace, NEW t, \A k \in 1..Len(s) : ~Covers(s[k], t, grace)
  PROVE  TruthAt(s, t, grace) = {"unknown"}
BY DEF TruthAt, StatusesAt

\* What one interval adds to the loop.
LEMMA OneStep ==
  ASSUME NEW s, Ordered(s), NEW k \in 1..Len(s), NEW grace \in Nat,
         NEW start \in Nat, NEW end \in Nat, start < end, NEW acc,
         LoopInv(s, k - 1, start, end, grace, acc), Overlaps(s[k], start, end)
  PROVE  LET from == Max2(s[k].started, start)
             to   == Min2(ConfirmedTo(s[k], grace), end)
             new  == AddInterval(acc, s[k], start, end, grace)
         IN /\ acc.cursor <= from
            /\ new.cursor = IF from < to THEN to ELSE from
            /\ new.segments = acc.segments
                 \cup (IF acc.cursor < from THEN {Segment(acc.cursor, from, "unknown")} ELSE {})
                 \cup (IF from < to THEN {Segment(from, to, s[k].status)} ELSE {})
<1> DEFINE from == Max2(s[k].started, start)
           to   == Min2(ConfirmedTo(s[k], grace), end)
           began == s[k].started
           new  == AddInterval(acc, s[k], start, end, grace)
<1>1. began \in Nat /\ ConfirmedTo(s[k], grace) \in Nat /\ began <= end
  BY OneInterval DEF Overlaps
<1>2. acc.cursor \in Int /\ start <= acc.cursor /\ (acc.cursor = start \/ acc.cursor <= began)
  <2>1. k > k - 1
    BY OneInterval
  <2> QED BY <2>1 DEF LoopInv
<1>3. /\ began > acc.cursor => Min2(began, end) = from /\ acc.cursor < from
      /\ ~(began > acc.cursor) => acc.cursor = from
      /\ from \in Int /\ to \in Int
  BY <1>1, <1>2 DEF Min2, Max2
<1>4. NonEmpty({Segment(from, to, s[k].status)}) =
        IF from < to THEN {Segment(from, to, s[k].status)} ELSE {}
  BY DEF NonEmpty, Segment
<1>5. new = [segments |-> acc.segments
               \cup (IF began > acc.cursor THEN {Segment(acc.cursor, Min2(began, end), "unknown")} ELSE {})
               \cup NonEmpty({Segment(from, to, s[k].status)}),
             cursor |-> IF to > from
                          THEN Max2(IF began > acc.cursor THEN Min2(began, end) ELSE acc.cursor, to)
                          ELSE IF began > acc.cursor THEN Min2(began, end) ELSE acc.cursor]
  BY DEF AddInterval
<1> HIDE DEF from, to, began, new
<1>6. new.cursor = IF from < to THEN to ELSE from
  BY <1>3, <1>5 DEF Max2
<1>7. new.segments = acc.segments
        \cup (IF acc.cursor < from THEN {Segment(acc.cursor, from, "unknown")} ELSE {})
        \cup (IF from < to THEN {Segment(from, to, s[k].status)} ELSE {})
  <2>1. new.segments = acc.segments
               \cup (IF began > acc.cursor THEN {Segment(acc.cursor, Min2(began, end), "unknown")} ELSE {})
               \cup NonEmpty({Segment(from, to, s[k].status)})
    BY <1>5
  <2>2. began > acc.cursor <=> acc.cursor < from
    BY <1>2, <1>3
  <2> QED BY <1>3, <1>4, <2>1, <2>2
<1>8. acc.cursor <= from
  BY <1>2, <1>3
<1> QED BY <1>6, <1>7, <1>8 DEF from, to, new

\* What a slice is told by a set of segments and one more.
LEMMA ToldMore ==
  ASSUME NEW segments, NEW more, NEW t
  PROVE  Told(segments \cup more, t) = Told(segments, t) \cup Told(more, t)
BY DEF Told

LEMMA ToldOne ==
  ASSUME NEW from \in Int, NEW to \in Int, NEW status, NEW t \in Int, NEW segments,
         segments = IF from < to THEN {Segment(from, to, status)} ELSE {}
  PROVE  Told(segments, t) = IF from <= t /\ t < to THEN {status} ELSE {}
<1>1. PICK g : g = Segment(from, to, status)
  OBVIOUS
<1>2. g.start = from /\ g.end = to /\ g.status = status
  BY <1>1 DEF Segment
<1>3. CASE from < to
  <2>1. segments = {g}
    BY <1>1, <1>3
  <2>2. Told(segments, t) = IF g.start <= t /\ t < g.end THEN {g.status} ELSE {}
    BY <2>1 DEF Told
  <2> QED BY <1>2, <2>2
<1>4. CASE ~(from < to)
  BY <1>4 DEF Told
<1> QED BY <1>3, <1>4

LEMMA ToldNone ==
  ASSUME NEW segments, NEW t, \A g \in segments : ~(g.start <= t /\ t < g.end)
  PROVE  Told(segments, t) = {}
BY DEF Told

LEMMA LoopStep ==
  ASSUME NEW s, Ordered(s), NEW k \in 1..Len(s), NEW grace \in Nat,
         NEW start \in Nat, NEW end \in Nat, start < end, NEW acc,
         LoopInv(s, k - 1, start, end, grace, acc), Overlaps(s[k], start, end)
  PROVE  LoopInv(s, k, start, end, grace, AddInterval(acc, s[k], start, end, grace))
<1> DEFINE new == AddInterval(acc, s[k], start, end, grace)
<1>1. PICK from, to, hole, span :
        /\ from = Max2(s[k].started, start) /\ to = Min2(ConfirmedTo(s[k], grace), end)
        /\ hole = IF acc.cursor < from THEN {Segment(acc.cursor, from, "unknown")} ELSE {}
        /\ span = IF from < to THEN {Segment(from, to, s[k].status)} ELSE {}
  OBVIOUS
<1>2. /\ acc.cursor <= from /\ new.segments = (acc.segments \cup hole) \cup span
      /\ new.cursor = IF from < to THEN to ELSE from
  BY <1>1, OneStep
<1> HIDE DEF new
<1>3. /\ s[k].started \in Nat /\ ConfirmedTo(s[k], grace) \in Nat /\ s[k].started <= end
      /\ s[k].status \in Statuses /\ "unknown" \in Statuses /\ k \in Int
      /\ s[k].started <= ConfirmedTo(s[k], grace) /\ Len(s) \in Nat
  <2>1. /\ s[k].started \in Nat /\ ConfirmedTo(s[k], grace) \in Nat /\ s[k].status \in Statuses
        /\ s[k].started <= ConfirmedTo(s[k], grace) /\ Len(s) \in Nat
    BY OneInterval
  <2>2. "unknown" \in Statuses
    BY DEF Statuses
  <2> QED BY <2>1, <2>2 DEF Overlaps
<1>4. /\ from \in Int /\ to \in Int /\ start <= from /\ s[k].started <= from /\ from <= end
      /\ to <= end /\ to <= ConfirmedTo(s[k], grace)
      /\ from = start \/ from = s[k].started
      /\ to = end \/ to = ConfirmedTo(s[k], grace)
  BY <1>1, <1>3 DEF Min2, Max2
<1>5. acc.cursor \in Int /\ start <= acc.cursor
  BY DEF LoopInv
<1>6. new.cursor \in Int /\ from <= new.cursor /\ start <= new.cursor
  BY <1>2, <1>4
<1>7. WithinWindow(new.segments, start, end) /\ \A g \in new.segments : g.end <= new.cursor
  <2>1. ASSUME NEW g \in acc.segments
        PROVE  /\ g.start \in Int /\ g.end \in Int /\ g.status \in Statuses
               /\ start <= g.start /\ g.end <= end /\ g.end <= new.cursor
    BY <1>2, <1>4, <1>5, <1>6 DEF LoopInv, WithinWindow
  <2>2. ASSUME NEW g \in hole
        PROVE  /\ g.start \in Int /\ g.end \in Int /\ g.status \in Statuses
               /\ start <= g.start /\ g.end <= end /\ g.end <= new.cursor
    BY <1>1, <1>3, <1>4, <1>5, <1>6 DEF Segment
  <2>3. ASSUME NEW g \in span
        PROVE  /\ g.start \in Int /\ g.end \in Int /\ g.status \in Statuses
               /\ start <= g.start /\ g.end <= end /\ g.end <= new.cursor
    BY <1>1, <1>2, <1>3, <1>4 DEF Segment
  <2> QED BY <1>2, <2>1, <2>2, <2>3 DEF WithinWindow
<1>8. ASSUME NEW t \in start..(end - 1), t < new.cursor
      PROVE  Told(new.segments, t) = TruthAt(s, t, grace)
  <2>1. Told(new.segments, t) = (Told(acc.segments, t) \cup Told(hole, t)) \cup Told(span, t)
    <3>1. /\ Told((acc.segments \cup hole) \cup span, t)
               = Told(acc.segments \cup hole, t) \cup Told(span, t)
          /\ Told(acc.segments \cup hole, t) = Told(acc.segments, t) \cup Told(hole, t)
      BY ToldMore
    <3> QED BY <1>2, <3>1
  <2>2. /\ Told(hole, t) = IF acc.cursor <= t /\ t < from THEN {"unknown"} ELSE {}
        /\ Told(span, t) = IF from <= t /\ t < to THEN {s[k].status} ELSE {}
    <3>1. t \in Int
      OBVIOUS
    <3>a. hole = IF acc.cursor < from THEN {Segment(acc.cursor, from, "unknown")} ELSE {}
      BY <1>1, Zenon
    <3>b. span = IF from < to THEN {Segment(from, to, s[k].status)} ELSE {}
      BY <1>1, Zenon
    <3>c. from \in Int /\ to \in Int /\ acc.cursor \in Int
      BY <1>4, <1>5
    <3>2. Told(hole, t) = IF acc.cursor <= t /\ t < from THEN {"unknown"} ELSE {}
      BY <3>a, <3>c, <3>1, ToldOne, Zenon
    <3>3. Told(span, t) = IF from <= t /\ t < to THEN {s[k].status} ELSE {}
      BY <3>b, <3>c, <3>1, ToldOne, Zenon
    <3> QED BY <3>2, <3>3
  <2>3. CASE t < acc.cursor
    <3>1. Told(acc.segments, t) = TruthAt(s, t, grace)
      BY <2>3 DEF LoopInv
    <3>2. ~(acc.cursor <= t) /\ ~(from <= t)
      BY <1>2, <1>4, <1>5, <2>3
    <3>3. Told(hole, t) = {} /\ Told(span, t) = {}
      BY <2>2, <3>2
    <3> QED BY <2>1, <3>1, <3>3
  <2>4. t >= acc.cursor => Told(acc.segments, t) = {}
    <3>1. ASSUME t >= acc.cursor, NEW g \in acc.segments PROVE ~(g.start <= t /\ t < g.end)
      BY <1>5, <3>1 DEF LoopInv, WithinWindow
    <3> QED BY <3>1, ToldNone
  <2>5. CASE acc.cursor <= t /\ t < from
    <3>1. ASSUME NEW j \in 1..Len(s) PROVE ~Covers(s[j], t, grace)
      <4>0. j \in Int /\ s[j].started \in Nat
        <5>1. j \in Int
          BY <1>3
        <5> QED BY <5>1, OneInterval
      <4>1. CASE j <= k - 1
        BY <1>5, <2>5, <4>1 DEF LoopInv
      <4>2. CASE k <= j
        <5>1. s[k].started <= s[j].started
          <6>1. CASE j = k
            BY <1>3, <6>1
          <6>2. CASE k < j
            <7>1. ConfirmedTo(s[k], grace) <= s[j].started
              BY <6>2, OneInterval
            <7> QED BY <1>3, <4>0, <7>1
          <6> QED BY <1>3, <4>0, <4>2, <6>1, <6>2
        <5>2. t < s[k].started
          BY <1>3, <1>4, <1>5, <2>5
        <5> QED BY <1>3, <4>0, <5>1, <5>2 DEF Covers
      <4> QED BY <1>3, <4>0, <4>1, <4>2
    <3>2. TruthAt(s, t, grace) = {"unknown"}
      BY <3>1, NoTruth
    <3>3. Told(hole, t) = {"unknown"} /\ Told(span, t) = {} /\ Told(acc.segments, t) = {}
      BY <1>4, <1>5, <2>2, <2>4, <2>5
    <3> QED BY <2>1, <3>2, <3>3
  <2>6. CASE from <= t
    <3>1. from < to /\ t < to
      BY <1>2, <1>4, <1>8, <2>6
    <3>2. Covers(s[k], t, grace)
      BY <1>3, <1>4, <2>6, <3>1 DEF Covers
    <3>3. TruthAt(s, t, grace) = {s[k].status}
      BY <3>2, OneTruth
    <3>4. ~(t < from) /\ t >= acc.cursor
      BY <1>2, <1>4, <1>5, <2>6
    <3>5. Told(hole, t) = {} /\ Told(span, t) = {s[k].status} /\ Told(acc.segments, t) = {}
      BY <2>2, <2>4, <2>6, <3>1, <3>4
    <3> QED BY <2>1, <3>3, <3>5
  <2> QED BY <1>4, <1>5, <2>3, <2>5, <2>6
<1>9. ASSUME NEW j \in 1..Len(s), NEW t \in start..(end - 1), j <= k, Covers(s[j], t, grace)
      PROVE  t < new.cursor
  <2>0. j \in Int
    BY OneInterval
  <2>1. CASE j <= k - 1
    <3>1. t < acc.cursor
      BY <1>9, <2>1 DEF LoopInv
    <3> QED BY <1>2, <1>4, <1>5, <1>6, <3>1
  <2>2. CASE j = k
    <3>1. from <= t /\ t < to
      BY <1>1, <1>3, <1>9, <2>2 DEF Covers, Min2, Max2
    <3> QED BY <1>2, <1>4, <3>1
  <2> QED BY <1>3, <1>9, <2>0, <2>1, <2>2
<1>10. ASSUME NEW j \in 1..Len(s), j > k
       PROVE  new.cursor = start \/ new.cursor <= s[j].started
  <2>1. ConfirmedTo(s[k], grace) <= s[j].started /\ s[j].started \in Nat
    BY <1>10, OneInterval
  <2> QED BY <1>2, <1>3, <1>4, <2>1
<1> QED BY <1>6, <1>7, <1>8, <1>9, <1>10 DEF LoopInv, new

LEMMA LoopSkips ==
  ASSUME NEW s, Ordered(s), NEW k \in 1..Len(s), NEW grace \in Nat,
         NEW start \in Nat, NEW end \in Nat, start < end, NEW acc,
         LoopInv(s, k - 1, start, end, grace, acc), ~Overlaps(s[k], start, end)
  PROVE  LoopInv(s, k, start, end, grace, acc)
<1>1. ASSUME NEW t \in start..(end - 1) PROVE ~Covers(s[k], t, grace)
  <2>1. /\ s[k].started \in Nat /\ ConfirmedTo(s[k], grace) \in Nat
        /\ s[k].ended # Open => ConfirmedTo(s[k], grace) = s[k].ended
    BY OneInterval DEF ConfirmedTo
  <2> QED BY <2>1 DEF Overlaps, Covers
<1>2. Len(s) \in Nat
  BY OneInterval
<1>3. \A j \in 1..Len(s) : (j <= k => j <= k - 1 \/ j = k) /\ (j > k => j > k - 1)
  BY <1>2
<1> QED BY <1>1, <1>3 DEF LoopInv

LEMMA LoopStarts ==
  ASSUME NEW s, Ordered(s), Len(s) >= 1, NEW grace \in Nat,
         NEW start \in Nat, NEW end \in Nat, start < end, NEW acc,
         acc = [segments |-> IF s[1].started > start
                               THEN {Segment(start, Min2(s[1].started, end), "unknown")} ELSE {},
                cursor   |-> Max2(start, s[1].started)]
  PROVE  LoopInv(s, 0, start, end, grace, acc)
<1>0. Len(s) \in Nat /\ 1 \in 1..Len(s)
  BY DEF Ordered
<1>1. s[1].started \in Nat /\ s[1].started <= ConfirmedTo(s[1], grace) /\ ConfirmedTo(s[1], grace) \in Nat
  BY <1>0, OneInterval
<1>2. ASSUME NEW j \in 1..Len(s) PROVE s[j].started \in Nat /\ s[1].started <= s[j].started /\ j >= 1
  <2>1. j \in Int /\ j >= 1
    BY <1>0
  <2>2. s[j].started \in Nat
    BY OneInterval
  <2>3. \A i \in 1..Len(s) : i > 1 => ConfirmedTo(s[1], grace) <= s[i].started
    BY <1>0, OneInterval
  <2> QED BY <1>1, <2>1, <2>2, <2>3
<1>3. /\ acc.cursor = IF s[1].started > start THEN s[1].started ELSE start
      /\ acc.cursor \in Int /\ start <= acc.cursor
  BY <1>1 DEF Max2
<1>4. PICK stop : stop = Min2(s[1].started, end)
  OBVIOUS
<1>5. /\ stop \in Int /\ stop <= end /\ stop <= s[1].started /\ (stop = end \/ stop = s[1].started)
      /\ acc.segments = IF s[1].started > start THEN {Segment(start, stop, "unknown")} ELSE {}
  BY <1>1, <1>4 DEF Min2
<1>6. acc.segments = IF start < stop THEN {Segment(start, stop, "unknown")} ELSE {}
  BY <1>1, <1>5
<1>7. WithinWindow(acc.segments, start, end) /\ \A g \in acc.segments : g.end <= acc.cursor
  <2>1. ASSUME NEW g \in acc.segments
        PROVE  g.start = start /\ g.end = stop /\ g.status = "unknown" /\ s[1].started > start
    BY <1>5 DEF Segment
  <2> QED BY <1>1, <1>3, <1>5, <2>1 DEF WithinWindow, Statuses
<1>8. ASSUME NEW t \in start..(end - 1), t < acc.cursor
      PROVE  Told(acc.segments, t) = TruthAt(s, t, grace)
  <2>1. \A j \in 1..Len(s) : ~Covers(s[j], t, grace)
    BY <1>1, <1>2, <1>3, <1>8 DEF Covers
  <2>2. TruthAt(s, t, grace) = {"unknown"}
    BY <2>1, NoTruth
  <2>3. Told(acc.segments, t) = IF start <= t /\ t < stop THEN {"unknown"} ELSE {}
    <3>1. t \in Int /\ start \in Int /\ stop \in Int
      BY <1>5
    <3>2. PICK told : told = acc.segments
      OBVIOUS
    <3>3. told = IF start < stop THEN {Segment(start, stop, "unknown")} ELSE {}
      BY <1>6, <3>2
    <3>4. Told(told, t) = IF start <= t /\ t < stop THEN {"unknown"} ELSE {}
      BY <3>1, <3>3, ToldOne, Zenon
    <3> QED BY <3>2, <3>4
  <2>4. start <= t /\ t < stop
    BY <1>1, <1>3, <1>5, <1>8
  <2> QED BY <2>2, <2>3, <2>4
<1>9. \A j \in 1..Len(s) : ~(j <= 0) /\ (acc.cursor = start \/ acc.cursor <= s[j].started)
  BY <1>0, <1>1, <1>2, <1>3
<1> QED BY <1>3, <1>7, <1>8, <1>9 DEF LoopInv

LEMMA TimelineIsRight ==
  ASSUME NEW s, Ordered(s), Len(s) >= 1, NEW grace \in Nat,
         NEW start \in Nat, NEW end \in Nat, start < end
  PROVE  LoopInv(s, Len(s), start, end, grace, Timeline(s, start, end, grace)[Len(s)])
<1>1. PICK acc, n : acc = Timeline(s, start, end, grace) /\ n = Len(s)
  OBVIOUS
<1>2. n \in Nat \ {0} /\ Unrolled(s, n, start, end, grace, acc)
  BY <1>1, TimelineUnrolls DEF Ordered
<1>3. LoopInv(s, 0, start, end, grace, acc[0])
  <2>1. acc[0] = [segments |-> IF s[1].started > start
                               THEN {Segment(start, Min2(s[1].started, end), "unknown")} ELSE {},
                  cursor   |-> Max2(start, s[1].started)]
    BY <1>2 DEF Unrolled
  <2> QED BY <2>1, LoopStarts
<1>4. ASSUME NEW k \in 1..n, LoopInv(s, k - 1, start, end, grace, acc[k - 1])
      PROVE  LoopInv(s, k, start, end, grace, acc[k])
  <2>1. acc[k] = IF Overlaps(s[k], start, end)
                   THEN AddInterval(acc[k - 1], s[k], start, end, grace) ELSE acc[k - 1]
    <3>1. k \in 0..n /\ k # 0
      BY <1>2
    <3> QED BY <1>2, <3>1 DEF Unrolled
  <2>2. CASE Overlaps(s[k], start, end)
    <3>1. acc[k] = AddInterval(acc[k - 1], s[k], start, end, grace)
      BY <2>1, <2>2
    <3>2. LoopInv(s, k, start, end, grace, AddInterval(acc[k - 1], s[k], start, end, grace))
      BY <1>1, <1>4, <2>2, LoopStep
    <3> QED BY <3>1, <3>2, Zenon
  <2>3. CASE ~Overlaps(s[k], start, end)
    <3>1. acc[k] = acc[k - 1]
      BY <2>1, <2>3
    <3>2. LoopInv(s, k, start, end, grace, acc[k - 1])
      BY <1>1, <1>4, <2>3, LoopSkips
    <3> QED BY <3>1, <3>2, Zenon
  <2> QED BY <2>2, <2>3
<1> DEFINE fails == {k \in 0..n : ~LoopInv(s, k, start, end, grace, acc[k])}
<1>5. fails = {}
  <2> SUFFICES ASSUME fails # {} PROVE FALSE
    OBVIOUS
  <2>1. fails \in SUBSET Nat
    BY <1>2
  <2> HIDE DEF fails
  <2>2. PICK k \in fails : \A j \in fails : k <= j
    BY <2>1, LeastNat
  <2> USE DEF fails
  <2>3. k \in 1..n
    BY <1>2, <1>3, <2>2
  <2>4. k - 1 \in 0..n /\ k - 1 \notin fails
    BY <1>2, <2>2, <2>3
  <2>5. LoopInv(s, k - 1, start, end, grace, acc[k - 1])
    BY <2>4
  <2> QED BY <1>4, <2>2, <2>3, <2>5
<1>6. n \in 0..n /\ n \notin fails
  BY <1>2, <1>5
<1>7. LoopInv(s, n, start, end, grace, acc[n])
  BY <1>6
<1> QED BY <1>1, <1>7

\* A camera's timeline tells of every slice of the window what its history
\* says of it, and of nothing outside the window.
LEMMA SegmentsTell ==
  ASSUME NEW s, Ordered(s), NEW grace \in Nat,
         NEW start \in Nat, NEW end \in Nat, start < end
  PROVE  LET segments == CameraSegments(s, start, end, grace) IN
         /\ WithinWindow(segments, start, end) /\ \A g \in segments : g.start < g.end
         /\ \A t \in start..(end - 1) : Told(segments, t) = TruthAt(s, t, grace)
<1> DEFINE segments == CameraSegments(s, start, end, grace)
<1>0. Len(s) \in Nat /\ (s = <<>> <=> Len(s) = 0)
  BY DEF Ordered
<1>1. CASE s = <<>>
  <2>1. segments = {Segment(start, end, "unknown")}
    BY <1>1 DEF CameraSegments, NonEmpty, Segment
  <2>2. ASSUME NEW t \in start..(end - 1) PROVE Told(segments, t) = TruthAt(s, t, grace)
    <3>1. TruthAt(s, t, grace) = {"unknown"}
      BY <1>0, <1>1, NoTruth
    <3>2. segments = IF start < end THEN {Segment(start, end, "unknown")} ELSE {}
      BY <2>1
    <3>3. start \in Int /\ end \in Int /\ t \in Int /\ start <= t /\ t < end
      OBVIOUS
    <3>4. Told(segments, t) = IF start <= t /\ t < end THEN {"unknown"} ELSE {}
      BY <3>2, <3>3, ToldOne, Zenon
    <3> QED BY <3>1, <3>3, <3>4
  <2>3. WithinWindow(segments, start, end) /\ \A g \in segments : g.start < g.end
    BY <2>1 DEF WithinWindow, Segment, Statuses
  <2> QED BY <2>2, <2>3
<1>2. CASE s # <<>>
  <2>1. PICK acc : acc = Timeline(s, start, end, grace)[Len(s)]
    OBVIOUS
  <2>2. LoopInv(s, Len(s), start, end, grace, acc)
    BY <1>0, <1>2, <2>1, TimelineIsRight
  <2>3. PICK trailing : trailing = IF acc.cursor < end THEN {Segment(acc.cursor, end, "unknown")} ELSE {}
    OBVIOUS
  <2>4. segments = NonEmpty(acc.segments \cup trailing)
    BY <1>2, <2>1, <2>3 DEF CameraSegments
  <2>5. acc.cursor \in Int /\ start <= acc.cursor
    BY <2>2 DEF LoopInv
  <2>6. ASSUME NEW g \in acc.segments \cup trailing
        PROVE  /\ g.start \in Int /\ g.end \in Int /\ g.status \in Statuses
               /\ start <= g.start /\ g.end <= end
    BY <2>2, <2>3, <2>5 DEF LoopInv, WithinWindow, Segment, Statuses
  <2>7. WithinWindow(segments, start, end) /\ \A g \in segments : g.start < g.end
    BY <2>4, <2>6 DEF WithinWindow, NonEmpty
  <2>8. ASSUME NEW t \in start..(end - 1) PROVE Told(segments, t) = TruthAt(s, t, grace)
    <3>1. Told(segments, t) = Told(acc.segments \cup trailing, t)
      BY <2>4, <2>6 DEF Told, NonEmpty
    <3>2. Told(acc.segments \cup trailing, t) = Told(acc.segments, t) \cup Told(trailing, t)
      BY ToldMore
    <3>3. Told(trailing, t) = IF acc.cursor <= t /\ t < end THEN {"unknown"} ELSE {}
      <4>1. end \in Int /\ t \in Int
        OBVIOUS
      <4> QED BY <2>3, <2>5, <4>1, ToldOne, Zenon
    <3>4. t \in Int /\ t < end
      OBVIOUS
    <3>5. CASE t < acc.cursor
      <4>1. Told(acc.segments, t) = TruthAt(s, t, grace)
        BY <2>2, <3>5 DEF LoopInv
      <4>2. Told(trailing, t) = {}
        BY <2>5, <3>3, <3>4, <3>5
      <4> QED BY <3>1, <3>2, <4>1, <4>2
    <3>6. CASE acc.cursor <= t
      <4>1. ASSUME NEW g \in acc.segments PROVE ~(g.start <= t /\ t < g.end)
        BY <2>2, <2>5, <3>4, <3>6 DEF LoopInv, WithinWindow
      <4>2. Told(acc.segments, t) = {}
        BY <4>1, ToldNone
      <4>3. ASSUME NEW j \in 1..Len(s) PROVE ~Covers(s[j], t, grace)
        <5>1. j <= Len(s)
          BY <1>0
        <5> QED BY <2>2, <2>5, <3>4, <3>6, <5>1 DEF LoopInv
      <4>4. TruthAt(s, t, grace) = {"unknown"}
        BY <4>3, NoTruth
      <4>5. Told(trailing, t) = {"unknown"}
        BY <3>3, <3>4, <3>6
      <4> QED BY <3>1, <3>2, <4>2, <4>4, <4>5
    <3> QED BY <2>5, <3>4, <3>5, <3>6
  <2> QED BY <2>7, <2>8
<1> QED BY <1>1, <1>2

-----------------------------------------------------------------------------
\* The slices two consecutive polls of one process prove, and with what status.
Linked(p, i, t) ==
  p[i].at <= t /\ t < p[i + 1].at /\ ~p[i + 1].first /\ p[i + 1].at - p[i].at <= Tolerance

LinkedAt(p, c, t) == {p[i].seen[c] : i \in {i \in 1..(Len(p) - 1) : Linked(p, i, t)}}

\* A history against the n polls p that made it: its last interval is the open
\* one of the last poll, and its intervals answer for what the polls prove.
LogInv(n, p, c, s) ==
  /\ Ordered(s)
  /\ n = 0 => s = <<>>
  /\ n > 0 => /\ Len(s) >= 1 /\ s[Len(s)].ended = Open
              /\ s[Len(s)].through = p[n].at /\ s[Len(s)].status = p[n].seen[c]
  /\ \A t \in Int : StatusesAt(s, t, 0) = LinkedAt(p, c, t)

PollsInv ==
  /\ \A i, j \in 1..Len(polls) : i < j => polls[i].at < polls[j].at
  /\ pollAt # None => \A i \in 1..Len(polls) : polls[i].at < pollAt

\* What a poll makes of a history of m intervals: it extends the last, or ends it
\* where observation lasted to and starts another.
HistoryAfter(s, m, status, at, new) ==
  /\ new \in Seq(Intervals)
  /\ \A k \in 1..(m - 1) : new[k] = s[k]
  /\ new[m].started = s[m].started /\ new[m].status = s[m].status
  /\ \/ /\ Len(new) = m /\ Continuous(s, at) /\ status = s[m].status
        /\ new[m].ended = Open /\ new[m].through = at
     \/ /\ Len(new) = m + 1
        /\ new[m].through = s[m].through
        /\ new[m].ended = IF Continuous(s, at) THEN at ELSE s[m].through
        /\ new[m + 1] = [status |-> status, started |-> at, ended |-> Open, through |-> at]

LEMMA RecordedHistory ==
  ASSUME NEW s \in Seq(Intervals), NEW m, m = Len(s), m >= 1, s[m].ended = Open,
         NEW status \in Statuses, NEW at \in 0..MaxTime,
         s[m].through < at, s[m].started <= s[m].through,
         NEW new, new = RecordHistory(s, status, at)
  PROVE  HistoryAfter(s, m, status, at, new)
<1> USE HealthAssumption DEF HealthAssumption
<1>1. /\ m \in Nat /\ m \in 1..m /\ s[m] \in Intervals /\ Last(s) = s[m] /\ s # <<>>
      /\ at # None /\ at \in Int
  BY DEF Last
<1>2. s[m].through \in 0..MaxTime
  BY <1>1 DEF Intervals
<1>3. CASE s[m].status = status /\ Continuous(s, at)
  <2>1. new = [s EXCEPT ![m] = [s[m] EXCEPT !.through = at]]
    BY <1>1, <1>3 DEF RecordHistory, ExtendInterval
  <2>2. PICK x : x = [s[m] EXCEPT !.through = at]
    OBVIOUS
  <2>3. /\ x \in Intervals /\ x.started = s[m].started /\ x.status = s[m].status
        /\ x.ended = s[m].ended /\ x.through = at
    BY <1>1, <2>2 DEF Intervals
  <2>4. new \in Seq(Intervals) /\ Len(new) = m /\ new[m] = x /\ \A k \in 1..(m - 1) : new[k] = s[k]
    BY <1>1, <2>1, <2>2, <2>3
  <2> QED BY <1>3, <2>3, <2>4 DEF HistoryAfter
<1>4. CASE ~(s[m].status = status /\ Continuous(s, at))
  <2>1. PICK end : end = Max2(IF (IF Continuous(s, at) THEN at ELSE None) # None
                                THEN (IF Continuous(s, at) THEN at ELSE None) ELSE s[m].through, s[m].through)
    OBVIOUS
  <2>2. end = IF Continuous(s, at) THEN at ELSE s[m].through
    BY <1>1, <1>2, <2>1 DEF Max2
  <2>3. PICK x, mid, fresh :
          /\ x = [s[m] EXCEPT !.ended = end] /\ mid = [s EXCEPT ![m] = x]
          /\ fresh = [status |-> status, started |-> at, ended |-> Open, through |-> at]
    OBVIOUS
  <2>4. new = StartInterval(CloseInterval(s, IF Continuous(s, at) THEN at ELSE None), status, at)
    BY <1>1, <1>4 DEF RecordHistory
  <2>5. CloseInterval(s, IF Continuous(s, at) THEN at ELSE None) = mid
    BY <1>1, <2>1, <2>3 DEF CloseInterval
  <2>6. new = Append(mid, fresh)
    BY <2>3, <2>4, <2>5 DEF StartInterval
  <2>7. /\ x \in Intervals /\ x.started = s[m].started /\ x.status = s[m].status
        /\ x.ended = end /\ x.through = s[m].through
    BY <1>1, <1>2, <2>2, <2>3 DEF Intervals
  <2>8. fresh \in Intervals
    BY <2>3 DEF Intervals
  <2>9. mid \in Seq(Intervals) /\ Len(mid) = m /\ mid[m] = x /\ \A k \in 1..(m - 1) : mid[k] = s[k]
    <3>1. mid = [s EXCEPT ![m] = x] /\ x \in Intervals
      BY <2>3, <2>7
    <3> QED BY <1>1, <3>1
  <2>10. /\ new \in Seq(Intervals) /\ Len(new) = m + 1 /\ new[m + 1] = fresh
         /\ \A k \in 1..m : new[k] = mid[k]
    BY <2>6, <2>8, <2>9
  <2>11. new[m] = x /\ \A k \in 1..(m - 1) : new[k] = s[k]
    BY <1>1, <2>9, <2>10
  <2> QED BY <2>2, <2>3, <2>7, <2>10, <2>11 DEF HistoryAfter
<1> QED BY <1>3, <1>4

LEMMA LastLink ==
  ASSUME NEW n \in Nat \ {0}, NEW p \in Seq(Polls), n = Len(p), NEW poll \in Polls,
         NEW q, q = Append(p, poll), NEW t \in Int
  PROVE  Linked(q, n, t) <=> /\ p[n].at <= t /\ t < poll.at /\ ~poll.first
                             /\ poll.at - p[n].at <= Tolerance
<1>1. q[n + 1] = poll /\ q[n] = p[n]
  OBVIOUS
<1> QED BY <1>1 DEF Linked

LEMMA LinksGrow ==
  ASSUME NEW p \in Seq(Polls), p # <<>>, NEW poll \in Polls, NEW camera, NEW t
  PROVE  LinkedAt(Append(p, poll), camera, t) = LinkedAt(p, camera, t) \cup
           {p[i].seen[camera] : i \in {i \in {Len(p)} : Linked(Append(p, poll), i, t)}}
<1>1. PICK q, n : q = Append(p, poll) /\ n = Len(p)
  OBVIOUS
<1>2. n \in Nat /\ n >= 1 /\ q[n + 1] = poll /\ Len(q) = n + 1 /\ \A i \in 1..n : q[i] = p[i]
  BY <1>1
<1>3. \A i \in 1..(n - 1) : Linked(q, i, t) <=> Linked(p, i, t)
  BY <1>2 DEF Linked
<1>4. \A i : i \in 1..((n + 1) - 1) <=> i \in 1..(n - 1) \/ i = n
  BY <1>2
<1>5. \A i \in 1..n : q[i].seen[camera] = p[i].seen[camera]
  BY <1>2
<1> QED BY <1>1, <1>2, <1>3, <1>4, <1>5 DEF LinkedAt

LEMMA PollKeepsLog ==
  ASSUME NEW n \in Nat, NEW p \in Seq(Polls), n = Len(p), NEW poll \in Polls,
         NEW q, q = Append(p, poll), NEW c \in Cameras, NEW s, LogInv(n, p, c, s),
         \A i \in 1..n : p[i].at < poll.at, poll.first = starting,
         NEW new, new = RecordHistory(s, poll.seen[c], poll.at)
  PROVE  LogInv(n + 1, q, c, new)
<1> USE HealthAssumption DEF HealthAssumption
<1>1. PICK status, at : status = poll.seen[c] /\ at = poll.at
  OBVIOUS
<1>2. /\ status \in Statuses /\ at \in 0..MaxTime /\ at \in Int /\ s \in Seq(Intervals)
      /\ Len(q) = n + 1 /\ q[n + 1] = poll /\ Len(s) \in Nat
      /\ new = RecordHistory(s, status, at)
  BY <1>1 DEF Polls, LogInv, Ordered
<1>3. CASE n = 0
  <2>1. PICK fresh : fresh = [status |-> status, started |-> at, ended |-> Open, through |-> at]
    OBVIOUS
  <2>2. new = <<fresh>> /\ fresh \in Intervals
    BY <1>2, <1>3, <2>1 DEF LogInv, RecordHistory, StartInterval, Intervals
  <2>3. Len(new) = 1 /\ new[1] = fresh /\ new \in Seq(Intervals)
    BY <2>2
  <2>4. Ordered(new)
    BY <1>2, <2>1, <2>3 DEF Ordered
  <2>5. ASSUME NEW t \in Int PROVE StatusesAt(new, t, 0) = LinkedAt(q, c, t)
    <3>1. ~Covers(new[1], t, 0)
      BY <1>2, <2>1, <2>3 DEF Covers, ConfirmedTo
    <3>2. StatusesAt(new, t, 0) = {} /\ LinkedAt(q, c, t) = {}
      BY <1>2, <1>3, <2>3, <3>1 DEF StatusesAt, LinkedAt
    <3> QED BY <3>2
  <2> QED BY <1>1, <1>2, <1>3, <2>1, <2>3, <2>4, <2>5 DEF LogInv
<1>4. CASE n # 0
  <2>1. PICK m : m = Len(s)
    OBVIOUS
  <2>2. /\ m \in Nat /\ m >= 1 /\ m \in 1..m /\ n \in 1..n
        /\ s[m].ended = Open /\ s[m].through = p[n].at /\ s[m].status = p[n].seen[c]
        /\ s[m] \in Intervals /\ p[n] \in Polls /\ p[n].at < at /\ s[m].started <= s[m].through
    BY <1>1, <1>2, <1>4, <2>1 DEF LogInv, Ordered
  <2>3. s[m].started \in Nat /\ s[m].through \in Nat /\ p[n].at \in Nat
    BY <2>2 DEF Intervals
  <2>4. Continuous(s, at) <=> ~starting /\ at - s[m].through <= Tolerance
    BY <2>1 DEF Continuous, Last
  <2>5. /\ new \in Seq(Intervals)
        /\ \A k \in 1..(m - 1) : new[k] = s[k]
        /\ new[m].started = s[m].started /\ new[m].status = s[m].status
        /\ \/ /\ Len(new) = m /\ Continuous(s, at) /\ status = s[m].status
              /\ new[m].ended = Open /\ new[m].through = at
           \/ /\ Len(new) = m + 1
              /\ new[m].through = s[m].through
              /\ new[m].ended = IF Continuous(s, at) THEN at ELSE s[m].through
              /\ new[m + 1] = [status |-> status, started |-> at, ended |-> Open, through |-> at]
    <3>1. s[m].through < at
      BY <2>2
    <3>2. HistoryAfter(s, m, status, at, new)
      BY <1>2, <2>1, <2>2, <3>1, RecordedHistory
    <3> QED BY <3>2 DEF HistoryAfter
  <2>6. \A k \in 1..Len(new) : k \in 1..(m - 1) \/ k = m \/ (k = m + 1 /\ Len(new) = m + 1)
    BY <2>2, <2>5
  <2>7. \A k \in 1..(m - 1) : /\ k \in 1..m /\ s[k].ended # Open /\ s[k].ended <= s[m].started
                              /\ s[k].started <= s[k].through /\ s[k].through <= s[k].ended
                              /\ s[k].ended \in Nat /\ s[k].started \in Nat
    <3> SUFFICES ASSUME NEW k \in 1..(m - 1)
                 PROVE  /\ k \in 1..m /\ s[k].ended # Open /\ s[k].ended <= s[m].started
                        /\ s[k].started <= s[k].through /\ s[k].through <= s[k].ended
                        /\ s[k].ended \in Nat /\ s[k].started \in Nat
      OBVIOUS
    <3>1. k \in 1..m /\ k < m
      BY <2>2
    <3>2. s[k] \in Intervals
      BY <1>2, <2>1, <3>1
    <3>3. s[k].ended # Open /\ s[k].ended <= s[m].started
      BY <2>1, <2>2, <3>1 DEF LogInv, Ordered
    <3> QED BY <2>1, <3>1, <3>2, <3>3 DEF LogInv, Ordered, Intervals
  <2>8. Ordered(new)
    <3>1. ASSUME NEW k \in 1..Len(new)
          PROVE  /\ new[k].started <= new[k].through
                 /\ new[k].ended # Open => new[k].through <= new[k].ended
      <4>1. CASE k \in 1..(m - 1)
        <5>1. new[k] = s[k]
          BY <2>5, <4>1
        <5> QED BY <2>7, <4>1, <5>1
      <4>2. CASE k = m
        <5>1. at \in Nat
          BY <1>2
        <5> QED BY <2>2, <2>3, <2>5, <4>2, <5>1
      <4>3. CASE k = m + 1 /\ Len(new) = m + 1
        <5>1. at \in Nat
          BY <1>2
        <5>2. new[m + 1].started = at /\ new[m + 1].through = at /\ new[m + 1].ended = Open
          BY <2>2, <2>5, <4>3
        <5> QED BY <4>3, <5>1, <5>2
      <4> QED BY <2>6, <4>1, <4>2, <4>3
    <3>2. ASSUME NEW j \in 1..Len(new), NEW k \in 1..Len(new), j < k
          PROVE  new[j].ended # Open /\ new[j].ended <= new[k].started
      <4>1. CASE k \in 1..(m - 1)
        <5>1. j \in 1..(m - 1) /\ j \in 1..m /\ k \in 1..m
          BY <2>2, <3>2, <4>1
        <5>2. s[j].ended # Open /\ s[j].ended <= s[k].started
          BY <2>1, <3>2, <5>1 DEF LogInv, Ordered
        <5> QED BY <2>5, <4>1, <5>1, <5>2
      <4>2. CASE k = m
        <5>1. j \in 1..(m - 1)
          BY <2>2, <3>2, <4>2
        <5> QED BY <2>5, <2>7, <4>2, <5>1
      <4>3. CASE k = m + 1 /\ Len(new) = m + 1
        <5>1. new[k].started = at
          BY <2>2, <2>5, <4>3
        <5>2. new[m].ended = (IF Continuous(s, at) THEN at ELSE s[m].through)
          BY <2>2, <2>5, <4>3
        <5>3. CASE j = m
          BY <1>2, <2>2, <2>3, <5>1, <5>2, <5>3 DEF Open
        <5>4. CASE j # m
          <6>1. j \in 1..(m - 1)
            BY <2>2, <3>2, <4>3, <5>4
          <6>2. s[j].ended <= s[m].started /\ s[j].ended # Open /\ new[j] = s[j] /\ s[j].ended \in Nat
            BY <2>5, <2>7, <6>1
          <6> QED BY <1>2, <2>2, <2>3, <5>1, <6>2
        <5> QED BY <5>3, <5>4
      <4> QED BY <2>6, <4>1, <4>2, <4>3
    <3> QED BY <2>5, <3>1, <3>2 DEF Ordered
  <2>9. /\ Len(new) >= 1 /\ new[Len(new)].ended = Open
        /\ new[Len(new)].through = at /\ new[Len(new)].status = status
    BY <2>2, <2>5
  <2>10. ASSUME NEW t \in Int PROVE StatusesAt(new, t, 0) = LinkedAt(q, c, t)
    <3>1. \A k \in 1..(m - 1) : Covers(new[k], t, 0) <=> Covers(s[k], t, 0)
      BY <2>5
    <3>2. Covers(s[m], t, 0) <=> s[m].started <= t /\ t < s[m].through
      BY <2>2, <2>3 DEF Covers, ConfirmedTo
    <3>3. Covers(new[m], t, 0) <=>
            s[m].started <= t /\ t < (IF Continuous(s, at) THEN at ELSE s[m].through)
      BY <1>2, <2>2, <2>3, <2>5 DEF Covers, ConfirmedTo, Open
    <3>4. Len(new) = m + 1 => ~Covers(new[m + 1], t, 0)
      BY <1>2, <2>2, <2>5 DEF Covers, ConfirmedTo
    <3>5. Covers(new[m], t, 0) <=>
            Covers(s[m], t, 0) \/ (Continuous(s, at) /\ s[m].through <= t /\ t < at)
      BY <1>2, <2>2, <2>3, <3>2, <3>3
    <3>6. \A k \in 1..m : k \in 1..Len(new) /\ new[k].status = s[k].status
      <4>0. Len(new) = m \/ Len(new) = m + 1
        BY <2>5
      <4>1. \A k \in 1..m : k \in 1..Len(new) /\ (k \in 1..(m - 1) \/ k = m)
        BY <2>2, <4>0
      <4> QED BY <2>5, <4>1
    <3>7. \A k \in 1..m : k \in 1..(m - 1) \/ k = m
      BY <2>2
    <3>8. StatusesAt(new, t, 0) = StatusesAt(s, t, 0) \cup
            (IF Continuous(s, at) /\ s[m].through <= t /\ t < at THEN {s[m].status} ELSE {})
      <4>1. \A k \in 1..Len(new) :
              Covers(new[k], t, 0) => k \in 1..m /\ (Covers(s[k], t, 0)
                                       \/ (k = m /\ Continuous(s, at) /\ s[m].through <= t /\ t < at))
        BY <2>2, <2>6, <3>1, <3>4, <3>5, <3>7
      <4>2. \A k \in 1..m : Covers(s[k], t, 0) => Covers(new[k], t, 0)
        BY <3>1, <3>5, <3>7
      <4>3. ASSUME NEW k \in 1..Len(new), Covers(new[k], t, 0)
            PROVE  new[k].status \in StatusesAt(s, t, 0) \cup
                     (IF Continuous(s, at) /\ s[m].through <= t /\ t < at THEN {s[m].status} ELSE {})
        <5>1. k \in 1..m /\ new[k].status = s[k].status
          BY <3>6, <4>1, <4>3
        <5>2. Covers(s[k], t, 0) => s[k].status \in StatusesAt(s, t, 0)
          BY <2>1, <5>1 DEF StatusesAt
        <5> QED BY <4>1, <4>3, <5>1, <5>2
      <4>4. ASSUME NEW k \in 1..m, Covers(s[k], t, 0) PROVE s[k].status \in StatusesAt(new, t, 0)
        BY <3>6, <4>2, <4>4 DEF StatusesAt
      <4>5. ASSUME Continuous(s, at), s[m].through <= t, t < at PROVE s[m].status \in StatusesAt(new, t, 0)
        <5>1. Covers(new[m], t, 0) /\ m \in 1..Len(new) /\ new[m].status = s[m].status
          BY <2>2, <3>5, <3>6, <4>5
        <5> QED BY <5>1 DEF StatusesAt
      <4>6. /\ \A x \in StatusesAt(new, t, 0) :
                 \E k \in 1..Len(new) : Covers(new[k], t, 0) /\ x = new[k].status
            /\ \A x \in StatusesAt(s, t, 0) : \E k \in 1..m : Covers(s[k], t, 0) /\ x = s[k].status
        BY <2>1 DEF StatusesAt
      <4> DEFINE extra == IF Continuous(s, at) /\ s[m].through <= t /\ t < at
                            THEN {s[m].status} ELSE {}
      <4>7. ASSUME NEW x PROVE x \in StatusesAt(new, t, 0) => x \in StatusesAt(s, t, 0) \cup extra
        BY <4>3, <4>6
      <4>8. ASSUME NEW x PROVE x \in StatusesAt(s, t, 0) => x \in StatusesAt(new, t, 0)
        BY <4>4, <4>6
      <4>9. ASSUME NEW x PROVE x \in extra => x \in StatusesAt(new, t, 0)
        BY <4>5
      <4> HIDE DEF extra
      <4>10. StatusesAt(new, t, 0) = StatusesAt(s, t, 0) \cup extra
        BY <4>7, <4>8, <4>9
      <4> QED BY <4>10 DEF extra
    <3>0. n \in Nat \ {0}
      BY <1>4
    <3>8a. p # <<>>
      BY <3>0
    <3>9. LinkedAt(q, c, t) = LinkedAt(p, c, t) \cup
            {p[i].seen[c] : i \in {i \in {n} : Linked(q, i, t)}}
      BY <3>8a, LinksGrow
    <3>a. Linked(q, n, t) <=> /\ p[n].at <= t /\ t < poll.at /\ ~poll.first
                              /\ poll.at - p[n].at <= Tolerance
      BY <3>0, LastLink
    <3>10. StatusesAt(s, t, 0) = LinkedAt(p, c, t)
      BY DEF LogInv
    <3>11. (Continuous(s, at) /\ s[m].through <= t /\ t < at) <=>
             Linked(q, n, t)
      BY <1>1, <2>2, <2>4, <3>a
    <3> QED BY <2>2, <3>8, <3>9, <3>10, <3>11
  <2> QED BY <1>1, <1>2, <2>8, <2>9, <2>10 DEF LogInv
<1> QED BY <1>3, <1>4

HistoryInv == PollsInv /\ \A c \in Cameras : LogInv(Len(polls), polls, c, history[c])

LEMMA InitHistoryInv == Init => HistoryInv
<1> SUFFICES ASSUME Init PROVE HistoryInv
  OBVIOUS
<1>1. Len(polls) = 0 /\ pollAt = None
  BY DEF Init
<1>2. ASSUME NEW c \in Cameras PROVE LogInv(0, polls, c, history[c])
  <2>1. history[c] = <<>> /\ Len(history[c]) = 0 /\ history[c] \in Seq(Intervals)
    BY DEF Init
  <2>2. \A t \in Int : StatusesAt(history[c], t, 0) = {} /\ LinkedAt(polls, c, t) = {}
    BY <1>1, <2>1 DEF StatusesAt, LinkedAt
  <2>3. Ordered(history[c])
    BY <2>1 DEF Ordered
  <2>4. \A t \in Int : StatusesAt(history[c], t, 0) = LinkedAt(polls, c, t)
    BY <2>2
  <2>5. 0 = 0 /\ ~(0 > 0)
    OBVIOUS
  <2> QED BY <2>1, <2>3, <2>4, <2>5, Zenon DEF LogInv
<1> QED BY <1>1, <1>2 DEF HistoryInv, PollsInv

LEMMA NextKeepsHistory == Inv /\ HistoryInv /\ [Next]_vars => HistoryInv'
<1> SUFFICES ASSUME Inv, HistoryInv, [Next]_vars PROVE HistoryInv'
  OBVIOUS
<1>1. CASE PollRecord
  <2>1. PICK seen \in [Cameras -> Statuses] :
          /\ history' = [c \in Cameras |-> RecordHistory(history[c], seen[c], pollAt)]
          /\ polls' = Append(polls, [at |-> pollAt, first |-> starting, seen |-> seen])
    BY <1>1 DEF PollRecord
  <2>2. PICK poll, n, p, q : /\ poll = [at |-> pollAt, first |-> starting, seen |-> seen]
                             /\ n = Len(polls) /\ p = polls /\ q = polls'
    OBVIOUS
  <2>3. /\ poll \in Polls /\ p \in Seq(Polls) /\ q = Append(p, poll) /\ n \in Nat /\ n = Len(p)
        /\ poll.at = pollAt /\ poll.first = starting /\ poll.seen = seen
    BY <1>1, <2>1, <2>2 DEF Inv, TypeInv, Polls, PollRecord
  <2>4. /\ Len(q) = n + 1 /\ q[n + 1] = poll /\ \A i \in 1..n : q[i] = p[i]
        /\ \A i \in 1..(n + 1) : i \in 1..n \/ i = n + 1
        /\ \A i \in 1..n : p[i].at < poll.at
    BY <1>1, <2>2, <2>3 DEF HistoryInv, PollsInv, PollRecord
  <2>5. PollsInv'
    <3>1. pollAt' = None
      BY <1>1 DEF PollRecord
    <3>2. ASSUME NEW i \in 1..(n + 1), NEW j \in 1..(n + 1), i < j PROVE q[i].at < q[j].at
      <4>1. i \in 1..n
        BY <2>3, <2>4, <3>2
      <4>2. CASE j \in 1..n
        BY <2>2, <2>4, <3>2, <4>1, <4>2 DEF HistoryInv, PollsInv
      <4>3. CASE j = n + 1
        BY <2>4, <4>1, <4>3
      <4> QED BY <2>4, <4>2, <4>3
    <3> QED BY <2>2, <2>4, <3>1, <3>2 DEF PollsInv
  <2>6. ASSUME NEW c \in Cameras PROVE LogInv(n + 1, q, c, history'[c])
    <3>1. history'[c] = RecordHistory(history[c], poll.seen[c], poll.at)
      BY <2>1, <2>3
    <3>2. LogInv(n, p, c, history[c])
      BY <2>2 DEF HistoryInv
    <3> QED BY <2>3, <2>4, <3>1, <3>2, PollKeepsLog
  <2> QED BY <2>2, <2>4, <2>5, <2>6 DEF HistoryInv
<1>2. CASE PollStart
  <2>1. UNCHANGED <<history, polls>> /\ pollAt' = now /\ now > LastAt
    BY <1>2 DEF PollStart
  <2>2. ASSUME NEW i \in 1..Len(polls) PROVE polls[i].at < now
    <3>1. Len(polls) \in 1..Len(polls) /\ polls # <<>> /\ i \in Int /\ now \in Int
      BY DEF Inv, TypeInv
    <3>2. polls[i] \in Polls /\ polls[Len(polls)] \in Polls
      BY <3>1 DEF Inv, TypeInv
    <3>3. polls[i].at \in Int /\ polls[Len(polls)].at \in Int /\ polls[Len(polls)].at < now
      BY <2>1, <3>1, <3>2 DEF LastAt, Polls
    <3>4. i < Len(polls) => polls[i].at < polls[Len(polls)].at
      BY <3>1 DEF HistoryInv, PollsInv
    <3> QED BY <3>1, <3>3, <3>4
  <2> QED BY <2>1, <2>2 DEF HistoryInv, PollsInv
<1>3. ASSUME UNCHANGED <<history, polls>>, pollAt' = pollAt \/ pollAt' = None
      PROVE  HistoryInv'
  BY <1>3 DEF HistoryInv, PollsInv
<1>4. CASE PollFails
  BY <1>3, <1>4 DEF PollFails
<1>5. CASE Tick
  BY <1>3, <1>5 DEF Tick
<1>6. CASE Stop
  BY <1>3, <1>6 DEF Stop
<1>7. CASE Start
  BY <1>3, <1>7 DEF Start
<1>8. CASE UNCHANGED vars
  BY <1>3, <1>8 DEF vars
<1> QED BY <1>1, <1>2, <1>4, <1>5, <1>6, <1>7, <1>8 DEF Next

LEMMA SpecHistoryInv == Spec => [](Inv /\ HistoryInv)
BY SpecInv, InitHistoryInv, NextKeepsHistory, PTL DEF Spec

\* What the polls prove of a slice is what the history says of it.
LEMMA ProvenIsTold ==
  ASSUME Inv, HistoryInv, NEW c \in Cameras, NEW t \in Int, NEW grace \in Nat
  PROVE  Proven(c, t, grace) = StatusesAt(history[c], t, grace)
<1>1. PICK n, p, s : n = Len(polls) /\ p = polls /\ s = history[c]
  OBVIOUS
<1>2. n \in Nat /\ p \in Seq(Polls) /\ LogInv(n, p, c, s) /\ DOMAIN p = 1..n /\ n = Len(p)
  BY <1>1 DEF Inv, TypeInv, HistoryInv
<1>3. Proven(c, t, grace) = LinkedAt(p, c, t) \cup
        {p[i].seen[c] : i \in {i \in {n} : n >= 1 /\ p[n].at <= t /\ t < p[n].at + grace}}
  <2>1. PICK extra : extra =
          {p[i].seen[c] : i \in {i \in {n} : n >= 1 /\ p[n].at <= t /\ t < p[n].at + grace}}
    OBVIOUS
  <2>2. Proven(c, t, grace) =
          {p[i].seen[c] : i \in {i \in 1..n :
             /\ p[i].at <= t
             /\ IF i < n THEN /\ t < p[i + 1].at /\ ~p[i + 1].first
                              /\ p[i + 1].at - p[i].at <= Tolerance
                ELSE t < p[i].at + grace}}
    BY <1>1, <1>2 DEF Proven
  <2>3. \A i \in 1..n : (i < n /\ i \in 1..(n - 1)) \/ (i = n /\ ~(i < n) /\ n >= 1)
    <3>1. n \in Nat
      BY <1>2
    <3> QED BY <3>1
  <2>4. \A i \in 1..(n - 1) : i \in 1..n /\ i < n
    <3>1. n \in Nat
      BY <1>2
    <3> QED BY <3>1
  <2>5. n >= 1 => n \in 1..n /\ ~(n < n)
    <3>1. n \in Nat
      BY <1>2
    <3> QED BY <3>1
  <2>6. ASSUME NEW x PROVE x \in Proven(c, t, grace) => x \in LinkedAt(p, c, t) \/ x \in extra
    BY <1>2, <2>1, <2>2, <2>3 DEF LinkedAt, Linked
  <2>7. ASSUME NEW x PROVE x \in LinkedAt(p, c, t) => x \in Proven(c, t, grace)
    BY <1>2, <2>2, <2>4 DEF LinkedAt, Linked
  <2>8. ASSUME NEW x PROVE x \in extra => x \in Proven(c, t, grace)
    BY <2>1, <2>2, <2>5
  <2> QED BY <2>1, <2>6, <2>7, <2>8
<1>4. LinkedAt(p, c, t) = StatusesAt(s, t, 0)
  BY <1>2 DEF LogInv
<1>5. CASE n = 0
  <2>1. StatusesAt(s, t, grace) = {} /\ StatusesAt(s, t, 0) = {}
    <3>1. Len(s) = 0
      BY <1>2, <1>5 DEF LogInv
    <3> QED BY <3>1 DEF StatusesAt
  <2> QED BY <1>1, <1>3, <1>4, <1>5, <2>1
<1>6. CASE n # 0
  <2>1. PICK m : m = Len(s)
    OBVIOUS
  <2>2. /\ m \in Nat /\ m >= 1 /\ m \in 1..m /\ n >= 1 /\ n \in 1..n
        /\ s[m].ended = Open /\ s[m].through = p[n].at /\ s[m].status = p[n].seen[c]
        /\ s[m] \in Intervals /\ s[m].started <= s[m].through /\ Ordered(s)
    BY <1>2, <1>6, <2>1 DEF LogInv, Ordered
  <2>3. s[m].started \in Nat /\ s[m].through \in Nat
    BY <2>2 DEF Intervals
  <2>4. ASSUME NEW k \in 1..m PROVE
          Covers(s[k], t, grace) <=>
            Covers(s[k], t, 0) \/ (k = m /\ s[m].through <= t /\ t < s[m].through + grace)
    <3>1. CASE k = m
      BY <2>2, <2>3, <3>1 DEF Covers, ConfirmedTo
    <3>2. CASE k # m
      <4>1. k < m
        BY <2>2, <3>2
      <4>2. s[k].ended # Open
        BY <2>1, <2>2, <4>1 DEF Ordered
      <4> QED BY <3>2, <4>2 DEF Covers, ConfirmedTo
    <3> QED BY <3>1, <3>2
  <2>5. StatusesAt(s, t, grace) = StatusesAt(s, t, 0) \cup
          {s[k].status : k \in {k \in {m} : s[m].through <= t /\ t < s[m].through + grace}}
    BY <2>1, <2>2, <2>4 DEF StatusesAt
  <2> QED BY <1>1, <1>3, <1>4, <2>2, <2>5
<1> QED BY <1>2, <1>5, <1>6

LEMMA WitnessedIsTruth ==
  ASSUME Inv, HistoryInv, NEW c \in Cameras, NEW t \in Int, NEW grace \in Nat
  PROVE  Ordered(history[c]) /\ TruthAt(history[c], t, grace) = {Witnessed(c, t, grace)}
<1>1. PICK s : s = history[c]
  OBVIOUS
<1>2. Ordered(s) /\ Proven(c, t, grace) = StatusesAt(s, t, grace)
  BY <1>1, ProvenIsTold DEF HistoryInv, LogInv
<1>3. CASE StatusesAt(s, t, grace) = {}
  BY <1>1, <1>2, <1>3 DEF TruthAt, Witnessed
<1>4. CASE StatusesAt(s, t, grace) # {}
  <2>1. PICK k \in 1..Len(s) : Covers(s[k], t, grace)
    BY <1>4 DEF StatusesAt
  <2>2. TruthAt(s, t, grace) = {s[k].status}
    BY <1>2, <2>1, OneTruth
  <2>3. StatusesAt(s, t, grace) = {s[k].status}
    BY <1>4, <2>2 DEF TruthAt
  <2>4. Witnessed(c, t, grace) = s[k].status
    BY <1>2, <2>3 DEF Witnessed
  <2> QED BY <1>1, <1>2, <2>2, <2>4
<1> QED BY <1>3, <1>4

LEMMA InvGivesHonest == Inv /\ HistoryInv => CoverageIsHonest
<1> SUFFICES ASSUME Inv, HistoryInv, NEW c \in Cameras, NEW w \in Windows,
                    NEW t \in w[1]..(w[2] - 1)
             PROVE  LET truth == [u \in 0..now |-> Witnessed(c, u, Tolerance)]
                        segments == CameraSegments(history[c], w[1], w[2], Tolerance)
                    IN {s.status : s \in {s \in segments : s.start <= t /\ t < s.end}} = {truth[t]}
  BY DEF CoverageIsHonest
<1>1. PICK start, end : start = w[1] /\ end = w[2]
  OBVIOUS
<1>2. /\ start \in Nat /\ end \in Nat /\ start < end /\ end <= now /\ now \in Nat
      /\ t \in start..(end - 1) /\ t \in 0..now /\ t \in Int /\ Tolerance \in Nat
  <2>1. w[1] \in 0..now /\ w[2] \in 0..now /\ w[1] < w[2] /\ now \in 0..MaxTime
    BY DEF Windows, Inv, TypeInv
  <2> QED BY <1>1, <2>1, HealthAssumption DEF HealthAssumption
<1>3. PICK segments : segments = CameraSegments(history[c], start, end, Tolerance)
  OBVIOUS
<1>4. Ordered(history[c]) /\ TruthAt(history[c], t, Tolerance) = {Witnessed(c, t, Tolerance)}
  BY <1>2, WitnessedIsTruth
<1>5. Told(segments, t) = TruthAt(history[c], t, Tolerance)
  BY <1>2, <1>3, <1>4, SegmentsTell
<1>6. {s.status : s \in {s \in segments : s.start <= t /\ t < s.end}} = {Witnessed(c, t, Tolerance)}
  BY <1>4, <1>5 DEF Told
<1> QED BY <1>1, <1>2, <1>3, <1>6

\* No fabricated coverage and no invented outage: camera_segments over the
\* history of _record_history reports each slice of every window with the status
\* two polls of one process prove, and every other slice as unknown.
THEOREM CoverageStaysHonest == Spec => []CoverageIsHonest
BY SpecHistoryInv, InvGivesHonest, PTL


-----------------------------------------------------------------------------
LEMMA GreatestUpTo ==
  ASSUME NEW T \in SUBSET Nat, T # {}, NEW t \in Nat, \A x \in T : x <= t
  PROVE  \E x \in T : \A y \in T : y <= x
<1>1. PICK D : D = {t - x : x \in T}
  OBVIOUS
<1>2. D \in SUBSET Nat /\ D # {}
  <2>1. ASSUME NEW x \in T PROVE t - x \in Nat
    <3>1. x \in Nat /\ x <= t
      OBVIOUS
    <3> QED BY <3>1
  <2> QED BY <1>1, <2>1
<1>3. PICK d \in D : \A e \in D : d <= e
  BY <1>2, LeastNat
<1>4. PICK x \in T : d = t - x
  BY <1>1, <1>3
<1>5. ASSUME NEW y \in T PROVE y <= x
  <2>1. t - y \in D
    BY <1>1
  <2>2. d <= t - y
    BY <1>3, <2>1
  <2> QED BY <1>4, <2>2
<1> QED BY <1>5

\* What the cameras that watch a zone say of a slice, all together.
ZoneTruth(watching, t) == {Witnessed(c, t, 0) : c \in watching}

\* Every camera's timeline over a window, with no grace.
Timelines(watching, start, end) ==
  UNION {CameraSegments(history[c], start, end, 0) : c \in watching}

LEMMA OneTimelineTells ==
  ASSUME Inv, HistoryInv, NEW c \in Cameras,
         NEW start \in Nat, NEW end \in Nat, start < end
  PROVE  LET segments == CameraSegments(history[c], start, end, 0) IN
         /\ WithinWindow(segments, start, end) /\ \A g \in segments : g.start < g.end
         /\ \A t \in start..(end - 1) : Told(segments, t) = {Witnessed(c, t, 0)}
<1>1. c \in Cameras /\ 0 \in Nat
  OBVIOUS
<1>2. Ordered(history[c])
  BY <1>1 DEF HistoryInv, LogInv
<1>3. ASSUME NEW t \in start..(end - 1)
      PROVE  TruthAt(history[c], t, 0) = {Witnessed(c, t, 0)}
  <2>1. t \in Int
    OBVIOUS
  <2> QED BY <1>1, <2>1, WitnessedIsTruth
<1>4. PICK segments : segments = CameraSegments(history[c], start, end, 0)
  OBVIOUS
<1>5. /\ WithinWindow(segments, start, end) /\ \A g \in segments : g.start < g.end
      /\ \A t \in start..(end - 1) : Told(segments, t) = TruthAt(history[c], t, 0)
  BY <1>1, <1>2, <1>4, SegmentsTell
<1> QED BY <1>3, <1>4, <1>5

LEMMA TimelinesTell ==
  ASSUME Inv, HistoryInv, NEW watching \in SUBSET Cameras,
         NEW start \in Nat, NEW end \in Nat, start < end, NEW g \in Timelines(watching, start, end)
  PROVE  /\ g.start \in Nat /\ g.end \in Nat /\ g.status \in Statuses
         /\ start <= g.start /\ g.start < g.end /\ g.end <= end
         /\ \A t \in g.start..(g.end - 1) : g.status \in ZoneTruth(watching, t)
<1>1. PICK c \in watching : g \in CameraSegments(history[c], start, end, 0)
  BY DEF Timelines
<1>2. PICK segments : segments = CameraSegments(history[c], start, end, 0)
  OBVIOUS
<1>3. /\ g \in segments /\ g.start \in Int /\ g.end \in Int /\ g.status \in Statuses
      /\ start <= g.start /\ g.start < g.end /\ g.end <= end
  BY OneTimelineTells, <1>1, <1>2 DEF WithinWindow
<1>4. ASSUME NEW t \in g.start..(g.end - 1) PROVE g.status \in ZoneTruth(watching, t)
  <2>1. t \in start..(end - 1) /\ g.start <= t /\ t < g.end
    BY <1>3
  <2>2. g.status \in Told(segments, t)
    BY <1>3, <2>1 DEF Told
  <2>3. Told(segments, t) = {Witnessed(c, t, 0)}
    BY OneTimelineTells, <1>2, <2>1
  <2> QED BY <2>2, <2>3 DEF ZoneTruth
<1> QED BY <1>3, <1>4

LEMMA SomeTimelineTells ==
  ASSUME Inv, HistoryInv, NEW watching \in SUBSET Cameras,
         NEW start \in Nat, NEW end \in Nat, start < end,
         NEW t \in start..(end - 1), NEW x \in ZoneTruth(watching, t)
  PROVE  \E g \in Timelines(watching, start, end) : g.start <= t /\ t < g.end /\ g.status = x
<1>1. PICK c \in watching : x = Witnessed(c, t, 0)
  BY DEF ZoneTruth
<1>2. PICK segments : segments = CameraSegments(history[c], start, end, 0)
  OBVIOUS
<1>3. x \in Told(segments, t)
  BY OneTimelineTells, <1>1, <1>2
<1>4. PICK g \in segments : g.start <= t /\ t < g.end /\ g.status = x
  BY <1>3 DEF Told
<1> QED BY <1>2, <1>4 DEF Timelines

LEMMA PointsInWindow ==
  ASSUME Inv, HistoryInv, NEW watching \in SUBSET Cameras,
         NEW start \in Nat, NEW end \in Nat, start < end
  PROVE  Boundaries(Timelines(watching, start, end), start, end) \subseteq start..end
<1> SUFFICES ASSUME NEW p \in Boundaries(Timelines(watching, start, end), start, end)
             PROVE  p \in start..end
  OBVIOUS
<1>1. /\ start <= p /\ p <= end
      /\ p \in {start, end} \/ \E g \in Timelines(watching, start, end) :
                                 p \in {Max2(g.start, start), Min2(g.end, end)}
  BY DEF Boundaries
<1>2. \A g \in Timelines(watching, start, end) : g.start \in Nat /\ g.end \in Nat
  BY TimelinesTell
<1>3. p \in Int
  BY <1>1, <1>2 DEF Max2, Min2
<1> QED BY <1>1, <1>3

\* The sweep cuts the window where some timeline changes, and nowhere inside a
\* segment: between two neighbouring boundaries every camera says one thing.
LEMMA SliceIsUniform ==
  ASSUME Inv, HistoryInv, NEW watching \in SUBSET Cameras,
         NEW start \in Nat, NEW end \in Nat, start < end,
         NEW segments, segments = Timelines(watching, start, end),
         NEW points, points = Boundaries(segments, start, end),
         NEW left \in points, NEW right \in points, left < right,
         \A p \in points : left < p => right <= p,
         NEW t \in left..(right - 1)
  PROVE  StatusesOver(segments, left, right) = ZoneTruth(watching, t)
<1>1. \A g \in segments : g.start \in points /\ g.end \in points
  <2> SUFFICES ASSUME NEW g \in segments PROVE g.start \in points /\ g.end \in points
    OBVIOUS
  <2>1. /\ g.start \in Nat /\ g.end \in Nat
        /\ start <= g.start /\ g.start < g.end /\ g.end <= end
    BY TimelinesTell
  <2>2. Max2(g.start, start) = g.start /\ Min2(g.end, end) = g.end
    BY <2>1 DEF Max2, Min2
  <2>3. {g.start, g.end} \in {{Max2(s.start, start), Min2(s.end, end)} : s \in segments}
    BY <2>2
  <2> QED BY <2>1, <2>3 DEF Boundaries
<1>2. points \subseteq start..end
  BY PointsInWindow
<1>3. t \in start..(end - 1) /\ left <= t /\ t < right /\ left \in Nat /\ right \in Nat
  BY <1>2
<1>4. ASSUME NEW x \in StatusesOver(segments, left, right) PROVE x \in ZoneTruth(watching, t)
  <2>1. PICK g \in segments : g.start <= left /\ g.end >= right /\ g.status = x
    BY DEF StatusesOver
  <2>2. g.start \in Nat /\ g.end \in Nat
    BY TimelinesTell
  <2>3. t \in g.start..(g.end - 1)
    BY <1>3, <2>1, <2>2
  <2>4. g.status \in ZoneTruth(watching, t)
    BY <2>3, TimelinesTell
  <2> QED BY <2>1, <2>4
<1>5. ASSUME NEW x \in ZoneTruth(watching, t) PROVE x \in StatusesOver(segments, left, right)
  <2>1. PICK g \in segments : g.start <= t /\ t < g.end /\ g.status = x
    <3>1. t \in start..(end - 1)
      BY <1>3
    <3> QED BY <3>1, SomeTimelineTells
  <2>2. g.start \in Nat /\ g.end \in Nat /\ g.start \in points /\ g.end \in points
    BY <1>1, TimelinesTell
  <2>3. g.start <= left
    BY <1>3, <2>1, <2>2
  <2>4. g.end >= right
    BY <1>3, <2>1, <2>2
  <2> QED BY <2>1, <2>3, <2>4 DEF StatusesOver
<1> QED BY <1>4, <1>5

\* The zone's uncovered slices are those no camera was healthy in, each with the
\* status SliceStatus makes of what the cameras say.
LEMMA ZoneTells ==
  ASSUME Inv, HistoryInv, NEW watching \in SUBSET Cameras,
         NEW start \in Nat, NEW end \in Nat, start < end
  PROVE  /\ \A g \in ZoneSegments(history, watching, start, end) :
              \E t \in start..(end - 1) : g.status = SliceStatus(ZoneTruth(watching, t))
         /\ \A g \in ZoneSegments(history, watching, start, end) : g.status # "healthy"
         /\ \A t \in start..(end - 1) : SliceStatus(ZoneTruth(watching, t)) # "healthy" =>
              \E g \in ZoneSegments(history, watching, start, end) :
                g.status = SliceStatus(ZoneTruth(watching, t))
<1> DEFINE segments == Timelines(watching, start, end)
           points == Boundaries(segments, start, end)
           after(p) == {q \in points : p < q}
           right(p) == Min(after(p))
           swept == {Segment(p, right(p), SliceStatus(StatusesOver(segments, p, right(p))))
                       : p \in {p \in points : \E q \in points : p < q}}
<1>1. ZoneSegments(history, watching, start, end) = {s \in swept : s.status # "healthy"}
  BY DEF ZoneSegments, Timelines
<1>2. points \subseteq start..end /\ start \in points /\ end \in points
  <2>1. points \subseteq start..end
    BY PointsInWindow
  <2>2. start \in points /\ end \in points
    BY DEF Boundaries
  <2> QED BY <2>1, <2>2
<1>3. ASSUME NEW p \in points, NEW o \in points, p < o
      PROVE  /\ right(p) \in points /\ p < right(p) /\ p \in Nat /\ right(p) \in Nat
             /\ \A q \in points : p < q => right(p) <= q
  <2>1. after(p) \in SUBSET Nat /\ after(p) # {}
    BY <1>2, <1>3
  <2> HIDE DEF after
  <2>2. PICK q \in after(p) : \A r \in after(p) : q <= r
    BY <2>1, LeastNat
  <2>3. Min(after(p)) = q
    <3>1. after(p) \in SUBSET Int
      BY <2>1
    <3> QED BY <2>2, <3>1, LeastIsMin
  <2> USE DEF after
  <2> QED BY <1>2, <2>2, <2>3
<1>4. ASSUME NEW p \in points, NEW o \in points, p < o, NEW t \in p..(right(p) - 1)
      PROVE  StatusesOver(segments, p, right(p)) = ZoneTruth(watching, t)
  <2>1. PICK q, ss, pp : q = right(p) /\ ss = segments /\ pp = points
    OBVIOUS
  <2>2. /\ q \in pp /\ p < q /\ (\A r \in pp : p < r => q <= r) /\ t \in p..(q - 1) /\ p \in pp
        /\ ss = Timelines(watching, start, end) /\ pp = Boundaries(ss, start, end)
    BY <1>3, <1>4, <2>1
  <2>3. StatusesOver(ss, p, q) = ZoneTruth(watching, t)
    BY <2>2, SliceIsUniform
  <2> QED BY <2>1, <2>3
<1> HIDE DEF right, points, segments
<1>5. ASSUME NEW g \in swept
      PROVE  \E t \in start..(end - 1) : g.status = SliceStatus(ZoneTruth(watching, t))
  <2>1. PICK p \in points, o \in points :
          p < o /\ g = Segment(p, right(p), SliceStatus(StatusesOver(segments, p, right(p))))
    OBVIOUS
  <2>2. right(p) \in points /\ p < right(p) /\ p \in Nat /\ right(p) \in Nat
    BY <1>3, <2>1
  <2>3. p \in start..(end - 1) /\ p \in p..(right(p) - 1)
    BY <1>2, <2>2
  <2>4. StatusesOver(segments, p, right(p)) = ZoneTruth(watching, p)
    BY <1>4, <2>1, <2>3
  <2>5. g.status = SliceStatus(ZoneTruth(watching, p))
    BY <2>1, <2>4 DEF Segment
  <2> QED BY <2>3, <2>5
<1>6. ASSUME NEW t \in start..(end - 1)
      PROVE  \E g \in swept : g.status = SliceStatus(ZoneTruth(watching, t))
  <2>1. PICK before : before = {p \in points : p <= t}
    OBVIOUS
  <2>2. before \in SUBSET Nat /\ before # {} /\ (\A p \in before : p <= t) /\ t \in Nat
    <3>1. start \in before /\ t \in Nat
      BY <1>2, <2>1
    <3>2. \A p \in before : p \in start..end /\ p <= t
      BY <1>2, <2>1
    <3> QED BY <3>1, <3>2
  <2>3. PICK p \in before : \A q \in before : q <= p
    BY <2>2, GreatestUpTo
  <2>4. p \in points /\ p <= t /\ p < end /\ end \in points
    BY <1>2, <2>1, <2>3
  <2>5. right(p) \in points /\ p < right(p) /\ p \in Nat /\ right(p) \in Nat
    BY <1>3, <2>4
  <2>6. t < right(p)
    BY <2>1, <2>2, <2>3, <2>5
  <2>7. t \in p..(right(p) - 1)
    BY <2>2, <2>4, <2>5, <2>6
  <2>8. StatusesOver(segments, p, right(p)) = ZoneTruth(watching, t)
    BY <1>4, <2>4, <2>7
  <2>9. Segment(p, right(p), SliceStatus(StatusesOver(segments, p, right(p)))) \in swept
    BY <2>4
  <2>10. Segment(p, right(p), SliceStatus(StatusesOver(segments, p, right(p)))).status
           = SliceStatus(ZoneTruth(watching, t))
    BY <2>8 DEF Segment
  <2> QED BY <2>9, <2>10
<1> HIDE DEF swept
<1> QED BY <1>1, <1>5, <1>6

LEMMA ZoneTruthTyped ==
  ASSUME Inv, HistoryInv, NEW watching \in SUBSET Cameras, NEW t \in Int
  PROVE  ZoneTruth(watching, t) \subseteq Statuses
<1> SUFFICES ASSUME NEW c \in watching PROVE Witnessed(c, t, 0) \in Statuses
  BY DEF ZoneTruth
<1>1. c \in Cameras /\ 0 \in Nat
  OBVIOUS
<1>2. Ordered(history[c]) /\ TruthAt(history[c], t, 0) = {Witnessed(c, t, 0)}
  BY <1>1, WitnessedIsTruth
<1>3. \A k \in 1..Len(history[c]) : history[c][k].status \in Statuses
  <2>1. PICK s : s = history[c]
    OBVIOUS
  <2>2. \A k \in 1..Len(s) : s[k] \in Intervals
    BY <1>2, <2>1 DEF Ordered
  <2> QED BY <2>1, <2>2 DEF Intervals
<1>4. TruthAt(history[c], t, 0) \subseteq Statuses
  BY <1>3 DEF TruthAt, StatusesAt, Statuses
<1> QED BY <1>2, <1>4

\* Up to the last poll the grace makes no difference; after it, nothing else does.
LEMMA NoGraceAfterLast ==
  ASSUME Inv, HistoryInv, NEW c \in Cameras, NEW t \in 0..now
  PROVE  Witnessed(c, t, 0) = IF t < LastAt THEN Witnessed(c, t, Tolerance) ELSE "unknown"
<1>1. PICK n : n = Len(polls)
  OBVIOUS
<1>2. n \in Nat /\ t \in Nat /\ Tolerance \in Nat /\ DOMAIN polls = 1..n /\ polls \in Seq(Polls)
  <2>1. polls \in Seq(Polls) /\ now \in 0..MaxTime
    BY DEF Inv, TypeInv
  <2> QED BY <1>1, <2>1, HealthAssumption DEF HealthAssumption
<1>3. \A i \in 1..n : polls[i].at \in Nat
  <2>1. \A i \in 1..n : polls[i] \in Polls
    BY <1>1, <1>2
  <2> QED BY <2>1 DEF Polls
<1>4. \A i, j \in 1..n : i < j => polls[i].at < polls[j].at
  BY <1>1 DEF HistoryInv, PollsInv
<1>5. /\ n = 0 => LastAt = 0
      /\ n # 0 => LastAt = polls[n].at /\ n \in 1..n
  BY <1>1, <1>2 DEF LastAt
<1>6. CASE t < LastAt
  <2>1. \A i \in 1..n : ~(i < n) => ~(polls[i].at <= t)
    <3>1. \A i \in 1..n : ~(i < n) => i = n
      BY <1>2
    <3> QED BY <1>2, <1>3, <1>5, <1>6, <3>1
  <2>2. Proven(c, t, 0) = Proven(c, t, Tolerance)
    BY <1>1, <1>2, <2>1 DEF Proven
  <2>3. PICK P : P = Proven(c, t, 0)
    OBVIOUS
  <2>4. P = Proven(c, t, Tolerance)
    BY <2>2, <2>3
  <2>5. Witnessed(c, t, 0) = IF P = {} THEN "unknown" ELSE CHOOSE s \in P : TRUE
    BY <2>3 DEF Witnessed
  <2>6. Witnessed(c, t, Tolerance) = IF P = {} THEN "unknown" ELSE CHOOSE s \in P : TRUE
    BY <2>4 DEF Witnessed
  <2> QED BY <1>6, <2>5, <2>6
<1>7. CASE ~(t < LastAt)
  <2>1. ASSUME NEW i \in 1..n, i < n PROVE ~(t < polls[i + 1].at)
    <3>1. i + 1 \in 1..n /\ n # 0 /\ (i + 1 = n \/ i + 1 < n)
      BY <1>2, <2>1
    <3>2. polls[i + 1].at <= polls[n].at
      BY <1>3, <1>4, <1>5, <3>1
    <3>3. polls[i + 1].at \in Nat /\ polls[n].at \in Nat
      BY <1>3, <1>5, <3>1
    <3> QED BY <1>2, <1>5, <1>7, <3>1, <3>2, <3>3
  <2>2. ASSUME NEW i \in 1..n, polls[i].at <= t PROVE ~(t < polls[i].at + 0)
    <3>1. polls[i].at \in Nat
      BY <1>3
    <3> QED BY <1>2, <2>2, <3>1
  <2>3. Proven(c, t, 0) = {}
    BY <1>1, <1>2, <2>1, <2>2 DEF Proven
  <2> QED BY <1>7, <2>3 DEF Witnessed
<1> QED BY <1>6, <1>7

LEMMA InvGivesUnion == Inv /\ HistoryInv => ZoneCoverageIsUnion
<1> DEFINE truth == [c \in Cameras |-> [t \in 0..now |->
                       IF t < LastAt THEN Witnessed(c, t, Tolerance) ELSE "unknown"]]
           dark(watching, w) == {t \in w[1]..(w[2] - 1) :
                                   \A c \in watching : truth[c][t] # "healthy"}
<1> SUFFICES ASSUME Inv, HistoryInv, NEW watching \in Zones, NEW w \in Windows
             PROVE  LET complete == ZoneComplete(history, watching, w[1], w[2])
                    IN /\ complete = "true" <=> dark(watching, w) = {}
                       /\ complete = "false" <=>
                            \E t \in dark(watching, w) :
                              \A c \in watching : truth[c][t] # "unknown"
  BY DEF ZoneCoverageIsUnion, ZoneAnswers
<1> HIDE DEF truth, dark
<1>1. PICK start, end : start = w[1] /\ end = w[2]
  OBVIOUS
<1>2. /\ start \in Nat /\ end \in Nat /\ start < end /\ end <= now /\ now \in Nat
      /\ watching \in SUBSET Cameras /\ watching # {}
  <2>1. w[1] \in 0..now /\ w[2] \in 0..now /\ w[1] < w[2] /\ now \in 0..MaxTime
    BY DEF Windows, Inv, TypeInv
  <2> QED BY <1>1, <2>1, HealthAssumption DEF HealthAssumption
<1>3. PICK segments : segments = ZoneSegments(history, watching, start, end)
  OBVIOUS
<1>4. /\ \A g \in segments : g.status # "healthy" /\
           \E t \in start..(end - 1) : g.status = SliceStatus(ZoneTruth(watching, t))
      /\ \A t \in start..(end - 1) : SliceStatus(ZoneTruth(watching, t)) # "healthy" =>
           \E g \in segments : g.status = SliceStatus(ZoneTruth(watching, t))
  BY <1>2, <1>3, ZoneTells
<1>5. ASSUME NEW t \in start..(end - 1)
      PROVE  LET told == ZoneTruth(watching, t) IN
             /\ SliceStatus(told) \in Statuses
             /\ SliceStatus(told) # "healthy" <=> "healthy" \notin told
             /\ SliceStatus(told) \in {"offline", "degraded"} <=>
                  "healthy" \notin told /\ "unknown" \notin told
  <2>1. PICK told : told = ZoneTruth(watching, t)
    OBVIOUS
  <2>2. told \subseteq Statuses /\ told # {}
    <3>1. t \in Int
      OBVIOUS
    <3> QED BY <1>2, <2>1, <3>1, ZoneTruthTyped DEF ZoneTruth
  <2>3. (CHOOSE s \in told : TRUE) \in told
    BY <2>2
  <2>4. /\ "healthy" \in told => SliceStatus(told) = "healthy"
        /\ "healthy" \notin told /\ "unknown" \in told => SliceStatus(told) = "unknown"
        /\ "healthy" \notin told /\ "unknown" \notin told => SliceStatus(told) \in told
    BY <2>2, <2>3 DEF SliceStatus
  <2> QED BY <2>1, <2>2, <2>4 DEF Statuses
<1>6. ZoneComplete(history, watching, start, end) =
        IF \E g \in segments : g.status \in {"offline", "degraded"} THEN "false"
        ELSE IF \E g \in segments : g.status = "unknown" THEN "null" ELSE "true"
  BY <1>2, <1>3 DEF ZoneComplete, Verdict, IsGap, IsUnknown
<1>7. \A g \in segments : g.status \in Statuses \ {"healthy"}
  BY <1>4, <1>5
<1>8. ZoneComplete(history, watching, start, end) = "true" <=> segments = {}
  BY <1>6, <1>7 DEF Statuses
<1>9. ZoneComplete(history, watching, start, end) = "false" <=>
        \E g \in segments : g.status \in {"offline", "degraded"}
  BY <1>6
<1>10. segments = {} <=> \A t \in start..(end - 1) : "healthy" \in ZoneTruth(watching, t)
  BY <1>4, <1>5
<1>11. (\E g \in segments : g.status \in {"offline", "degraded"}) <=>
        \E t \in start..(end - 1) : /\ "healthy" \notin ZoneTruth(watching, t)
                                    /\ "unknown" \notin ZoneTruth(watching, t)
  <2>1. ASSUME NEW g \in segments, g.status \in {"offline", "degraded"}
        PROVE  \E t \in start..(end - 1) : /\ "healthy" \notin ZoneTruth(watching, t)
                                           /\ "unknown" \notin ZoneTruth(watching, t)
    <3>1. PICK t \in start..(end - 1) : g.status = SliceStatus(ZoneTruth(watching, t))
      BY <1>4
    <3> QED BY <1>5, <2>1, <3>1
  <2>2. ASSUME NEW t \in start..(end - 1), "healthy" \notin ZoneTruth(watching, t),
               "unknown" \notin ZoneTruth(watching, t)
        PROVE  \E g \in segments : g.status \in {"offline", "degraded"}
    <3>1. /\ SliceStatus(ZoneTruth(watching, t)) # "healthy"
          /\ SliceStatus(ZoneTruth(watching, t)) \in {"offline", "degraded"}
      BY <1>5, <2>2
    <3>2. PICK g \in segments : g.status = SliceStatus(ZoneTruth(watching, t))
      BY <1>4, <3>1
    <3> QED BY <3>1, <3>2
  <2> QED BY <2>1, <2>2
<1>12. truth = [c \in Cameras |-> [t \in 0..now |->
                 IF t < LastAt THEN Witnessed(c, t, Tolerance) ELSE "unknown"]]
  BY DEF truth
<1>13. dark(watching, w) = {t \in start..(end - 1) : \A c \in watching : truth[c][t] # "healthy"}
  BY <1>1 DEF dark
<1>14. ASSUME NEW t \in start..(end - 1)
       PROVE  /\ \A c \in watching : truth[c][t] = Witnessed(c, t, 0)
              /\ (\A c \in watching : truth[c][t] # "healthy") <=> "healthy" \notin ZoneTruth(watching, t)
              /\ (\A c \in watching : truth[c][t] # "unknown") <=> "unknown" \notin ZoneTruth(watching, t)
  <2>1. t \in 0..now
    BY <1>2
  <2>2. \A c \in watching : truth[c][t] = Witnessed(c, t, 0)
    BY <1>2, <1>12, <2>1, NoGraceAfterLast
  <2> QED BY <2>2 DEF ZoneTruth
<1>15. dark(watching, w) = {} <=> segments = {}
  BY <1>10, <1>13, <1>14
<1>16. (\E t \in dark(watching, w) : \A c \in watching : truth[c][t] # "unknown") <=>
         \E g \in segments : g.status \in {"offline", "degraded"}
  BY <1>11, <1>13, <1>14
<1> QED BY <1>1, <1>8, <1>9, <1>15, <1>16

\* Up to the last poll a zone is reported as covered exactly when in every slice
\* some watching camera is proven healthy, and as having a gap exactly when in
\* some slice all are proven down: the boundary sweep of get_zone_coverage
\* misses no change.  After the last poll it always answers unknown, although
\* its cameras' own timelines reach further.
THEOREM ZoneCoverageStaysUnion == Spec => []ZoneCoverageIsUnion
BY SpecHistoryInv, InvGivesUnion, PTL
=============================================================================
