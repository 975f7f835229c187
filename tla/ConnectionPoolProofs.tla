------------------------ MODULE ConnectionPoolProofs ------------------------
(****************************************************************************)
(* For every number of requests and every size of the pool: nobody waits    *)
(* with a connection in hand (NoHoldAndWait), an execution approved by      *)
(* policy does not lose its result (ResultLostOnlyAfterVerdict), and the    *)
(* lock of the revocation copy is held by a refresh alone (LockInUse).      *)
(*                                                                          *)
(* The argument is about the programs.  An operation after which a          *)
(* connection may be in hand is never followed by one that waits; and the   *)
(* broker's call of a dispatch approved by policy is followed by a commit   *)
(* alone, which asks the pool for nothing.                                  *)
(****************************************************************************)
EXTENDS ConnectionPool, SequenceTheorems, TLAPS

Ops == {"age", "lock", "connect", "install", "query", "commit", "mail", "broker", "poll", "add"}

\* Operations that wait for a connection of their own, for the lock, or go on to;
\* and those that may leave a connection in hand.
Waits == {"age", "lock", "connect", "add"}
Keeps == {"connect", "query", "mail", "broker", "poll"}

\* Whoever keeps a connection does not wait next, and the broker is called last but
\* for a commit, unless a human has given the verdict.
Sound(program, kind) ==
    /\ program \in Seq(Ops)
    /\ \A i \in 1..Len(program) - 1 : program[i] \in Keeps => program[i + 1] \notin Waits
    /\ kind # "human" =>
         \A i \in 1..Len(program) :
           program[i] = "broker" =>
             \A j \in 1..Len(program) : j > i => program[j] = "commit"

LEMMA VerifyFacts == Verify \in Seq(Ops) /\ Len(Verify) = 4
  BY DEF Verify, Ops

LEMMA AfterVerify ==
  ASSUME NEW rest \in Seq(Ops)
  PROVE  /\ Verify \o rest \in Seq(Ops)
         /\ Len(Verify \o rest) = 4 + Len(rest)
         /\ \A i \in 1..4 : (Verify \o rest)[i] = Verify[i]
         /\ \A i \in 5..4 + Len(rest) : (Verify \o rest)[i] = rest[i - 4]
<1>1. PICK s \in Seq(Ops) : s = Verify /\ Len(s) = 4
  BY VerifyFacts
<1>2. Len(s \o rest) = Len(s) + Len(rest) /\ Len(rest) \in Nat /\ s \o rest \in Seq(Ops)
  BY ConcatProperties, LenProperties, Zenon
<1>3. \A i \in 1 .. Len(s) + Len(rest) :
        (s \o rest)[i] = IF i <= Len(s) THEN s[i] ELSE rest[i - Len(s)]
  BY ConcatProperties, Zenon
<1>4. \A i \in 1..4 : (s \o rest)[i] = s[i]
  BY <1>1, <1>2, <1>3
<1>5. \A i \in 5..4 + Len(rest) : (s \o rest)[i] = rest[i - 4]
  <2> TAKE i \in 5..4 + Len(rest)
  <2>1. i \in 1 .. Len(s) + Len(rest) /\ ~(i <= Len(s)) /\ i - Len(s) = i - 4
    BY <1>1, <1>2
  <2>2. QED
    BY <1>3, <2>1
<1>6. QED
  BY <1>1, <1>2, <1>4, <1>5, Zenon

\* A program that begins with the check is sound if what comes after it is.
LEMMA VerifiedIsSound ==
  ASSUME NEW rest, NEW kind, Sound(rest, kind), Len(rest) >= 1, rest[1] \notin Waits
  PROVE  Sound(Verify \o rest, kind)
<1>1. PICK program : program = Verify \o rest
  OBVIOUS
<1>2. rest \in Seq(Ops) /\ Len(rest) \in Nat
  BY LenProperties DEF Sound
<1>3. /\ program \in Seq(Ops) /\ Len(program) = 4 + Len(rest)
      /\ \A i \in 1..4 : program[i] = Verify[i]
      /\ \A i \in 5..4 + Len(rest) : program[i] = rest[i - 4]
  BY <1>1, <1>2, AfterVerify
<1>4. /\ program[1] = "age" /\ program[2] = "lock" /\ program[3] = "connect"
      /\ program[4] = "install"
  BY <1>3 DEF Verify
<1>5. ASSUME NEW i \in 1..Len(program) - 1, program[i] \in Keeps
      PROVE  program[i + 1] \notin Waits
  <2>1. CASE i <= 4
    <3>1. i = 1 \/ i = 2 \/ i = 3 \/ i = 4
      BY <1>2, <1>3, <2>1
    <3>2. QED
      BY <1>4, <1>5, <3>1 DEF Keeps, Waits
  <2>2. CASE i > 4
    <3>1. i - 4 \in 1..Len(rest) - 1 /\ i \in 5..4 + Len(rest) /\ i + 1 \in 5..4 + Len(rest)
          /\ (i + 1) - 4 = (i - 4) + 1
      BY <1>2, <1>3, <2>2
    <3>2. program[i] = rest[i - 4] /\ program[i + 1] = rest[(i - 4) + 1]
      BY <1>3, <3>1
    <3>3. QED
      BY <1>5, <3>1, <3>2 DEF Sound
  <2>3. QED
    BY <1>2, <1>3, <2>1, <2>2
<1>6. ASSUME kind # "human", NEW i \in 1..Len(program), program[i] = "broker",
             NEW j \in 1..Len(program), j > i
      PROVE  program[j] = "commit"
  <2>1. i > 4
    <3>1. i # 1 /\ i # 2 /\ i # 3 /\ i # 4
      BY <1>4, <1>6
    <3>2. QED
      BY <1>2, <1>3, <3>1
  <2>2. /\ i - 4 \in 1..Len(rest) /\ j - 4 \in 1..Len(rest) /\ j - 4 > i - 4
        /\ i \in 5..4 + Len(rest) /\ j \in 5..4 + Len(rest)
    BY <1>2, <1>3, <1>6, <2>1
  <2>3. program[i] = rest[i - 4] /\ program[j] = rest[j - 4]
    BY <1>3, <2>2
  <2>4. QED
    BY <1>6, <2>2, <2>3 DEF Sound
<1>7. QED
  BY <1>1, <1>3, <1>5, <1>6 DEF Sound

LEMMA AutoIsSound == Sound(AutoProgram, "auto")
<1> DEFINE rest == <<"query", "commit", "query", "broker", "commit">>
<1>1. rest \in Seq(Ops) /\ Len(rest) = 5 /\ rest[1] \notin Waits
  BY DEF Ops, Waits
<1>2. Sound(rest, "auto")
  <2>1. \A i \in 1..4 : rest[i] \in Keeps => rest[i + 1] \notin Waits
    BY DEF Keeps, Waits
  <2>2. \A i \in 1..5 : rest[i] = "broker" => \A j \in 1..5 : j > i => rest[j] = "commit"
    OBVIOUS
  <2>3. QED
    BY <1>1, <2>1, <2>2 DEF Sound
<1>3. QED
  BY <1>1, <1>2, VerifiedIsSound DEF AutoProgram

LEMMA HumanIsSound == Sound(HumanProgram, "human")
<1> DEFINE rest == <<"query", "commit", "query", "commit", "query", "mail", "commit",
                "query", "commit", "poll", "commit", "broker", "query", "commit">>
<1>1. rest \in Seq(Ops) /\ Len(rest) = 14 /\ rest[1] \notin Waits
  BY DEF Ops, Waits
<1>2. Sound(rest, "human")
  <2>1. \A i \in 1..13 : rest[i] \in Keeps => rest[i + 1] \notin Waits
    BY DEF Keeps, Waits
  <2>2. QED
    BY <1>1, <2>1 DEF Sound
<1>3. QED
  BY <1>1, <1>2, VerifiedIsSound DEF HumanProgram

LEMMA AdminIsSound == Sound(AdminProgram, "admin")
<1> DEFINE rest == <<"query", "commit", "query">>
<1>1. rest \in Seq(Ops) /\ Len(rest) = 3 /\ rest[1] \notin Waits
  BY DEF Ops, Waits
<1>2. Sound(rest, "admin")
  BY <1>1 DEF Sound, Keeps, Waits
<1>3. QED
  BY <1>1, <1>2, VerifiedIsSound DEF AdminProgram

LEMMA TapIsSound == Sound(TapProgram, "tap")
  BY DEF Sound, Keeps, Waits, Ops, TapProgram

LEMMA RevokeIsSound == Sound(RevokeProgram, "revoke")
<1> DEFINE rest == <<"query", "commit", "add">>
<1>1. rest \in Seq(Ops) /\ Len(rest) = 3 /\ rest[1] \notin Waits
  BY DEF Ops, Waits
<1>2. Sound(rest, "revoke")
  BY <1>1 DEF Sound, Keeps, Waits
<1>3. QED
  BY <1>1, <1>2, VerifiedIsSound DEF RevokeProgram

LEMMA ProgramsAreSound == \A kind \in Kinds : Sound(Program(kind), kind)
<1> SUFFICES ASSUME NEW kind \in Kinds PROVE Sound(Program(kind), kind)
  OBVIOUS
<1>1. kind \in {"auto", "human", "admin", "tap", "revoke"}
  BY ConnectionPoolAssumption
<1>2. QED
  BY <1>1, AutoIsSound, HumanIsSound, AdminIsSound, TapIsSound, RevokeIsSound DEF Program
----------------------------------------------------------------------------
(* The calls *)

CallRecord ==
    [at : {"idle", "running", "refused"}, kind : Kinds \union {"none"}, pc : Nat \ {0},
     conn : BOOLEAN, ran : BOOLEAN]

\* What call c does next, with d in place of its record.
NextOp(d) == Program(d.kind)[d.pc]
Within(d) == d.at = "running" /\ d.pc <= Len(Program(d.kind))

\* A call that waits or is over holds nothing; one whose execution was approved by
\* policy has only commits before it.
RecordInv(d) ==
    /\ d.at = "running" => d.kind \in Kinds
    /\ d.at # "running" => d.conn = FALSE
    /\ Within(d) /\ NextOp(d) \in Waits => d.conn = FALSE
    /\ d.ran = TRUE /\ d.kind # "human" =>
         d.at = "running" /\ \A j \in Nat \ {0} :
            j >= d.pc /\ j <= Len(Program(d.kind)) => Program(d.kind)[j] = "commit"

PoolInv == call \in [Calls -> CallRecord] /\ \A c \in Calls : RecordInv(call[c])

LEMMA IdleFacts ==
  /\ Idle \in CallRecord /\ RecordInv(Idle)
  /\ Idle.at = "idle" /\ Idle.conn = FALSE /\ Idle.ran = FALSE
  BY DEF Idle, CallRecord, RecordInv, Within

\* One call takes a step to another record.
LEMMA StepFrame ==
  ASSUME PoolInv, NEW c \in Calls, NEW d \in CallRecord, RecordInv(d),
         call' = [call EXCEPT ![c] = d]
  PROVE  PoolInv'
  BY DEF PoolInv

\* The record e is d some operations further on.
Moved(d, e, steps) ==
    /\ e \in CallRecord
    /\ e.at = d.at /\ e.kind = d.kind /\ e.pc = d.pc + steps
    /\ e.ran = d.ran

\* A call that holds nothing may go on to whatever its program says.
LEMMA FreeStep ==
  ASSUME NEW d \in CallRecord, NEW e \in CallRecord, NEW n \in Nat, RecordInv(d),
         Within(d), Moved(d, e, n), e.conn = FALSE
  PROVE  RecordInv(e)
<1>1. d.pc \in Nat /\ e.pc \in Nat /\ e.pc >= d.pc
  BY DEF CallRecord, Moved
<1>2. ASSUME e.ran = TRUE, e.kind # "human", NEW j \in Nat \ {0}, j >= e.pc,
             j <= Len(Program(e.kind))
      PROVE  Program(e.kind)[j] = "commit"
  <2>1. j >= d.pc
    BY <1>1, <1>2
  <2>2. QED
    BY <1>2, <2>1 DEF RecordInv, Moved
<1>3. QED
  BY <1>2 DEF RecordInv, Moved, Within

\* A call that may hold a connection goes on by one operation, which does not wait.
LEMMA KeepStep ==
  ASSUME NEW d \in CallRecord, NEW e \in CallRecord, RecordInv(d),
         Within(d), NextOp(d) \in Keeps, Moved(d, e, 1)
  PROVE  RecordInv(e)
<1>1. /\ d.pc \in Nat /\ d.pc >= 1 /\ d.kind \in Kinds /\ d.at = "running"
      /\ d.pc <= Len(Program(d.kind))
  BY DEF CallRecord, RecordInv, Within
<1>2. /\ e.pc = d.pc + 1 /\ e.kind = d.kind /\ e.at = "running" /\ e.ran = d.ran
  BY <1>1 DEF Moved
<1>3. Len(Program(d.kind)) \in Nat
  BY <1>1, ProgramsAreSound, LenProperties DEF Sound
<1>4. ASSUME Within(e) PROVE NextOp(e) \notin Waits
  <2>1. d.pc \in 1..Len(Program(d.kind)) - 1
    BY <1>1, <1>2, <1>3, <1>4 DEF Within
  <2>2. QED
    BY <1>1, <1>2, <2>1, ProgramsAreSound DEF Sound, NextOp
<1>5. ASSUME e.ran = TRUE, e.kind # "human", NEW j \in Nat \ {0}, j >= e.pc,
             j <= Len(Program(e.kind))
      PROVE  Program(e.kind)[j] = "commit"
  <2>1. j >= d.pc
    BY <1>1, <1>2, <1>5
  <2>2. QED
    BY <1>2, <1>5, <2>1 DEF RecordInv
<1>6. QED
  BY <1>1, <1>2, <1>4, <1>5 DEF RecordInv

\* Doing is about the record alone.
LEMMA DoingFacts ==
  ASSUME PoolInv, NEW c \in Calls, NEW op, Doing(c, op)
  PROVE  /\ call[c] \in CallRecord /\ RecordInv(call[c])
         /\ Within(call[c]) /\ NextOp(call[c]) = op /\ call[c].pc \in Nat
         /\ call[c].at = "running"
  BY DEF PoolInv, Doing, Running, Op, Within, NextOp, CallRecord

\* The records a step leads to.
LEMMA RecordFacts ==
  ASSUME NEW d \in CallRecord, NEW n \in Nat, NEW b \in BOOLEAN
  PROVE  /\ [d EXCEPT !.pc = @ + n] \in CallRecord
         /\ [d EXCEPT !.pc = @ + n, !.conn = b] \in CallRecord
         /\ [d EXCEPT !.pc = @ + n, !.ran = TRUE] \in CallRecord
         /\ [d EXCEPT !.at = "refused", !.pc = 1, !.conn = FALSE] \in CallRecord
         /\ \A kind \in Kinds : [d EXCEPT !.at = "running", !.kind = kind] \in CallRecord
<1>1. d.pc + n \in Nat \ {0}
  BY DEF CallRecord
<1>2. PICK m \in Nat \ {0} : m = d.pc + n
  BY <1>1
<1>3. /\ [d EXCEPT !.pc = m] \in CallRecord
      /\ [d EXCEPT !.pc = m, !.conn = b] \in CallRecord
      /\ [d EXCEPT !.pc = m, !.ran = TRUE] \in CallRecord
  BY DEF CallRecord
<1>4. [d EXCEPT !.at = "refused", !.pc = 1, !.conn = FALSE] \in CallRecord
  <2>1. PICK at \in {"idle", "running", "refused"}, one \in Nat \ {0} : at = "refused" /\ one = 1
    OBVIOUS
  <2>2. [d EXCEPT !.at = at, !.pc = one, !.conn = FALSE] \in CallRecord
    BY DEF CallRecord
  <2>3. QED
    BY <2>1, <2>2
<1>5. ASSUME NEW kind \in Kinds PROVE [d EXCEPT !.at = "running", !.kind = kind] \in CallRecord
  <2>1. PICK at \in {"idle", "running", "refused"} : at = "running"
    OBVIOUS
  <2>2. [d EXCEPT !.at = at, !.kind = kind] \in CallRecord
    BY DEF CallRecord
  <2>3. QED
    BY <2>1, <2>2
<1>6. QED
  BY <1>2, <1>3, <1>4, <1>5

LEMMA CheckStep ==
  ASSUME PoolInv, NEW c \in Calls, NEW n \in Nat, NEW op \in Waits \union {"mail"},
         Doing(c, op), Continue(c, n), op = "mail" => n = 1
  PROVE  PoolInv'
<1>1. PICK d \in CallRecord : d = call[c] /\ RecordInv(d) /\ Within(d) /\ NextOp(d) = op
  BY DoingFacts
<1>2. PICK e \in CallRecord : e = [d EXCEPT !.pc = @ + n]
  BY RecordFacts
<1>3. Moved(d, e, n) /\ e.conn = d.conn
  BY <1>1, <1>2 DEF Moved, CallRecord
<1>4. call' = [call EXCEPT ![c] = e]
  BY <1>1, <1>2 DEF Continue
<1>5. RecordInv(e)
  <2>1. CASE op = "mail"
    BY <1>1, <1>3, <2>1, KeepStep DEF Keeps
  <2>2. CASE op \in Waits
    <3>1. d.conn = FALSE
      BY <1>1, <2>2 DEF RecordInv
    <3>2. QED
      BY <1>1, <1>3, <3>1, FreeStep
  <2>3. QED
    BY <2>1, <2>2
<1>6. QED
  BY <1>4, <1>5, StepFrame

\* A statement, or the refresh, takes a connection; a commit, or the end of the
\* refresh, gives it back.
LEMMA ConnStep ==
  ASSUME PoolInv, NEW c \in Calls, NEW op, NEW b \in BOOLEAN, Doing(c, op),
         b = TRUE => op \in Keeps,
         call' = [call EXCEPT ![c].pc = @ + 1, ![c].conn = b]
  PROVE  PoolInv'
<1>1. PICK d \in CallRecord : d = call[c] /\ RecordInv(d) /\ Within(d) /\ NextOp(d) = op
  BY DoingFacts
<1>2. PICK e \in CallRecord : e = [d EXCEPT !.pc = @ + 1, !.conn = b]
  BY RecordFacts
<1>3. Moved(d, e, 1) /\ e.conn = b
  BY <1>1, <1>2 DEF Moved, CallRecord
<1>4. call' = [call EXCEPT ![c] = e]
  BY <1>1, <1>2
<1>5. CASE b = TRUE
  BY <1>1, <1>3, <1>4, <1>5, KeepStep, StepFrame
<1>6. CASE b = FALSE
  BY <1>1, <1>3, <1>4, <1>6, FreeStep, StepFrame
<1>7. QED
  BY <1>5, <1>6

LEMMA BrokerStep ==
  ASSUME PoolInv, NEW c \in Calls, CallBroker(c)
  PROVE  PoolInv'
<1>1. PICK d \in CallRecord : d = call[c] /\ RecordInv(d) /\ Within(d) /\ NextOp(d) = "broker"
  BY DoingFacts DEF CallBroker
<1>2. PICK e \in CallRecord : e = [d EXCEPT !.pc = @ + 1, !.ran = TRUE]
  BY RecordFacts
<1>3. call' = [call EXCEPT ![c] = e]
  BY <1>1, <1>2 DEF CallBroker
<1>4. /\ d.pc \in Nat /\ d.pc >= 1 /\ d.kind \in Kinds /\ d.at = "running"
      /\ d.pc <= Len(Program(d.kind))
  BY <1>1 DEF CallRecord, RecordInv, Within
<1>5. /\ e.pc = d.pc + 1 /\ e.kind = d.kind /\ e.at = "running"
  BY <1>2, <1>4 DEF CallRecord
<1>6. Len(Program(d.kind)) \in Nat /\ Sound(Program(d.kind), d.kind)
  BY <1>4, ProgramsAreSound, LenProperties DEF Sound
<1>7. ASSUME Within(e) PROVE NextOp(e) \notin Waits
  <2>1. d.pc \in 1..Len(Program(d.kind)) - 1
    BY <1>4, <1>5, <1>6, <1>7 DEF Within
  <2>2. QED
    BY <1>1, <1>5, <1>6, <2>1 DEF Sound, NextOp, Keeps
<1>8. ASSUME e.kind # "human", NEW j \in Nat \ {0}, j >= e.pc, j <= Len(Program(e.kind))
      PROVE  Program(e.kind)[j] = "commit"
  <2>1. d.pc \in 1..Len(Program(d.kind)) /\ j \in 1..Len(Program(d.kind)) /\ j > d.pc
    BY <1>4, <1>5, <1>6, <1>8
  <2>2. QED
    BY <1>1, <1>5, <1>6, <1>8, <2>1 DEF Sound, NextOp
<1>9. RecordInv(e)
  BY <1>4, <1>5, <1>7, <1>8 DEF RecordInv
<1>10. QED
  BY <1>3, <1>9, StepFrame

\* An approval goes on to the verdict's commit; the others are read again.
LEMMA PollStep ==
  ASSUME PoolInv, NEW c \in Calls, PollRead(c)
  PROVE  PoolInv'
<1>1. PICK d \in CallRecord : d = call[c] /\ RecordInv(d) /\ Within(d) /\ NextOp(d) = "poll"
  BY DoingFacts DEF PollRead
<1>2. PICK approved \in BOOLEAN :
        call' = [call EXCEPT ![c].conn = TRUE, ![c].pc = IF approved THEN @ + 1 ELSE @]
  BY DEF PollRead
<1>3. CASE approved = TRUE
  <2>1. call' = [call EXCEPT ![c].pc = @ + 1, ![c].conn = TRUE]
    BY <1>1, <1>2, <1>3
  <2>2. Doing(c, "poll")
    BY DEF PollRead
  <2>3. QED
    BY <2>1, <2>2, ConnStep DEF Keeps
<1>4. CASE approved = FALSE
  <2>1. PICK e \in CallRecord : e = [d EXCEPT !.conn = TRUE]
    BY <1>1 DEF CallRecord
  <2>2. call' = [call EXCEPT ![c] = e]
    BY <1>1, <1>2, <1>4, <2>1
  <2>3. e.at = d.at /\ e.kind = d.kind /\ e.pc = d.pc /\ e.ran = d.ran
    BY <2>1 DEF CallRecord
  <2>4. RecordInv(e)
    BY <1>1, <2>3 DEF RecordInv, Within, NextOp, Waits
  <2>5. QED
    BY <2>2, <2>4, StepFrame
<1>5. QED
  BY <1>3, <1>4

LEMMA OverStep ==
  ASSUME PoolInv, NEW c \in Calls
  PROVE  /\ Answer(c) => PoolInv'
         /\ Fail(c) /\ (Doing(c, "query") \/ Doing(c, "poll")) => PoolInv'
<1>1. ASSUME Answer(c) PROVE PoolInv'
  BY <1>1, IdleFacts, StepFrame DEF Answer
<1>2. ASSUME Fail(c), Doing(c, "query") \/ Doing(c, "poll") PROVE PoolInv'
  <2>1. PICK d \in CallRecord :
          d = call[c] /\ RecordInv(d) /\ Within(d) /\ NextOp(d) \in {"query", "poll"}
    BY <1>2, DoingFacts
  <2>2. PICK e \in CallRecord : e = [d EXCEPT !.at = "refused", !.pc = 1, !.conn = FALSE]
    BY RecordFacts
  <2>3. /\ e.at = "refused" /\ e.kind = d.kind /\ e.conn = FALSE /\ e.ran = d.ran
    BY <2>2 DEF CallRecord
  <2>4. call' = [call EXCEPT ![c] = e]
    BY <1>2, <2>1, <2>2 DEF Fail
  <2>5. ~(d.ran = TRUE /\ d.kind # "human")
    <3>1. d.pc \in Nat \ {0} /\ d.pc <= Len(Program(d.kind)) /\ d.pc >= d.pc
      BY <2>1 DEF CallRecord, Within
    <3>2. QED
      BY <2>1, <3>1 DEF RecordInv, NextOp
  <2>6. RecordInv(e)
    BY <2>3, <2>5 DEF RecordInv, Within
  <2>7. QED
    BY <2>4, <2>6, StepFrame
<1>3. QED
  BY <1>1, <1>2

LEMMA StartStep ==
  ASSUME PoolInv, NEW c \in Calls, Start(c)
  PROVE  PoolInv'
<1>1. PICK kind \in Kinds :
        call' = [call EXCEPT ![c] = [Idle EXCEPT !.at = "running", !.kind = kind]]
  BY DEF Start
<1>2. PICK e \in CallRecord : e = [Idle EXCEPT !.at = "running", !.kind = kind]
  BY IdleFacts, RecordFacts
<1>3. e.at = "running" /\ e.kind = kind /\ e.conn = FALSE /\ e.ran = FALSE
  BY <1>2, IdleFacts DEF CallRecord
<1>4. RecordInv(e)
  BY <1>3 DEF RecordInv
<1>5. QED
  BY <1>1, <1>2, <1>4, StepFrame

LEMMA PoolStep == ASSUME PoolInv, [Next]_poolVars PROVE PoolInv'
<1>1. CASE UNCHANGED call
  BY <1>1 DEF PoolInv
<1>2. ASSUME NEW c \in Calls, Step(c) PROVE PoolInv'
  <2>1. CASE CheckAge(c)
    <3>1. Doing(c, "age") /\ Continue(c, IF fresh THEN 4 ELSE 1) /\ "age" \in Waits
      BY <2>1 DEF CheckAge, Waits
    <3>2. QED
      BY <3>1, CheckStep
  <2>2. CASE TakeLock(c)
    <3>1. Doing(c, "lock") /\ Continue(c, IF fresh THEN 3 ELSE 1) /\ "lock" \in Waits
      BY <2>2 DEF TakeLock, Waits
    <3>2. QED
      BY <3>1, CheckStep
  <2>3. CASE Connect(c)
    BY <2>3, ConnStep DEF Connect, Keeps
  <2>4. CASE Install(c)
    BY <2>4, ConnStep DEF Install
  <2>5. CASE RefreshFails(c)
    BY <2>5, CheckStep DEF RefreshFails, Waits
  <2>6. CASE Query(c)
    BY <2>6, ConnStep DEF Query, Keeps
  <2>7. CASE Commit(c)
    BY <2>7, ConnStep DEF Commit
  <2>8. CASE Deliver(c)
    BY <2>8, CheckStep DEF Deliver
  <2>9. CASE CallBroker(c)
    BY <2>9, BrokerStep
  <2>10. CASE PollRead(c)
    BY <2>10, PollStep
  <2>11. CASE PollEnds(c)
    BY <2>11, OverStep DEF PollEnds
  <2>12. CASE AddRevoked(c)
    BY <2>12, CheckStep DEF AddRevoked, Waits
  <2>13. CASE Refuse(c)
    BY <2>13, OverStep DEF Refuse
  <2>14. CASE End(c)
    BY <2>14, OverStep DEF End
  <2>15. QED
    BY <1>2, <2>1, <2>2, <2>3, <2>4, <2>5, <2>6, <2>7, <2>8, <2>9, <2>10, <2>11, <2>12,
       <2>13, <2>14 DEF Step
<1>3. QED
  BY <1>1, <1>2, StartStep DEF Next, Expire, poolVars

LEMMA PoolInvariance == Spec => []PoolInv
<1>1. Init => PoolInv
  BY IdleFacts DEF Init, PoolInv
<1>2. PoolInv /\ [Next]_poolVars => PoolInv'
  BY PoolStep
<1>3. QED
  BY <1>1, <1>2, PTL DEF Spec

\* For every number of requests and every size of the pool, no request waits with a
\* connection in hand, for a second one or for the lock of the revocation copy.
THEOREM NobodyHoldsAndWaits == Spec => []NoHoldAndWait
<1>1. PoolInv => NoHoldAndWait
  <2> SUFFICES ASSUME PoolInv, NEW c \in Held, NEW op \in {"lock", "connect", "add"}
               PROVE  ~Doing(c, op)
    BY DEF NoHoldAndWait
  <2>1. c \in Calls /\ call[c].conn
    BY DEF Held
  <2>2. ASSUME Doing(c, op) PROVE FALSE
    <3>1. RecordInv(call[c]) /\ Within(call[c]) /\ NextOp(call[c]) = op
      BY <2>1, <2>2, DoingFacts
    <3>2. call[c].conn = FALSE
      BY <3>1 DEF RecordInv, Waits
    <3>3. QED
      BY <2>1, <3>2
  <2>3. QED
    BY <2>2
<1>2. QED
  BY <1>1, PoolInvariance, PTL

\* For every number of requests and every size of the pool, an execution approved by
\* policy does not lose its result to a full pool: only one that a human approved can.
THEOREM ResultsAreKept == Spec => []ResultLostOnlyAfterVerdict
<1>1. PoolInv => ResultLostOnlyAfterVerdict
  <2> SUFFICES ASSUME PoolInv, NEW c \in Calls, call[c].at = "refused", call[c].ran
               PROVE  call[c].kind = "human"
    BY DEF ResultLostOnlyAfterVerdict
  <2>1. RecordInv(call[c]) /\ call[c].ran \in BOOLEAN
    BY DEF PoolInv, CallRecord
  <2>2. call[c].ran = TRUE
    BY <2>1
  <2>3. QED
    BY <2>1, <2>2 DEF RecordInv
<1>2. QED
  BY <1>1, PoolInvariance, PTL

----------------------------------------------------------------------------
(* The lock of the revocation copy *)

Checks == {"age", "lock", "connect", "install"}
Refresh == {"connect", "install"}

\* The operations of a refresh are entered from "lock" alone, one by one, and left by
\* its end or its failure, or jumped over by a check that needs none.
Orderly(program) ==
    /\ program \in Seq(Ops)
    /\ Len(program) >= 1 => program[1] \notin Refresh
    /\ \A i \in 1..Len(program) :
         /\ program[i] = "lock" => i + 1 <= Len(program) /\ program[i + 1] = "connect"
         /\ program[i] = "connect" => i + 1 <= Len(program) /\ program[i + 1] = "install"
         /\ program[i] \notin {"lock", "connect"} /\ i + 1 <= Len(program) =>
              program[i + 1] \notin Refresh
         /\ program[i] = "age" /\ i + 4 <= Len(program) => program[i + 4] \notin Refresh
         /\ program[i] = "lock" /\ i + 3 <= Len(program) => program[i + 3] \notin Refresh
         /\ program[i] = "connect" /\ i + 2 <= Len(program) => program[i + 2] \notin Refresh

LEMMA UncheckedIsOrderly ==
  ASSUME NEW rest \in Seq(Ops \ Checks)
  PROVE  Orderly(rest)
<1>1. rest \in Seq(Ops) /\ Len(rest) \in Nat
  OBVIOUS
<1>2. \A i \in 1..Len(rest) : rest[i] \notin Checks
  OBVIOUS
<1>3. \A i \in 1..Len(rest) : rest[i] \notin Refresh \union {"age", "lock"}
  BY <1>2 DEF Checks, Refresh
<1>4. QED
  BY <1>1, <1>3 DEF Orderly, Refresh

LEMMA CheckedIsOrderly ==
  ASSUME NEW rest \in Seq(Ops \ Checks)
  PROVE  Orderly(Verify \o rest)
<1>1. PICK program : program = Verify \o rest
  OBVIOUS
<1>2. rest \in Seq(Ops) /\ Len(rest) \in Nat /\ \A i \in 1..Len(rest) : rest[i] \notin Checks
  OBVIOUS
<1>3. /\ program \in Seq(Ops) /\ Len(program) = 4 + Len(rest)
      /\ \A i \in 1..4 : program[i] = Verify[i]
      /\ \A i \in 5..4 + Len(rest) : program[i] = rest[i - 4]
  BY <1>1, <1>2, AfterVerify
<1>4. /\ program[1] = "age" /\ program[2] = "lock" /\ program[3] = "connect"
      /\ program[4] = "install"
  BY <1>3 DEF Verify
<1>5. \A i \in 5..Len(program) : program[i] \notin Checks
  <2> TAKE i \in 5..Len(program)
  <2>1. i \in 5..4 + Len(rest) /\ i - 4 \in 1..Len(rest)
    BY <1>2, <1>3
  <2>2. QED
    BY <1>2, <1>3, <2>1
<1>6. \A i \in 5..Len(program) : program[i] \notin Refresh \union {"age", "lock"}
  BY <1>5 DEF Checks, Refresh
<1>7. \A i \in 1..Len(program) :
        /\ program[i] = "age" <=> i = 1
        /\ program[i] = "lock" <=> i = 2
        /\ program[i] = "connect" <=> i = 3
        /\ program[i] \in Refresh <=> i \in {3, 4}
  <2> TAKE i \in 1..Len(program)
  <2>1. CASE i \in 5..Len(program)
    BY <1>6, <2>1 DEF Refresh
  <2>2. CASE i \notin 5..Len(program)
    <3>1. i = 1 \/ i = 2 \/ i = 3 \/ i = 4
      BY <1>2, <1>3, <2>2
    <3>2. QED
      BY <1>4, <3>1 DEF Refresh
  <2>3. QED
    BY <2>1, <2>2
<1>8. Len(program) \in Nat /\ Len(program) >= 4
  BY <1>2, <1>3
<1>9. program[1] \notin Refresh
  BY <1>7, <1>8
<1>10. \A i \in 1..Len(program) :
         /\ program[i] = "lock" => i + 1 <= Len(program) /\ program[i + 1] = "connect"
         /\ program[i] = "connect" => i + 1 <= Len(program) /\ program[i + 1] = "install"
  BY <1>4, <1>7, <1>8
<1>11. \A i \in 1..Len(program) :
         /\ program[i] \notin {"lock", "connect"} /\ i + 1 <= Len(program) =>
              program[i + 1] \notin Refresh
         /\ program[i] = "age" /\ i + 4 <= Len(program) => program[i + 4] \notin Refresh
         /\ program[i] = "lock" /\ i + 3 <= Len(program) => program[i + 3] \notin Refresh
         /\ program[i] = "connect" /\ i + 2 <= Len(program) => program[i + 2] \notin Refresh
  <2> TAKE i \in 1..Len(program)
  <2>1. \A n \in 1..4 : i + n <= Len(program) => i + n \in 1..Len(program)
    BY <1>8
  <2>2. QED
    BY <1>7, <1>8, <2>1
<1>12. QED
  BY <1>1, <1>3, <1>9, <1>10, <1>11 DEF Orderly

LEMMA ProgramsAreOrderly == \A kind \in Kinds : Orderly(Program(kind))
<1> SUFFICES ASSUME NEW kind \in Kinds PROVE Orderly(Program(kind))
  OBVIOUS
<1>1. kind \in {"auto", "human", "admin", "tap", "revoke"}
  BY ConnectionPoolAssumption
<1>2. CASE kind = "auto"
  <2>1. <<"query", "commit", "query", "broker", "commit">> \in Seq(Ops \ Checks)
    BY DEF Ops, Checks
  <2>2. QED
    BY <1>2, <2>1, CheckedIsOrderly DEF Program, AutoProgram
<1>3. CASE kind = "human"
  <2>1. <<"query", "commit", "query", "commit", "query", "mail", "commit",
          "query", "commit", "poll", "commit", "broker", "query", "commit">> \in Seq(Ops \ Checks)
    BY DEF Ops, Checks
  <2>2. QED
    BY <1>3, <2>1, CheckedIsOrderly DEF Program, HumanProgram
<1>4. CASE kind = "admin"
  <2>1. <<"query", "commit", "query">> \in Seq(Ops \ Checks)
    BY DEF Ops, Checks
  <2>2. QED
    BY <1>4, <2>1, CheckedIsOrderly DEF Program, AdminProgram
<1>5. CASE kind = "tap"
  <2>1. <<"query", "commit", "query">> \in Seq(Ops \ Checks)
    BY DEF Ops, Checks
  <2>2. QED
    BY <1>5, <2>1, UncheckedIsOrderly DEF Program, TapProgram
<1>6. CASE kind = "revoke"
  <2>1. <<"query", "commit", "add">> \in Seq(Ops \ Checks)
    BY DEF Ops, Checks
  <2>2. QED
    BY <1>6, <2>1, CheckedIsOrderly DEF Program, RevokeProgram
<1>7. QED
  BY <1>1, <1>2, <1>3, <1>4, <1>5, <1>6

Refreshing(d) == Within(d) /\ NextOp(d) \in Refresh

\* The lock is held by the one call that is about to refresh or to install, and by none
\* that waits for something else, was refused or has ended.
LockInUse == lock \in Calls \union {Free} /\ \A c \in Calls : lock = c <=> Refreshing(call[c])

\* Call c goes on in its program by n operations, and nobody else moves.
GoesTo(c, n) ==
    /\ call'[c].at = "running" /\ call'[c].kind = call[c].kind
    /\ call'[c].pc = call[c].pc + n
    /\ \A d \in Calls : d # c => call'[d] = call[d]

\* One call takes a step; the lock goes with it where it enters or leaves a refresh.
LEMMA LockFrame ==
  ASSUME LockInUse, NEW c \in Calls,
         \A d \in Calls : d # c => call'[d] = call[d],
         \/ lock' = lock /\ (Refreshing(call'[c]) <=> Refreshing(call[c]))
         \/ lock = Free /\ lock' = c /\ Refreshing(call'[c])
         \/ lock' = Free /\ Refreshing(call[c]) /\ ~Refreshing(call'[c])
  PROVE  LockInUse'
<1>1. lock' \in Calls \union {Free}
  BY DEF LockInUse
<1>2. \A d \in Calls : d # c => (Refreshing(call'[d]) <=> Refreshing(call[d]))
  OBVIOUS
<1>3. \A d \in Calls : lock' = d <=> Refreshing(call'[d])
  BY <1>2, ConnectionPoolAssumption DEF LockInUse
<1>4. LockInUse' <=> /\ lock' \in Calls \union {Free}
                     /\ \A d \in Calls : lock' = d <=> Refreshing(call'[d])
  BY DEF LockInUse, Refreshing, Within, NextOp
<1>5. QED
  BY <1>1, <1>3, <1>4

\* Where a call goes on to, by what it does now.
LEMMA GoesOn ==
  ASSUME PoolInv, NEW c \in Calls, NEW op, Doing(c, op), NEW n \in 1..4,
         GoesTo(c, n)
  PROVE  /\ Refreshing(call[c]) <=> op \in Refresh
         /\ op \in {"lock", "connect"} /\ n = 1 => Refreshing(call'[c])
         /\ \/ op \notin {"lock", "connect"} /\ n = 1
            \/ op = "age" /\ n = 4
            \/ op = "lock" /\ n = 3
            \/ op = "connect" /\ n = 2
            => ~Refreshing(call'[c])
<1>0. PICK e : e = call'[c]
  OBVIOUS
<1>1. PICK d \in CallRecord : d = call[c] /\ RecordInv(d) /\ Within(d) /\ NextOp(d) = op
  BY DoingFacts
<1>2. PICK program \in Seq(Ops) : program = Program(d.kind) /\ Orderly(program)
  BY <1>1, ProgramsAreOrderly DEF RecordInv, Within, Orderly
<1>3. /\ d.pc \in 1..Len(program) /\ program[d.pc] = op /\ Len(program) \in Nat
  BY <1>1, <1>2 DEF CallRecord, Within, NextOp
<1>4. Refreshing(e) <=> d.pc + n <= Len(program) /\ program[d.pc + n] \in Refresh
  BY <1>1, <1>2, <1>0 DEF GoesTo, Refreshing, Within, NextOp
<1>5. Refreshing(call[c]) <=> op \in Refresh
  BY <1>1 DEF Refreshing
<1>6. CASE n = 1
  <2>1. op \in {"lock", "connect"} => d.pc + 1 <= Len(program) /\ program[d.pc + 1] \in Refresh
    BY <1>2, <1>3 DEF Orderly, Refresh
  <2>2. op \notin {"lock", "connect"} /\ d.pc + 1 <= Len(program) => program[d.pc + 1] \notin Refresh
    BY <1>2, <1>3 DEF Orderly
  <2>3. QED
    BY <1>0, <1>4, <1>5, <1>6, <2>1, <2>2
<1>7. CASE n # 1
  <2>1. /\ op = "age" /\ d.pc + 4 <= Len(program) => program[d.pc + 4] \notin Refresh
        /\ op = "lock" /\ d.pc + 3 <= Len(program) => program[d.pc + 3] \notin Refresh
        /\ op = "connect" /\ d.pc + 2 <= Len(program) => program[d.pc + 2] \notin Refresh
    BY <1>2, <1>3 DEF Orderly
  <2>2. QED
    BY <1>0, <1>4, <1>5, <1>7, <2>1
<1>8. QED
  BY <1>6, <1>7

\* A step that goes on by one operation, or some, outside a refresh.
LEMMA LockUntouched ==
  ASSUME PoolInv, LockInUse, NEW c \in Calls, NEW op \in Ops \ {"lock", "connect", "install"},
         Doing(c, op), NEW n \in 1..4, n = 1 \/ (op = "age" /\ n = 4), lock' = lock,
         GoesTo(c, n)
  PROVE  LockInUse'
<1>1. ~Refreshing(call[c]) /\ ~Refreshing(call'[c])
  BY GoesOn DEF Refresh
<1>2. QED
  BY <1>1, LockFrame DEF GoesTo

LEMMA ContinueGoesTo ==
  ASSUME PoolInv, NEW c \in Calls, NEW op, Doing(c, op), NEW n \in 1..4, Continue(c, n)
  PROVE  GoesTo(c, n)
  BY DoingFacts DEF Continue, GoesTo, PoolInv, CallRecord

LEMMA ConnGoesTo ==
  ASSUME PoolInv, NEW c \in Calls, NEW op, Doing(c, op), NEW b,
         call' = [call EXCEPT ![c].pc = @ + 1, ![c].conn = b]
  PROVE  GoesTo(c, 1)
  BY DoingFacts DEF GoesTo, PoolInv, CallRecord

LEMMA BrokerGoesTo ==
  ASSUME PoolInv, NEW c \in Calls, CallBroker(c)
  PROVE  GoesTo(c, 1)
  BY DoingFacts DEF CallBroker, GoesTo, PoolInv, CallRecord

\* A call that is not refreshing ends, is refused, or starts.
LEMMA LockOver ==
  ASSUME PoolInv, LockInUse, NEW c \in Calls, ~Refreshing(call[c]), lock' = lock,
         Answer(c) \/ Fail(c) \/ Start(c)
  PROVE  LockInUse'
<1>1. \A d \in Calls : d # c => call'[d] = call[d]
  BY DEF Answer, Fail, Start, PoolInv
<1>2. ~Refreshing(call'[c])
  <2>1. CASE Answer(c) \/ Fail(c)
    <3>1. call'[c].at # "running"
      BY <2>1 DEF Answer, Fail, Idle, PoolInv, CallRecord
    <3>2. QED
      BY <3>1 DEF Refreshing, Within
  <2>2. CASE Start(c)
    <3>1. PICK kind \in Kinds :
            call'[c] = [Idle EXCEPT !.at = "running", !.kind = kind]
      BY <2>2 DEF Start, PoolInv
    <3>2. call'[c].kind = kind /\ call'[c].pc = 1
      BY <3>1 DEF Idle
    <3>3. QED
      BY <3>2, ProgramsAreOrderly DEF Refreshing, Within, NextOp, Orderly
  <2>3. QED
    BY <2>1, <2>2
<1>3. QED
  BY <1>1, <1>2, LockFrame

LEMMA LockStep ==
  ASSUME PoolInv, LockInUse, NEW c \in Calls, Step(c)
  PROVE  LockInUse'
<1>1. CASE CheckAge(c)
  <2>1. PICK n \in {1, 4} : Continue(c, n)
    BY <1>1 DEF CheckAge
  <2>2. Doing(c, "age") /\ lock' = lock
    BY <1>1 DEF CheckAge
  <2>3. GoesTo(c, n)
    BY <2>1, <2>2, ContinueGoesTo
  <2>4. QED
    BY <2>2, <2>3, LockUntouched DEF Ops
<1>2. CASE TakeLock(c)
  <2>1. Doing(c, "lock") /\ lock = Free
    BY <1>2 DEF TakeLock
  <2>2. CASE fresh
    <3>1. Continue(c, 3) /\ lock' = lock
      BY <1>2, <2>2 DEF TakeLock
    <3>2. GoesTo(c, 3)
      BY <2>1, <3>1, ContinueGoesTo
    <3>3. ~Refreshing(call[c]) /\ ~Refreshing(call'[c])
      BY <2>1, <3>2, GoesOn DEF Refresh
    <3>4. QED
      BY <3>1, <3>2, <3>3, LockFrame DEF GoesTo
  <2>3. CASE ~fresh
    <3>1. Continue(c, 1) /\ lock' = c
      BY <1>2, <2>3 DEF TakeLock
    <3>2. GoesTo(c, 1)
      BY <2>1, <3>1, ContinueGoesTo
    <3>3. Refreshing(call'[c])
      BY <2>1, <3>2, GoesOn
    <3>4. QED
      BY <2>1, <3>1, <3>2, <3>3, LockFrame DEF GoesTo
  <2>4. QED
    BY <2>2, <2>3
<1>3. CASE Connect(c)
  <2>1. Doing(c, "connect") /\ lock' = lock
    BY <1>3 DEF Connect
  <2>2. GoesTo(c, 1)
    BY <1>3, ConnGoesTo DEF Connect
  <2>3. Refreshing(call[c]) /\ Refreshing(call'[c])
    BY <2>1, <2>2, GoesOn DEF Refresh
  <2>4. QED
    BY <2>1, <2>2, <2>3, LockFrame DEF GoesTo
<1>4. CASE Install(c)
  <2>1. Doing(c, "install") /\ lock' = Free
    BY <1>4 DEF Install
  <2>2. GoesTo(c, 1)
    BY <1>4, ConnGoesTo DEF Install
  <2>3. Refreshing(call[c]) /\ ~Refreshing(call'[c])
    BY <2>1, <2>2, GoesOn DEF Refresh
  <2>4. QED
    BY <2>1, <2>2, <2>3, LockFrame DEF GoesTo
<1>5. CASE RefreshFails(c)
  <2>1. Doing(c, "connect") /\ lock' = Free /\ Continue(c, 2)
    BY <1>5 DEF RefreshFails
  <2>2. GoesTo(c, 2)
    BY <2>1, ContinueGoesTo
  <2>3. Refreshing(call[c]) /\ ~Refreshing(call'[c])
    BY <2>1, <2>2, GoesOn DEF Refresh
  <2>4. QED
    BY <2>1, <2>2, <2>3, LockFrame DEF GoesTo
<1>6. CASE Query(c) \/ Commit(c)
  <2>1. PICK op \in {"query", "commit"}, b \in BOOLEAN :
          /\ Doing(c, op) /\ lock' = lock
          /\ call' = [call EXCEPT ![c].pc = @ + 1, ![c].conn = b]
    BY <1>6 DEF Query, Commit
  <2>2. GoesTo(c, 1)
    BY <2>1, ConnGoesTo
  <2>3. QED
    BY <2>1, <2>2, LockUntouched DEF Ops
<1>7. CASE Deliver(c) \/ AddRevoked(c)
  <2>1. PICK op \in {"mail", "add"} : Doing(c, op) /\ lock' = lock /\ Continue(c, 1)
    BY <1>7 DEF Deliver, AddRevoked
  <2>2. GoesTo(c, 1)
    BY <2>1, ContinueGoesTo
  <2>3. QED
    BY <2>1, <2>2, LockUntouched DEF Ops
<1>8. CASE CallBroker(c)
  <2>1. Doing(c, "broker") /\ lock' = lock
    BY <1>8 DEF CallBroker
  <2>2. GoesTo(c, 1)
    BY <1>8, BrokerGoesTo
  <2>3. QED
    BY <2>1, <2>2, LockUntouched DEF Ops
<1>9. CASE PollRead(c)
  <2>1. Doing(c, "poll") /\ lock' = lock /\ call[c] \in CallRecord /\ call[c].at = "running"
    BY <1>9, DoingFacts DEF PollRead
  <2>2. PICK approved \in BOOLEAN :
          call' = [call EXCEPT ![c].conn = TRUE, ![c].pc = IF approved THEN @ + 1 ELSE @]
    BY <1>9 DEF PollRead
  <2>3. CASE approved = TRUE
    <3>1. call' = [call EXCEPT ![c].pc = @ + 1, ![c].conn = TRUE]
      BY <2>1, <2>2, <2>3
    <3>2. GoesTo(c, 1)
      BY <2>1, <3>1, ConnGoesTo
    <3>3. QED
      BY <2>1, <3>2, LockUntouched DEF Ops
  <2>4. CASE approved = FALSE
    <3>1. /\ call'[c].at = call[c].at /\ call'[c].kind = call[c].kind /\ call'[c].pc = call[c].pc
          /\ \A d \in Calls : d # c => call'[d] = call[d]
      BY <2>1, <2>2, <2>4 DEF PoolInv, CallRecord
    <3>2. Refreshing(call'[c]) <=> Refreshing(call[c])
      BY <3>1 DEF Refreshing, Within, NextOp
    <3>3. QED
      BY <2>1, <3>1, <3>2, LockFrame
  <2>5. QED
    BY <2>3, <2>4
<1>10. CASE PollEnds(c) \/ Refuse(c)
  <2>1. PICK op \in {"query", "poll"} : Doing(c, op) /\ lock' = lock /\ (Answer(c) \/ Fail(c))
    BY <1>10 DEF PollEnds, Refuse
  <2>2. ~Refreshing(call[c])
    BY <2>1, DoingFacts DEF Refreshing, Refresh
  <2>3. QED
    BY <2>1, <2>2, LockOver
<1>11. CASE End(c)
  <2>1. lock' = lock /\ Answer(c)
    BY <1>11 DEF End
  <2>2. call[c].pc \in Nat /\ call[c].kind \in Kinds
    BY <1>11 DEF End, Running, PoolInv, CallRecord, RecordInv
  <2>3. Len(Program(call[c].kind)) \in Nat
    BY <2>2, ProgramsAreSound, LenProperties DEF Sound
  <2>4. ~Refreshing(call[c])
    BY <1>11, <2>2, <2>3 DEF End, Refreshing, Within
  <2>5. QED
    BY <2>1, <2>4, LockOver
<1>12. QED
  BY <1>1, <1>2, <1>3, <1>4, <1>5, <1>6, <1>7, <1>8, <1>9, <1>10, <1>11 DEF Step

\* For every number of requests: the lock is held by a refresh that is under way and by
\* nothing else, so a refresh that gets no connection, and a request that is refused or
\* ends, leave no lock behind; and two refreshes never overlap.
THEOREM LockIsNeverLeft == Spec => []LockInUse
<1>1. Init => LockInUse
  <2> SUFFICES ASSUME Init PROVE LockInUse
    OBVIOUS
  <2>1. \A c \in Calls : call[c].at = "idle"
    BY DEF Init, Idle
  <2>2. QED
    BY <2>1, ConnectionPoolAssumption DEF Init, LockInUse, Refreshing, Within
<1>2. PoolInv /\ LockInUse /\ [Next]_poolVars => LockInUse'
  <2> SUFFICES ASSUME PoolInv, LockInUse, [Next]_poolVars PROVE LockInUse'
    OBVIOUS
  <2>1. CASE UNCHANGED <<call, lock>>
    BY <2>1 DEF LockInUse, Refreshing, Within, NextOp
  <2>2. ASSUME NEW c \in Calls, Start(c) PROVE LockInUse'
    <3>1. lock' = lock /\ ~Refreshing(call[c])
      BY <2>2 DEF Start, Running, Refreshing, Within
    <3>2. QED
      BY <2>2, <3>1, LockOver
  <2>3. QED
    BY <2>1, <2>2, LockStep DEF Next, Expire, poolVars
<1>3. QED
  BY <1>1, <1>2, PoolInvariance, PTL DEF Spec

=============================================================================
