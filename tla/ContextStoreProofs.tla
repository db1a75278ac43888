------------------------- MODULE ContextStoreProofs -------------------------
(***************************************************************************)
(* The invariant of ContextStore and what follows from it, for any number  *)
(* of messages, attachments and artifacts, any sizes and any budget.       *)
(***************************************************************************)
EXTENDS ContextInvariant, SequenceTheorems, FiniteSetTheorems, WellFoundedInduction, TLAPS

-----------------------------------------------------------------------------
(* Types.                                                                   *)

LEMMA Parts ==
  ASSUME ContextTypes
  PROVE  /\ Len(conv) \in Nat /\ Messages = 1..Len(conv) /\ DOMAIN conv = Messages
         /\ \A k \in Messages : conv[k] \in MessageRow
         /\ Requests \subseteq Messages
         /\ task.run \in {0} \cup Requests /\ task.current \in {0} \cup Messages
         /\ task.full \in BOOLEAN /\ task.tool \in BOOLEAN /\ task.file \in Nat
         /\ task.cited \in {0} \cup Messages /\ task.upto \in {0} \cup Messages
         /\ made \in Nat
<1>1. Len(conv) \in Nat /\ DOMAIN conv = Messages /\ \A k \in Messages : conv[k] \in MessageRow
  BY DEF ContextTypes, Messages
<1> QED
  BY <1>1 DEF ContextTypes, Messages, Requests, TaskRow

\* The conversation only grows, and a message keeps its role.
Longer ==
  /\ conv' \in Seq(MessageRow) /\ Len(conv) <= Len(conv')
  /\ \A k \in Messages : conv'[k].role = conv[k].role
  /\ \A k \in Messages' : conv'[k].run = "none" <=> conv'[k].role = "assistant"

LEMMA Grown ==
  ASSUME ContextTypes, Longer
  PROVE  /\ Messages \subseteq Messages' /\ Requests \subseteq Requests'
         /\ Len(conv') \in Nat /\ Messages' = 1..Len(conv')
<1>1. Len(conv') \in Nat /\ Messages' = 1..Len(conv')
  BY DEF Longer, Messages
<1>2. Messages \subseteq Messages'
  BY <1>1, Parts DEF Longer, Messages
<1>3. Requests \subseteq Requests'
  BY <1>2 DEF Longer, Requests
<1> QED
  BY <1>1, <1>2, <1>3

LEMMA UnchangedIsLonger == ASSUME ContextTypes, conv' = conv PROVE Longer
  BY Parts DEF Longer, ContextTypes, Messages

\* A run changes its state.
RunSet(k, status) == [conv EXCEPT ![k].run = status]

LEMMA SetIs ==
  ASSUME ContextTypes, NEW k \in Requests, NEW status \in Statuses, status # "none",
         NEW q, q = RunSet(k, status)
  PROVE  /\ q \in Seq(MessageRow) /\ Len(q) = Len(conv)
         /\ \A j \in Messages : /\ q[j].role = conv[j].role
                                /\ q[j].run = "none" <=> q[j].role = "assistant"
<1> DEFINE m == [conv[k] EXCEPT !.run = status]
<1>1. m \in MessageRow /\ m.role = conv[k].role /\ m.run = status
  BY Parts DEF MessageRow
<1>2. q = [conv EXCEPT ![k] = m] /\ k \in 1..Len(conv) /\ conv \in Seq(MessageRow)
  BY Parts DEF ContextTypes, RunSet
<1> HIDE DEF m
<1>3. /\ q \in Seq(MessageRow) /\ Len(q) = Len(conv) /\ q[k] = m
      /\ \A j \in 1..Len(conv) : j # k => q[j] = conv[j]
  BY <1>1, <1>2, ExceptSeq
<1>4. conv[k].role = "user"
  BY DEF Requests
<1>5. ASSUME NEW j \in Messages
      PROVE  q[j].role = conv[j].role /\ (q[j].run = "none" <=> q[j].role = "assistant")
  <2>1. CASE j = k
    BY <1>1, <1>3, <1>4, <2>1
  <2>2. CASE j # k
    <3>1. q[j] = conv[j]
      BY <1>3, <2>2, <1>5, Parts
    <3> QED
      BY <3>1, <1>5 DEF ContextTypes
  <2> QED
    BY <2>1, <2>2
<1> QED
  BY <1>3, <1>5

LEMMA SetIsLonger ==
  ASSUME ContextTypes, NEW k \in Requests, NEW status \in Statuses, status # "none",
         Set(k, status)
  PROVE  Longer
<1>1. conv' = RunSet(k, status)
  BY DEF Set, RunSet
<1>2. /\ conv' \in Seq(MessageRow) /\ Len(conv') = Len(conv)
      /\ \A j \in Messages : /\ conv'[j].role = conv[j].role
                             /\ conv'[j].run = "none" <=> conv'[j].role = "assistant"
  BY <1>1, SetIs
<1> QED
  BY <1>2, Parts DEF Longer, Messages

\* A message is added.
LEMMA AppendIsLonger ==
  ASSUME ContextTypes, NEW q \in Seq(MessageRow), Len(q) = Len(conv),
         \A j \in Messages : /\ q[j].role = conv[j].role
                             /\ q[j].run = "none" <=> q[j].role = "assistant",
         NEW m \in MessageRow, m.run = "none" <=> m.role = "assistant", conv' = Append(q, m)
  PROVE  /\ Longer /\ Len(conv') = Len(conv) + 1
         /\ m.role = "user" => Len(conv) + 1 \in Requests'
<1>1. /\ conv' \in Seq(MessageRow) /\ Len(conv') = Len(conv) + 1
      /\ \A j \in 1..Len(conv) : conv'[j] = q[j]
      /\ conv'[Len(conv) + 1] = m
  BY AppendProperties
<1>2. Messages' = 1..(Len(conv) + 1) /\ Len(conv) \in Nat /\ Messages = 1..Len(conv)
  BY <1>1, Parts DEF Messages
<1> QED
  BY <1>1, <1>2 DEF Longer, Requests

LEMMA ConvAppended ==
  ASSUME ContextTypes, NEW m \in MessageRow, m.run = "none" <=> m.role = "assistant",
         conv' = Append(conv, m)
  PROVE  /\ Longer /\ Len(conv') = Len(conv) + 1
         /\ m.role = "user" => Len(conv) + 1 \in Requests'
  BY AppendIsLonger DEF ContextTypes

LEMMA ConvStep == ASSUME ContextTypes, [Next]_vars PROVE Longer
<1>1. ASSUME NEW size \in Sizes, NEW as \in SUBSET Attachments, Submit(size, as) PROVE Longer
  <2> DEFINE m == [role |-> "user", size |-> size, run |-> "queued"]
  <2>1. m \in MessageRow /\ m.run # "none" /\ m.role = "user" /\ conv' = Append(conv, m)
    BY <1>1 DEF Submit, MessageRow, Statuses
  <2> HIDE DEF m
  <2> QED
    BY <2>1, ConvAppended
<1>2. ASSUME NEW k \in Requests, Retry(k) PROVE Longer
  <2> DEFINE m == [conv[k] EXCEPT !.run = "queued"]
  <2>1. conv[k] \in MessageRow /\ conv[k].role = "user"
    BY Parts DEF Requests
  <2>2. m \in MessageRow /\ m.run = "queued" /\ m.role = "user"
    BY <2>1 DEF MessageRow, Statuses
  <2>3. conv' = Append(conv, m)
    BY <1>2 DEF Retry
  <2> HIDE DEF m
  <2> QED
    BY <2>2, <2>3, ConvAppended
<1>3. ASSUME NEW k \in Requests, NEW status \in {"running", "refused", "failed", "deleted"},
             conv' = [conv EXCEPT ![k].run = status]
      PROVE  Longer
  BY <1>3, SetIsLonger DEF Set, Statuses
<1>4. ASSUME NEW k \in Requests, Begin(k) PROVE Longer
  BY <1>3, <1>4 DEF Begin, Set
<1>5. ASSUME NEW k \in Requests, DeleteRun(k) PROVE Longer
  BY <1>3, <1>5 DEF DeleteRun
<1>6. ASSUME NEW size \in Answers, Complete(size) PROVE Longer
  <2> DEFINE q == [conv EXCEPT ![task.run].run = "completed"]
             m == [role |-> "assistant", size |-> size, run |-> "none"]
  <2>1. task.run \in Requests /\ "completed" \in Statuses
    BY <1>6 DEF Complete, ContextTypes, Statuses
  <2> HIDE DEF q
  <2>2. /\ q \in Seq(MessageRow) /\ Len(q) = Len(conv)
        /\ \A j \in Messages : /\ q[j].role = conv[j].role
                               /\ q[j].run = "none" <=> q[j].role = "assistant"
    <3>1. q = RunSet(task.run, "completed")
      BY DEF q, RunSet
    <3> QED
      BY <2>1, <3>1, SetIs
  <2>3. m \in MessageRow /\ m.run = "none" /\ m.role = "assistant" /\ conv' = Append(q, m)
    BY <1>6 DEF Complete, MessageRow, Statuses, q
  <2> HIDE DEF m
  <2> QED
    BY <2>2, <2>3, AppendIsLonger
<1>7. CASE Fail
  <2>1. task.run \in Requests
    BY <1>7 DEF Fail, ContextTypes
  <2> QED
    BY <1>3, <1>7, <2>1 DEF Fail, Set
<1>8. CASE Crash
  <2> DEFINE row(k) == IF Running(k) THEN [conv[k] EXCEPT !.run = "failed"] ELSE conv[k]
  <2>1. conv' = [k \in Messages |-> row(k)]
    BY <1>8 DEF Crash
  <2>2. ASSUME NEW k \in Messages
        PROVE  /\ row(k) \in MessageRow /\ row(k).role = conv[k].role
               /\ row(k).run = "none" <=> row(k).role = "assistant"
    <3>1. conv[k] \in MessageRow /\ (conv[k].run = "none" <=> conv[k].role = "assistant")
      BY <2>2, Parts DEF ContextTypes
    <3>2. CASE Running(k)
      <4>1. [conv[k] EXCEPT !.run = "failed"] \in MessageRow
        BY <3>1 DEF MessageRow, Statuses
      <4> QED
        BY <3>1, <3>2, <4>1 DEF Running, MessageRow
    <3>3. CASE ~Running(k)
      BY <3>1, <3>3
    <3> QED
      BY <3>2, <3>3
  <2> HIDE DEF row
  <2>3. conv' \in [1..Len(conv) -> MessageRow] /\ Len(conv) \in Nat /\ Messages = 1..Len(conv)
    BY <2>1, <2>2, Parts
  <2>4. conv' \in Seq(MessageRow)
    BY <2>3, SeqDef
  <2>5. Len(conv') = Len(conv) /\ Messages' = Messages
    BY <2>3, <2>4, LenProperties DEF Messages
  <2> QED
    BY <2>1, <2>2, <2>4, <2>5, <2>3 DEF Longer
<1>9. CASE conv' = conv
  BY <1>9, UnchangedIsLonger
<1> QED
  BY <1>1, <1>2, <1>4, <1>5, <1>6, <1>7, <1>8, <1>9
     DEF Next, vars, Upload, WantDelete, Age, DropPicked, RemoveFile, PickAttachments,
         PickArtifacts, DeleteRows, Expire, Unlink, Resume, WriteTranscript, SaveSnapshot,
         StartTool, WriteOutput, FlushOutput, TooLong, SaveInput, WriteFile

\* Of some numbers up to n one is the last.
LEMMA LatestExists ==
  ASSUME NEW n \in Nat, NEW S, S \subseteq 1..n, S # {}
  PROVE  \E m \in S : \A k \in S : k <= m
<1> DEFINE R == OpToRel(<, Nat)
           T == {k \in Nat : n - k \in S}
<1>1. IsWellFoundedOn(R, Nat)
  BY NatLessThanWellFounded
<1>2. \A x, y \in Nat : x < y => <<x, y>> \in R
  BY DEF OpToRel
<1>3. T \subseteq Nat /\ T # {}
  <2>1. PICK k \in S : TRUE
    OBVIOUS
  <2>2. n - k \in Nat /\ n - (n - k) = k
    BY <2>1
  <2> QED
    BY <2>1, <2>2
<1> HIDE DEF R
<1>4. PICK x \in T : \A y \in T : ~(<<y, x>> \in R)
  <2> HIDE DEF T
  <2> QED
    BY <1>1, <1>3, WFMin
<1>5. x \in Nat /\ n - x \in S
  BY <1>4
<1>6. ASSUME NEW k \in S PROVE k <= n - x
  <2>1. n - k \in Nat /\ n - (n - k) = k /\ k \in Int
    BY <1>6
  <2>2. n - k \in T
    BY <2>1
  <2>3. ~(n - k < x)
    BY <1>2, <1>4, <1>5, <2>1, <2>2
  <2> QED
    BY <1>5, <2>1, <2>3
<1> QED
  BY <1>5, <1>6

\* The last message that the input leaves out.
LEMMA LastOmitted ==
  ASSUME ContextTypes, task.pc # "idle", Omitted # {}
  PROVE  /\ Max(Omitted) \in Messages
         /\ \A k \in Omitted : k <= Max(Omitted)
<1>1. task.current \in Messages /\ task.current \in Nat /\ Messages = 1..Len(conv) /\ Len(conv) \in Nat
  BY Parts DEF ContextTypes
<1>2. Omitted \subseteq 1..Len(conv)
  BY <1>1 DEF Omitted
<1>3. PICK m \in Omitted : \A k \in Omitted : k <= m
  BY <1>1, <1>2, LatestExists
<1>4. \A k \in Omitted : m >= k
  BY <1>1, <1>2, <1>3
<1>5. Max(Omitted) \in Omitted /\ \A k \in Omitted : Max(Omitted) >= k
  BY <1>3, <1>4 DEF Max
<1> QED
  BY <1>1, <1>2, <1>5

\* The message a run answers is one there is.
LEMMA CurrentIs ==
  ASSUME ContextTypes, NEW k \in Requests
  PROVE  /\ (IF k \in Window THEN k ELSE Len(conv)) \in Window
         /\ Window \subseteq Messages
<1>1. /\ Messages = 1..Len(conv) /\ Len(conv) \in Nat /\ k \in 1..Len(conv)
      /\ setup.history \in Nat
  BY Parts DEF ContextTypes, SetupRow
<1>2. Window = {j \in 1..Len(conv) : j > Len(conv) - (setup.history + 1)}
  BY <1>1 DEF Window
<1>3. Len(conv) \in Window
  BY <1>1, <1>2
<1> QED
  BY <1>1, <1>2, <1>3

-----------------------------------------------------------------------------
(* The attachments.                                                         *)

\* The holder of an attachment that no one is about to delete changes only by
\* an upload or a message; a deleter makes those it has picked vanish.
HolderStep ==
  /\ holder' \in [Attachments -> Holders']
  /\ aged' \subseteq Attachments
  /\ picked' \in [Deleters -> SUBSET Attachments]
  /\ PickedInv'
  /\ \A a \in Attachments : holder[a] > 0 /\ a \notin late => holder'[a] = holder[a]

LEMMA HolderSteps == ASSUME ContextTypes, PickedInv, [Next]_vars PROVE HolderStep
<1>0. ~(Absent > 0) /\ ~(Gone > 0) /\ ~(Unbound > 0)
  BY DEF Absent, Gone, Unbound
<1>1. Holders \subseteq Holders' /\ {Gone, Unbound} \subseteq Holders'
  BY ConvStep, Grown DEF Holders
<1>2. /\ holder \in [Attachments -> Holders]
      /\ aged \subseteq Attachments
      /\ picked \in [Deleters -> SUBSET Attachments]
      /\ \A d \in Deleters : \A a \in picked[d] : holder[a] > 0 => a \in late
      /\ holder \in [Attachments -> Holders']
  BY <1>1 DEF ContextTypes, PickedInv
<1>3. ASSUME UNCHANGED <<holder, late>>, aged' \subseteq Attachments,
             picked' \in [Deleters -> SUBSET Attachments],
             \A d \in Deleters : \A a \in picked'[d] : a \in picked[d] \/ holder[a] = Unbound
      PROVE  HolderStep
  BY <1>0, <1>2, <1>3 DEF HolderStep, PickedInv
<1>4. ASSUME NEW a \in Attachments, Upload(a) PROVE HolderStep
  <2>1. /\ holder[a] = Absent /\ holder' = [holder EXCEPT ![a] = Unbound]
        /\ UNCHANGED <<aged, picked, late>>
    BY <1>4 DEF Upload
  <2>2. holder' \in [Attachments -> Holders']
    BY <1>1, <1>2, <2>1
  <2> QED
    BY <1>0, <1>2, <2>1, <2>2 DEF HolderStep, PickedInv
<1>5. ASSUME NEW a \in Attachments, WantDelete(a) \/ Age(a) PROVE HolderStep
  <2>1. UNCHANGED <<holder, late>> /\ aged' \subseteq Attachments
    BY <1>2, <1>5 DEF WantDelete, Age
  <2>2. picked' = picked \/ (holder[a] = Unbound /\ picked' = [picked EXCEPT !["request"] = {a}])
    BY <1>5 DEF WantDelete, Age
  <2>3. /\ picked' \in [Deleters -> SUBSET Attachments]
        /\ \A d \in Deleters : \A b \in picked'[d] : b \in picked[d] \/ holder[b] = Unbound
    BY <1>2, <2>2 DEF Deleters
  <2> QED
    BY <1>3, <2>1, <2>3
<1>6. CASE PickAttachments
  <2> DEFINE old == {a \in aged : holder[a] = Unbound}
  <2>1. /\ UNCHANGED <<holder, late, aged>> /\ picked' = [picked EXCEPT !["retention"] = old]
    BY <1>6 DEF PickAttachments
  <2>2. old \subseteq Attachments /\ \A a \in old : holder[a] = Unbound
    BY <1>2
  <2> HIDE DEF old
  <2>3. /\ picked' \in [Deleters -> SUBSET Attachments]
        /\ \A d \in Deleters : \A b \in picked'[d] : b \in picked[d] \/ holder[b] = Unbound
    BY <1>2, <2>1, <2>2 DEF Deleters
  <2> QED
    BY <1>2, <1>3, <2>1, <2>3
<1>7. ASSUME NEW d \in Deleters, DropPicked(d) PROVE HolderStep
  <2>1. /\ holder' = [a \in Attachments |-> IF a \in picked[d] THEN Gone ELSE holder[a]]
        /\ picked' = [picked EXCEPT ![d] = {}] /\ UNCHANGED <<aged, late>>
    BY <1>7 DEF DropPicked
  <2>2. picked' \in [Deleters -> SUBSET Attachments]
    BY <1>2, <2>1
  <2>3. PickedInv'
    BY <1>0, <1>2, <2>1 DEF PickedInv
  <2>4. \A a \in Attachments : holder[a] > 0 /\ a \notin late => holder'[a] = holder[a]
    BY <1>2, <2>1
  <2>5. holder' \in [Attachments -> Holders']
    BY <1>1, <1>2, <2>1
  <2> QED
    BY <1>2, <2>1, <2>2, <2>3, <2>4, <2>5 DEF HolderStep
<1>8. ASSUME NEW size \in Sizes, NEW as \in SUBSET Attachments, Submit(size, as) PROVE HolderStep
  <2> DEFINE m == [role |-> "user", size |-> size, run |-> "queued"]
  <2>1. m \in MessageRow /\ m.run # "none" /\ m.role = "user" /\ conv' = Append(conv, m)
    BY <1>8 DEF Submit, MessageRow, Statuses
  <2> HIDE DEF m
  <2>2. Len(conv) + 1 \in Holders'
    BY <2>1, ConvAppended DEF Holders
  <2>3. /\ holder' = [a \in Attachments |-> IF a \in as THEN Len(conv) + 1 ELSE holder[a]]
        /\ \A a \in as : holder[a] = Unbound
        /\ UNCHANGED <<aged, picked>>
        /\ late' = late \cup (as \cap UNION {picked[d] : d \in DOMAIN picked})
    BY <1>8 DEF Submit
  <2>4. holder' \in [Attachments -> Holders']
    BY <1>2, <2>2, <2>3
  <2>5. PickedInv'
    BY <1>2, <2>3 DEF PickedInv
  <2>6. \A a \in Attachments : holder[a] > 0 /\ a \notin late => holder'[a] = holder[a]
    BY <1>0, <1>2, <2>3
  <2> QED
    BY <1>2, <2>3, <2>4, <2>5, <2>6 DEF HolderStep
<1>9. CASE Crash
  <2>1. UNCHANGED <<holder, late, aged>> /\ picked' = [d \in Deleters |-> {}]
    BY <1>2, <1>9 DEF Crash
  <2> QED
    BY <1>2, <1>3, <2>1
<1>10. CASE UNCHANGED uploads
  <2>1. UNCHANGED <<holder, aged, picked, late>>
    BY <1>10 DEF uploads
  <2> QED
    BY <1>2, <1>3, <2>1
<1>11. DOMAIN picked = Deleters
  BY <1>2
<1> QED
  BY <1>4, <1>5, <1>6, <1>7, <1>8, <1>9, <1>10, <1>11
     DEF Next, vars, uploads, Retry, DeleteRun, Begin, RemoveFile, PickArtifacts, DeleteRows,
         Expire, Unlink, Resume, WriteTranscript, SaveSnapshot, StartTool, WriteOutput,
         FlushOutput, TooLong, SaveInput, WriteFile, Complete, Fail

-----------------------------------------------------------------------------
(* The task.                                                                *)

TaskTypes ==
  /\ task \in TaskRow
  /\ IF task.pc = "idle" THEN task = Idle
     ELSE task.run \in Requests /\ task.current \in Messages

\* A run that has begun goes on.
Goes ==
  /\ task.pc # "idle"
  /\ task' = [pc |-> task'.pc, run |-> task.run, current |-> task.current,
              input |-> task'.input, full |-> task.full, cited |-> task'.cited,
              upto |-> task'.upto, saved |-> task'.saved, file |-> task'.file,
              tool |-> task'.tool]
  /\ task'.pc \in {"history", "snapshot", "stream", "output", "compact"}
  /\ task'.cited \in {0} \cup Messages /\ task'.upto \in {0} \cup Messages
  /\ task'.file \in Nat /\ task'.tool \in BOOLEAN

LEMMA RunGoesOn ==
  ASSUME ContextTypes, Longer, Goes
  PROVE  /\ TaskTypes' /\ task'.current = task.current
         /\ task'.input = task.input => Omitted' = Omitted
<1>1. /\ task.run \in Requests' /\ task.current \in Messages' /\ task.full \in BOOLEAN
      /\ task'.cited \in {0} \cup Messages' /\ task'.upto \in {0} \cup Messages'
  BY Grown, Parts DEF ContextTypes, Goes
<1>2. /\ task'.run = task.run /\ task'.current = task.current /\ task'.full = task.full
  BY DEF Goes
<1>3. task' \in TaskRow'
  BY <1>1, <1>2 DEF TaskRow, Goes
<1>4. TaskTypes'
  BY <1>1, <1>2, <1>3 DEF TaskTypes, Goes
<1> QED
  BY <1>2, <1>4 DEF Omitted

\* What a run is given when it begins: if it is told that nothing was left out,
\* the messages it looks at are all there are.
LEMMA BeginIs ==
  ASSUME ContextTypes, Longer, NEW k \in Requests, Begin(k)
  PROVE  /\ TaskTypes' /\ task = Idle /\ (task' = Idle \/ task'.pc = "history")
         /\ task'.pc = "history" /\ ~task'.full => Omitted' = {}
<1> DEFINE current == IF k \in Window THEN k ELSE Len(conv)
           kept == Chosen(Window \ {current}, current)
           full == Window \ {current} # kept \/ Cardinality(Window) = setup.history + 1
<1>1. /\ task = Idle
      /\ \/ task' = Idle
         \/ task' = [Idle EXCEPT !.pc = "history", !.run = k, !.current = current,
                                 !.input = kept, !.full = full]
  BY DEF Begin
<1>2. current \in Window /\ current \in Messages /\ full \in BOOLEAN
  BY CurrentIs
<1>3. ~full => Window \ {current} = kept /\ Cardinality(Window) # setup.history + 1
  OBVIOUS
<1> HIDE DEF current, kept, full
<1>4. CASE task' = Idle
  <2>1. Idle.pc = "idle" /\ Idle \in [pc : {"idle"}, run : {0}, current : {0}, input : {{}},
                                      full : BOOLEAN, cited : {0}, upto : {0}, saved : {{}},
                                      file : Nat, tool : BOOLEAN]
    BY DEF Idle
  <2>2. task' \in TaskRow'
    BY <1>4, <2>1 DEF TaskRow
  <2> QED
    BY <1>1, <1>4, <2>1, <2>2 DEF TaskTypes
<1>5. CASE task' = [Idle EXCEPT !.pc = "history", !.run = k, !.current = current,
                                !.input = kept, !.full = full]
  <2>1. /\ task' = [pc |-> "history", run |-> k, current |-> current, input |-> kept,
                    full |-> full, cited |-> 0, upto |-> 0, saved |-> {}, file |-> 0,
                    tool |-> FALSE]
        /\ task'.pc = "history" /\ task'.run = k /\ task'.current = current
        /\ task'.input = kept /\ task'.full = full /\ task'.saved = {}
    BY <1>5 DEF Idle
  <2>2. k \in Requests' /\ current \in Messages'
    BY <1>2, Grown
  <2>3. task' \in TaskRow'
    BY <1>2, <2>1, <2>2 DEF TaskRow
  <2>4. TaskTypes'
    BY <2>1, <2>2, <2>3 DEF TaskTypes
  <2>5. ASSUME ~full PROVE Omitted' = {}
    <3>1. /\ Messages = 1..Len(conv) /\ Len(conv) \in Nat /\ setup.history \in Nat
          /\ Window \subseteq Messages
      BY Parts, CurrentIs DEF ContextTypes, SetupRow
    <3>2. Window = {j \in 1..Len(conv) : j > Len(conv) - (setup.history + 1)}
      BY <3>1 DEF Window
    <3>3. CASE Len(conv) - setup.history >= 1
      <4>1. Window = (Len(conv) - setup.history)..Len(conv)
        BY <3>1, <3>2, <3>3
      <4>2. Cardinality(Window) = setup.history + 1
        BY <3>1, <3>3, <4>1, FS_Interval
      <4> QED
        BY <1>3, <2>5, <4>2
    <3>4. CASE ~(Len(conv) - setup.history >= 1)
      <4>1. Window = 1..Len(conv)
        BY <3>1, <3>2, <3>4
      <4>2. 1..(current - 1) \subseteq kept
        BY <1>2, <1>3, <2>5, <3>1, <4>1
      <4> QED
        BY <2>1, <4>2 DEF Omitted
    <3> QED
      BY <3>1, <3>3, <3>4
  <2> QED
    BY <1>1, <2>1, <2>4, <2>5
<1> QED
  BY <1>1, <1>4, <1>5

\* Every step of a run keeps what its input stands on: a message before the
\* current one is never left out without something that stands for it.
LEMMA TaskSteps ==
  ASSUME ContextTypes, InputInv, [Next]_vars
  PROVE  TaskTypes' /\ InputInv'
<1>0. Longer
  BY ConvStep
<1>1. ASSUME task' = task PROVE TaskTypes' /\ InputInv'
  <2>1. TaskTypes'
    BY <1>0, <1>1, Grown DEF ContextTypes, TaskTypes, TaskRow
  <2>2. Omitted' = Omitted
    BY <1>1 DEF Omitted
  <2> QED
    BY <1>1, <2>1, <2>2 DEF InputInv, NothingIsLost
<1>2. ASSUME task' = Idle PROVE TaskTypes' /\ InputInv'
  <2>1. /\ Idle.pc = "idle"
        /\ Idle \in [pc : {"idle"}, run : {0}, current : {0}, input : {Idle.input},
                     full : BOOLEAN, cited : {0}, upto : {0}, saved : {Idle.saved},
                     file : Nat, tool : BOOLEAN]
    BY DEF Idle
  <2>2. task' \in TaskRow'
    BY <1>2, <2>1 DEF TaskRow
  <2> QED
    BY <1>2, <2>1, <2>2 DEF TaskTypes, InputInv, NothingIsLost
<1>3. ASSUME NEW k \in Requests, Begin(k) PROVE TaskTypes' /\ InputInv'
  <2>1. /\ TaskTypes' /\ (task' = Idle \/ task'.pc = "history")
        /\ task'.pc = "history" /\ ~task'.full => Omitted' = {}
    BY <1>0, <1>3, BeginIs
  <2> QED
    BY <1>2, <2>1 DEF InputInv, NothingIsLost
<1>4. task \in TaskRow /\ snap.upto \in {0} \cup Messages /\ snap.upto \in Int
  BY Parts DEF ContextTypes
<1>5. CASE Resume
  <2>1. PICK cited \in {task.cited, snap.upto} :
          /\ task' = [task EXCEPT !.pc = "stream", !.cited = cited]
          /\ \/ ~task.full \/ Omitted = {}
             \/ Omitted # {} /\ snap.upto >= Max(Omitted) /\ cited = snap.upto
    BY <1>4, <1>5 DEF Resume, TaskRow
  <2>2. task.pc = "history" /\ cited \in {0} \cup Messages
    BY <1>4, <1>5, <2>1, Parts DEF Resume
  <2>3. /\ Goes /\ task'.pc = "stream" /\ task'.input = task.input /\ task'.cited = cited
    BY <1>4, <2>1, <2>2, Parts DEF Goes, TaskRow
  <2>4. TaskTypes' /\ task'.current = task.current
    BY <1>0, <2>3, RunGoesOn
  <2>5. ASSUME NEW k \in 1..(task.current - 1) PROVE k \in task.input \/ k <= cited
    <3>1. k \in Omitted \/ k \in task.input
      BY DEF Omitted
    <3>2. CASE Omitted = {}
      BY <3>1, <3>2
    <3>3. CASE Omitted # {}
      <4>1. snap.upto >= Max(Omitted) /\ cited = snap.upto
        BY <2>1, <2>2, <3>3 DEF InputInv
      <4>2. Max(Omitted) \in Messages /\ \A j \in Omitted : j <= Max(Omitted)
        BY <2>2, <3>3, LastOmitted
      <4>3. Max(Omitted) \in Int /\ k \in Int
        BY <4>2, Parts
      <4> QED
        BY <1>4, <3>1, <4>1, <4>2, <4>3
    <3> QED
      BY <3>2, <3>3
  <2> QED
    BY <2>3, <2>4, <2>5 DEF InputInv, NothingIsLost
<1>6. FreshId \in Nat
  BY Parts DEF FreshId
<1>7. CASE WriteTranscript
  <2>1. task.pc = "history" /\ Omitted # {}
    BY <1>7 DEF WriteTranscript
  <2>2. Max(Omitted) \in Messages /\ \A j \in Omitted : j <= Max(Omitted)
    BY <2>1, LastOmitted
  <2>3. /\ Goes /\ task'.pc = "snapshot" /\ task'.upto = Max(Omitted)
        /\ task'.input = task.input
    BY <1>4, <1>6, <1>7, <2>1, <2>2, Parts DEF WriteTranscript, WriteFile, Goes, TaskRow
  <2>4. TaskTypes' /\ Omitted' = Omitted
    BY <1>0, <2>3, RunGoesOn
  <2> QED
    BY <2>2, <2>3, <2>4 DEF InputInv, NothingIsLost
<1>8. CASE SaveSnapshot
  <2>1. task.pc = "snapshot"
    BY <1>8 DEF SaveSnapshot
  <2>2. /\ Goes /\ task'.pc = "stream" /\ task'.input = task.input /\ task'.cited = task.upto
    BY <1>4, <1>8, <2>1, Parts DEF SaveSnapshot, Goes, TaskRow
  <2>3. TaskTypes' /\ task'.current = task.current
    BY <1>0, <2>2, RunGoesOn
  <2>4. \A k \in 1..(task.current - 1) : k \in task.input \/ k <= task.upto
    BY <2>1 DEF InputInv, Omitted
  <2> QED
    BY <2>2, <2>3, <2>4 DEF InputInv, NothingIsLost
<1>9. ASSUME Goes, task.pc \in {"stream", "output"}, task'.pc \in {"stream", "output", "compact"},
             task'.input = task.input, task'.cited = task.cited, task'.saved = task.saved,
             task'.pc = "compact" => task.saved = {}
      PROVE  TaskTypes' /\ InputInv'
  <2>1. TaskTypes' /\ task'.current = task.current
    BY <1>0, <1>9, RunGoesOn
  <2> QED
    BY <1>9, <2>1 DEF InputInv, NothingIsLost
<1>10. ASSUME NEW pc \in {"output", "compact"}, WriteFile(pc), task.pc = "stream",
              pc = "compact" => task.saved = {}
       PROVE  TaskTypes' /\ InputInv'
  <2>1. task' = [task EXCEPT !.pc = pc, !.file = FreshId, !.upto = 0]
    BY <1>10 DEF WriteFile
  <2>2. /\ Goes /\ task'.pc = pc /\ task'.input = task.input /\ task'.cited = task.cited
        /\ task'.saved = task.saved
    BY <1>4, <1>6, <1>10, <2>1, Parts DEF Goes, TaskRow
  <2> QED
    BY <1>9, <1>10, <2>2
<1>11. CASE WriteOutput \/ TooLong
  BY <1>10, <1>11 DEF WriteOutput, TooLong
<1>12. CASE StartTool
  <2>1. /\ Goes /\ task'.pc = "stream" /\ task'.input = task.input
        /\ task'.cited = task.cited /\ task'.saved = task.saved
    BY <1>4, <1>12, Parts DEF StartTool, Goes, TaskRow
  <2> QED
    BY <1>9, <1>12, <2>1 DEF StartTool
<1>13. CASE FlushOutput
  <2>1. /\ Goes /\ task'.pc = "stream" /\ task'.input = task.input
        /\ task'.cited = task.cited /\ task'.saved = task.saved
    BY <1>4, <1>13, Parts DEF FlushOutput, Goes, TaskRow
  <2> QED
    BY <1>9, <1>13, <2>1 DEF FlushOutput
<1>14. ASSUME NEW less \in Shorter, SaveInput(less) PROVE TaskTypes' /\ InputInv'
  <2> DEFINE saved == {task.current} \cup task.input \cup 1..task.cited
  <2>1. task.pc = "compact" /\ task.saved = {}
    BY <1>14 DEF SaveInput, InputInv
  <2>2. /\ Goes /\ task'.pc = "stream" /\ task'.saved = saved
    BY <1>4, <1>14, <2>1, Parts DEF SaveInput, Goes, TaskRow
  <2>3. \A k \in 1..(task.current - 1) : k \in saved
    <3>1. \A k \in 1..(task.current - 1) : k \in task.input \/ k <= task.cited
      BY <2>1 DEF InputInv, NothingIsLost
    <3>2. task.cited \in Nat
      BY Parts
    <3> QED
      BY <3>1, <3>2
  <2>4. TaskTypes' /\ task'.current = task.current
    BY <1>0, <2>2, RunGoesOn
  <2> QED
    BY <2>2, <2>3, <2>4 DEF InputInv, NothingIsLost
<1> QED
  BY <1>1, <1>2, <1>3, <1>5, <1>7, <1>8, <1>11, <1>12, <1>13, <1>14
     DEF Next, vars, Upload, WantDelete, Age, Submit, Retry, DeleteRun, DropPicked, RemoveFile,
         PickAttachments, PickArtifacts, DeleteRows, Expire, Unlink, Complete, Fail, Crash

-----------------------------------------------------------------------------
(* The artifacts.                                                           *)

ArtifactTypes ==
  /\ rows \subseteq [id : Nat, run : Requests] /\ made \in Nat
  /\ batch \in [pc : {"idle", "picked", "unlinked"}, ids : SUBSET Nat]
  /\ snap \in [upto : {0} \cup Messages, source : Nat]
  /\ setup \in SetupRow

LEMMA ArtifactTypeSteps == ASSUME ContextTypes, [Next]_vars PROVE ArtifactTypes'
<1>1. Messages \subseteq Messages' /\ Requests \subseteq Requests'
  BY ConvStep, Grown
<1>2. /\ rows \subseteq [id : Nat, run : Requests'] /\ made \in Nat
      /\ batch \in [pc : {"idle", "picked", "unlinked"}, ids : SUBSET Nat]
      /\ snap \in [upto : {0} \cup Messages', source : Nat]
      /\ setup \in SetupRow
  BY <1>1 DEF ContextTypes
<1>3. SetupRow' = SetupRow
  BY DEF SetupRow
<1>4. made' \in Nat
  <2>1. made' = made \/ made' = made + 1
    BY DEF Next, vars, artifacts, Upload, WantDelete, Age, Submit, Retry, DeleteRun, Begin,
           DropPicked, RemoveFile, PickAttachments, PickArtifacts, DeleteRows, Expire, Unlink,
           Resume, WriteTranscript, SaveSnapshot, StartTool, WriteOutput, FlushOutput, TooLong,
           SaveInput, WriteFile, Complete, Fail, Crash, FreshId
  <2> QED
    BY <1>2, <2>1
<1>5. setup' \in SetupRow
  <2>1. CASE Crash
    <3>1. setup.crashes - 1 \in Nat /\ setup' = [setup EXCEPT !.crashes = setup.crashes - 1]
      BY <1>2, <2>1 DEF Crash, SetupRow
    <3> QED
      BY <1>2, <3>1 DEF SetupRow
  <2>2. CASE setup' = setup
    BY <1>2, <2>2
  <2> QED
    BY <2>1, <2>2
       DEF Next, vars, Upload, WantDelete, Age, Submit, Retry, DeleteRun, Begin,
           DropPicked, RemoveFile, PickAttachments, PickArtifacts, DeleteRows, Expire, Unlink,
           Resume, WriteTranscript, SaveSnapshot, StartTool, WriteOutput, FlushOutput, TooLong,
           SaveInput, WriteFile, Complete, Fail
<1>6. ASSUME WriteRow, task.pc # "idle" PROVE rows' \subseteq [id : Nat, run : Requests']
  <2>1. task.file \in Nat /\ task.run \in Requests'
    BY <1>1, <1>6, Parts DEF ContextTypes
  <2> QED
    BY <1>2, <1>6, <2>1 DEF WriteRow
<1>7. rows' \subseteq [id : Nat, run : Requests']
  BY <1>2, <1>6
     DEF Next, vars, artifacts, Upload, WantDelete, Age, Submit, Retry, DeleteRun, Begin,
         DropPicked, RemoveFile, PickAttachments, PickArtifacts, DeleteRows, Expire, Unlink,
         Resume, WriteTranscript, SaveSnapshot, StartTool, WriteOutput, FlushOutput, TooLong,
         SaveInput, WriteFile, Complete, Fail, Crash
<1>8. batch' \in [pc : {"idle", "picked", "unlinked"}, ids : SUBSET Nat]
  <2>1. NoBatch \in [pc : {"idle"}, ids : {{}}]
    BY DEF NoBatch
  <2>2. CASE PickArtifacts
    BY <1>2, <2>2 DEF PickArtifacts, Ids
  <2>3. ASSUME NEW removed \in SUBSET batch.ids, Unlink(removed)
        PROVE  batch' \in [pc : {"unlinked"}, ids : SUBSET Nat]
    BY <1>2, <2>3 DEF Unlink
  <2>4. CASE batch' = batch \/ batch' = NoBatch
    BY <1>2, <2>1, <2>4
  <2> QED
    BY <2>2, <2>3, <2>4
       DEF Next, vars, cleaners, Upload, WantDelete, Age, Submit, Retry, DeleteRun, Begin,
           DropPicked, RemoveFile, PickAttachments, DeleteRows, Expire, Resume,
           WriteTranscript, SaveSnapshot, StartTool, WriteOutput, FlushOutput, TooLong,
           SaveInput, WriteFile, Complete, Fail, Crash
<1>9. snap' \in [upto : {0} \cup Messages', source : Nat]
  <2>1. NoSnapshot \in [upto : {0}, source : {0}]
    BY DEF NoSnapshot
  <2>2. CASE SaveSnapshot
    <3>1. task.upto \in {0} \cup Messages' /\ task.file \in Nat
      BY <1>1, Parts
    <3> QED
      BY <2>2, <3>1 DEF SaveSnapshot
  <2>3. CASE snap' = snap \/ snap' = NoSnapshot
    BY <1>2, <2>1, <2>3
  <2> QED
    BY <2>2, <2>3
       DEF Next, vars, Upload, WantDelete, Age, Submit, Retry, DeleteRun, Begin,
           DropPicked, RemoveFile, PickAttachments, PickArtifacts, DeleteRows, Expire, Unlink,
           Resume, WriteTranscript, StartTool, WriteOutput, FlushOutput, TooLong,
           SaveInput, WriteFile, Complete, Fail, Crash
<1> QED
  BY <1>3, <1>4, <1>5, <1>7, <1>8, <1>9 DEF ArtifactTypes

Waiting == {"snapshot", "output", "compact"}

LEMMA SourceIsKept ==
  ASSUME ContextTypes, ArtifactsInv
  PROVE  /\ snap # NoSnapshot => snap.source \in Ids \cap files /\ snap.source \notin leaving
         /\ NoSnapshot.source \notin batch.ids
         /\ task.pc \in Waiting => task.file \in Nat
<1>1. NoSnapshot.source = 0 /\ batch.ids \subseteq 1..made /\ made \in Nat
  BY Parts DEF NoSnapshot, ArtifactsInv, NumbersInv
<1> QED
  BY <1>1, Parts DEF ArtifactsInv, RemovalInv, ContextIsRecoverable

\* The steps that do not concern artifacts.
LEMMA ArtifactsStay ==
  ASSUME ArtifactsInv, UNCHANGED <<rows, files, made, expired, leaving, batch, snap>>,
         task' = task \/ task'.pc \notin Waiting
  PROVE  ArtifactsInv'
<1>1. Ids' = Ids
  BY DEF Ids
<1>2. PendingInv'
  BY <1>1 DEF ArtifactsInv, PendingInv, Waiting
<1> QED
  BY <1>1, <1>2
     DEF ArtifactsInv, NumbersInv, RowsInv, RemovalInv, ContextIsRecoverable, NoSnapshot

\* The row of the file that a run has written.
LEMMA RowWritten ==
  ASSUME ContextTypes, ArtifactsInv, task.pc \in Waiting, task'.pc \notin Waiting, WriteRow,
         UNCHANGED <<files, made, expired, leaving, batch>>,
         snap' = snap \/ snap'.source = task.file
  PROVE  ArtifactsInv'
<1>1. /\ task.file \in files /\ task.file \notin Ids /\ task.file \notin leaving
      /\ task.file \notin batch.ids
  BY DEF ArtifactsInv, PendingInv, Waiting
<1>2. Ids' = Ids \cup {task.file}
  <2> DEFINE row == [id |-> task.file, run |-> task.run]
  <2>1. rows' = rows \cup {row} /\ row.id = task.file
    BY DEF WriteRow
  <2> HIDE DEF row
  <2> QED
    BY <2>1 DEF Ids
<1>3. NumbersInv'
  BY <1>1, <1>2 DEF ArtifactsInv, NumbersInv
<1>4. RowsInv'
  BY <1>1 DEF ArtifactsInv, RowsInv, WriteRow, Ids
<1>5. RemovalInv'
  BY <1>1, <1>2 DEF ArtifactsInv, RemovalInv
<1>6. PendingInv'
  BY DEF PendingInv, Waiting
<1>7. ContextIsRecoverable'
  BY <1>1, <1>2 DEF ArtifactsInv, ContextIsRecoverable, NoSnapshot
<1> QED
  BY <1>3, <1>4, <1>5, <1>6, <1>7 DEF ArtifactsInv

\* A new file has a number that nothing has had before.
LEMMA FileWritten ==
  ASSUME ContextTypes, ArtifactsInv, NEW pc, WriteFile(pc)
  PROVE  ArtifactsInv'
<1>1. /\ made' = made + 1 /\ files' = files \cup {made + 1} /\ made \in Nat
      /\ UNCHANGED <<rows, expired, leaving, batch, snap>>
  BY Parts DEF WriteFile, FreshId, cleaners
<1>2. task'.file = made + 1
  BY DEF WriteFile, FreshId, ContextTypes, TaskRow
<1>3. Ids' = Ids
  BY <1>1 DEF Ids
<1>4. /\ Ids \cup files \cup expired \cup leaving \cup batch.ids \subseteq 1..made
      /\ made + 1 \notin 1..made /\ 1..made \subseteq 1..(made + 1) /\ made + 1 \in 1..(made + 1)
  BY <1>1 DEF ArtifactsInv, NumbersInv
<1>5. NumbersInv'
  BY <1>1, <1>3, <1>4 DEF NumbersInv
<1>6. PendingInv'
  BY <1>1, <1>2, <1>3, <1>4 DEF PendingInv
<1>7. RowsInv' /\ RemovalInv' /\ ContextIsRecoverable'
  BY <1>1, <1>3 DEF ArtifactsInv, RowsInv, RemovalInv, ContextIsRecoverable, NoSnapshot
<1> QED
  BY <1>5, <1>6, <1>7 DEF ArtifactsInv

\* A run is deleted: its rows, and the snapshot if one of them is behind it.
LEMMA RunDeleted ==
  ASSUME ContextTypes, ArtifactsInv, NEW k \in Requests, DeleteRun(k)
  PROVE  ArtifactsInv'
<1> DEFINE own == {r \in rows : r.run = k}
<1>1. /\ rows' = rows \ own /\ leaving' = leaving \cup {r.id : r \in own}
      /\ snap' = IF \E r \in own : r.id = snap.source THEN NoSnapshot ELSE snap
      /\ UNCHANGED <<files, made, expired, batch, task>>
  BY DEF DeleteRun
<1>2. own \subseteq rows
  OBVIOUS
<1> HIDE DEF own
<1>3. {r.id : r \in own} \subseteq Ids /\ Ids' \subseteq Ids
  BY <1>1, <1>2 DEF Ids
<1>4. NumbersInv'
  BY <1>1, <1>3 DEF ArtifactsInv, NumbersInv
<1>5. RowsInv'
  BY <1>1 DEF ArtifactsInv, RowsInv
<1>6. leaving' \cap Ids' = {}
  <2>1. ASSUME NEW q \in rows', q.id \in leaving' PROVE FALSE
    <3>1. q \in rows /\ q \notin own /\ q.id \in Ids
      BY <1>1, <2>1 DEF Ids
    <3>2. PICK r \in own : r.id = q.id
      BY <1>1, <2>1, <3>1 DEF ArtifactsInv, RemovalInv
    <3> QED
      BY <1>2, <3>1, <3>2 DEF ArtifactsInv, RowsInv
  <2> QED
    BY <2>1 DEF Ids
<1>7. RemovalInv'
  BY <1>1, <1>6, SourceIsKept DEF ArtifactsInv, RemovalInv
<1>8. PendingInv'
  BY <1>1, <1>3 DEF ArtifactsInv, PendingInv
<1>9. snap' # NoSnapshot => snap'.source \in Ids' \cap files
  <2>1. SUFFICES ASSUME snap' # NoSnapshot PROVE snap'.source \in Ids' \cap files
    OBVIOUS
  <2>2. snap' = snap /\ ~\E r \in own : r.id = snap.source
    BY <1>1, <2>1
  <2>3. snap.source \in files /\ snap.source \in Ids
    BY <2>1, <2>2, SourceIsKept
  <2>4. PICK r \in rows : r.id = snap.source
    BY <2>3 DEF Ids
  <2>5. r \in rows'
    BY <1>1, <2>2, <2>4
  <2> QED
    BY <2>2, <2>3, <2>4, <2>5 DEF Ids
<1>10. ContextIsRecoverable'
  BY <1>1, <1>3, <1>9 DEF ArtifactsInv, ContextIsRecoverable, NoSnapshot
<1> QED
  BY <1>4, <1>5, <1>7, <1>8, <1>10 DEF ArtifactsInv

\* The clean-up removes files and then rows of expired artifacts only, and never
\* those behind the snapshot.
LEMMA CleanedUp ==
  ASSUME ContextTypes, ArtifactsInv,
         \/ \E n \in leaving : RemoveFile(n)
         \/ \E r \in rows : Expire(r)
         \/ PickArtifacts \/ DeleteRows
         \/ \E removed \in SUBSET batch.ids : Unlink(removed)
  PROVE  ArtifactsInv'
<1>1. /\ Ids \cup files \cup expired \cup leaving \cup batch.ids \subseteq 1..made
      /\ leaving \cap Ids = {} /\ batch.ids \subseteq expired /\ snap.source \notin batch.ids
      /\ snap # NoSnapshot => snap.source \in Ids \cap files
      /\ Ids \subseteq files \cup expired
      /\ \A r, q \in rows : r.id = q.id => r = q
      /\ task.pc \in {"snapshot", "output", "compact"} =>
           task.file \in files \ (Ids \cup expired \cup leaving \cup batch.ids)
  BY DEF ArtifactsInv, NumbersInv, RowsInv, RemovalInv, PendingInv, ContextIsRecoverable
<1> USE <1>1
<1> DEFINE Goal == /\ Ids' \cup files' \cup expired' \cup leaving' \cup batch'.ids \subseteq 1..made'
                   /\ leaving' \cap Ids' = {} /\ batch'.ids \subseteq expired'
                   /\ snap'.source \notin batch'.ids
                   /\ snap' # NoSnapshot => snap'.source \in Ids' \cap files'
                   /\ Ids' \subseteq files' \cup expired'
                   /\ \A r, q \in rows' : r.id = q.id => r = q
                   /\ task'.pc \in {"snapshot", "output", "compact"} =>
                        task'.file \in files' \ (Ids' \cup expired' \cup leaving' \cup batch'.ids)
<1>2. SUFFICES Goal
  BY DEF ArtifactsInv, NumbersInv, RowsInv, RemovalInv, PendingInv, ContextIsRecoverable,
         NoSnapshot
<1>3. CASE \E n \in leaving : RemoveFile(n)
  <2>1. PICK n \in leaving : RemoveFile(n)
    BY <1>3
  <2>2. Ids' = Ids
    BY <2>1 DEF RemoveFile, Ids
  <2> QED
    BY <2>1, <2>2 DEF RemoveFile
<1>4. CASE \E r \in rows : Expire(r)
  <2>1. PICK r \in rows : Expire(r)
    BY <1>4
  <2>2. Ids' = Ids /\ r.id \in Ids
    BY <2>1 DEF Expire, Ids
  <2> QED
    BY <2>1, <2>2 DEF Expire, cleaners
<1>5. CASE PickArtifacts
  <2>1. Ids' = Ids
    BY <1>5 DEF PickArtifacts, artifacts, Ids
  <2> QED
    BY <1>5, <2>1 DEF PickArtifacts, artifacts
<1>6. CASE \E removed \in SUBSET batch.ids : Unlink(removed)
  <2>1. PICK removed \in SUBSET batch.ids : Unlink(removed)
    BY <1>6
  <2>2. Ids' = Ids
    BY <2>1 DEF Unlink, Ids
  <2> QED
    BY <2>1, <2>2 DEF Unlink
<1>7. CASE DeleteRows
  <2>1. Ids' = Ids \ batch.ids /\ rows' \subseteq rows
    BY <1>7 DEF DeleteRows, Ids
  <2> QED
    BY <1>7, <2>1 DEF DeleteRows, NoBatch
<1> QED
  BY <1>3, <1>4, <1>5, <1>6, <1>7

LEMMA ArtifactsSteps == ASSUME ContextTypes, ArtifactsInv, [Next]_vars PROVE ArtifactsInv'
<1>0. Longer
  BY ConvStep
<1>1. ASSUME UNCHANGED <<artifacts, cleaners, snap>>, task' = task \/ task'.pc \notin Waiting
      PROVE  ArtifactsInv'
  BY <1>1, ArtifactsStay DEF artifacts, cleaners
<1>2. CASE UNCHANGED <<artifacts, cleaners, snap, task>>
  BY <1>1, <1>2
<1>3. ASSUME NEW k \in Requests, Begin(k) PROVE ArtifactsInv'
  <2>1. task'.pc \notin Waiting
    BY <1>0, <1>3, BeginIs DEF Idle, Waiting
  <2> QED
    BY <1>1, <1>3, <2>1 DEF Begin
<1>4. task \in TaskRow
  BY DEF ContextTypes
<1>5. CASE Resume \/ StartTool
  <2>1. task'.pc = "stream"
    BY <1>4, <1>5 DEF Resume, StartTool, TaskRow
  <2> QED
    BY <1>1, <1>5, <2>1 DEF Resume, StartTool, Waiting
<1>6. ASSUME NEW size \in Answers, Complete(size) PROVE ArtifactsInv'
  BY <1>1, <1>6 DEF Complete, Idle, Waiting
<1>7. CASE Fail
  BY <1>1, <1>7 DEF Fail, Idle, Waiting
<1>8. CASE WriteTranscript \/ WriteOutput \/ TooLong
  BY <1>8, FileWritten DEF WriteTranscript, WriteOutput, TooLong
<1>9. CASE SaveSnapshot
  <2>1. task.pc \in Waiting /\ task'.pc \notin Waiting
    BY <1>4, <1>9 DEF SaveSnapshot, Waiting, TaskRow
  <2> QED
    BY <1>9, <2>1, RowWritten DEF SaveSnapshot, cleaners
<1>10. CASE FlushOutput
  <2>1. task.pc \in Waiting /\ task'.pc \notin Waiting
    BY <1>4, <1>10 DEF FlushOutput, Waiting, TaskRow
  <2> QED
    BY <1>10, <2>1, RowWritten DEF FlushOutput, cleaners
<1>11. ASSUME NEW less \in Shorter, SaveInput(less) PROVE ArtifactsInv'
  <2>1. task.pc \in Waiting /\ task'.pc \notin Waiting
    BY <1>4, <1>11 DEF SaveInput, Waiting, TaskRow
  <2> QED
    BY <1>11, <2>1, RowWritten DEF SaveInput, cleaners
<1>12. CASE Crash
  <2>1. /\ UNCHANGED <<rows, files, made, expired, snap>> /\ leaving' = {} /\ batch'.ids = {}
        /\ task'.pc \notin Waiting /\ Ids' = Ids
    BY <1>12 DEF Crash, artifacts, NoBatch, Idle, Waiting, Ids
  <2> QED
    BY <2>1 DEF ArtifactsInv, NumbersInv, RowsInv, RemovalInv, PendingInv,
                ContextIsRecoverable, NoSnapshot, Waiting
<1> QED
  BY <1>2, <1>3, <1>5, <1>6, <1>7, <1>8, <1>9, <1>10, <1>11, <1>12, RunDeleted, CleanedUp
     DEF Next, vars, artifacts, cleaners, Upload, WantDelete, Age, Submit, Retry, DropPicked,
         PickAttachments

-----------------------------------------------------------------------------
(* The invariant.                                                           *)

LEMMA ContextInit == Init => ContextInv
<1> SUFFICES ASSUME Init PROVE ContextInv
  OBVIOUS
<1> USE DEF Init
<1>1. Messages = {} /\ Requests = {} /\ Ids = {} /\ conv \in Seq(MessageRow)
  BY DEF Messages, Requests, Ids
<1>2. task \in TaskRow /\ task = Idle /\ task.pc = "idle"
  BY DEF TaskRow, Idle
<1>3. /\ holder \in [Attachments -> Holders] /\ picked \in [Deleters -> SUBSET Attachments]
      /\ \A d \in Deleters : picked[d] = {}
  BY DEF Holders, Deleters
<1>4. setup \in SetupRow
  BY ContextAssumption DEF SetupRow
<1>5. /\ snap = NoSnapshot /\ snap \in [upto : {0} \cup Messages, source : Nat]
      /\ batch \in [pc : {"idle", "picked", "unlinked"}, ids : SUBSET Nat] /\ batch.ids = {}
  BY DEF NoSnapshot, NoBatch
<1>6. ContextTypes
  BY <1>1, <1>2, <1>3, <1>4, <1>5 DEF ContextTypes
<1>7. PickedInv
  BY <1>3 DEF PickedInv
<1>8. ArtifactsInv
  BY <1>1, <1>2, <1>5 DEF ArtifactsInv, NumbersInv, RowsInv, RemovalInv, PendingInv,
                          ContextIsRecoverable
<1>9. InputInv
  BY <1>2 DEF InputInv, NothingIsLost
<1> QED
  BY <1>6, <1>7, <1>8, <1>9 DEF ContextInv

LEMMA ContextStep == ContextInv /\ [Next]_vars => ContextInv'
<1> SUFFICES ASSUME ContextInv, [Next]_vars PROVE ContextInv'
  OBVIOUS
<1>1. ContextTypes /\ PickedInv /\ ArtifactsInv /\ InputInv
  BY DEF ContextInv
<1>2. Longer /\ HolderStep /\ ArtifactTypes' /\ ArtifactsInv' /\ TaskTypes' /\ InputInv'
  BY <1>1, ConvStep, HolderSteps, ArtifactTypeSteps, ArtifactsSteps, TaskSteps
<1>3. ContextTypes'
  BY <1>2 DEF ContextTypes, Longer, HolderStep, ArtifactTypes, TaskTypes
<1> QED
  BY <1>2, <1>3 DEF ContextInv, HolderStep

\* The invariant: the types of the state, who holds the attachments a deleter
\* has picked, which files and rows belong together, and what stands for the
\* messages that the input of a run leaves out (services/artifacts.py,
\* services/context_compactor.py, services/retention.py).
THEOREM ContextHolds == Spec => []ContextInv
<1> QED
  BY ContextInit, ContextStep, PTL DEF Spec

\* However the executor's two attempts, compaction and crashes follow upon each
\* other, no earlier message is missing from what the model is given: it is in
\* the input, in the snapshot that is cited, or in the transcript that was saved
\* (services/context_compactor.py, services/runs/orchestrator.py).
THEOREM ContextIsComplete == Spec => []NothingIsLost
<1>1. ContextInv => NothingIsLost
  BY DEF ContextInv, InputInv
<1> QED
  BY <1>1, ContextHolds, PTL

\* The file and the row behind a snapshot outlive the deletion of runs, the
\* clean-up of expired artifacts and crashes between the removal of a file and of
\* its row (services/retention.py, api/runs.py).
THEOREM TranscriptsStay == Spec => []ContextIsRecoverable
<1>1. ContextInv => ContextIsRecoverable
  BY DEF ContextInv, ArtifactsInv
<1> QED
  BY <1>1, ContextHolds, PTL

\* Neither a deletion on request nor the clean-up takes an attachment away from
\* its message, unless the attachment was found unbound just before it was sent
\* (api/attachments.py, services/retention.py).
THEOREM AttachmentsStay == Spec => SentAttachmentsStay
<1>1. ContextInv /\ [Next]_vars =>
        [\A a \in Attachments : holder[a] > 0 /\ a \notin late => holder'[a] = holder[a]]_vars
  <2> SUFFICES ASSUME ContextInv, [Next]_vars
               PROVE  \A a \in Attachments :
                        holder[a] > 0 /\ a \notin late => holder'[a] = holder[a]
    OBVIOUS
  <2>1. HolderStep
    BY HolderSteps DEF ContextInv
  <2> QED
    BY <2>1 DEF HolderStep
<1> QED
  BY <1>1, ContextHolds, PTL DEF Spec, SentAttachmentsStay
=============================================================================
