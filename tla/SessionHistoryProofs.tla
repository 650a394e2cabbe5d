------------------------- MODULE SessionHistoryProofs -------------------------
(***************************************************************************)
(* Proofs about what a session remembers (Session): nothing that was said  *)
(* is dropped before its summary and its archive were tried, every batch   *)
(* of tools that ran leaves its results, every call that is sent has them, *)
(* and a forked session is one of its own right; for every bound, ratio    *)
(* and set of plans, across failing and short writes and any number of     *)
(* crashes.                                                                *)
(***************************************************************************)
EXTENDS SessionProofs, FiniteSetTheorems

------------------------------------------------------------------------------
(* The plan. *)

(* From the answer to the compaction it triggers the plan does not change. *)
PlanInv ==
    /\ pc \in {"tools", "plan"} => plan = promptPlan
    /\ PlanPrefixKept

(* Nobody touches plan.md between the request and the compaction that a      *)
(* PlanConfirm or PlanClear of its answer triggers: the summary is asked for *)
(* with the system prompt the provider has cached.                           *)
THEOREM SummaryUsesCachedPrompt == Spec => []PlanPrefixKept
  <1>1. Init => PlanInv
    BY DEF Init, PlanInv, PlanPrefixKept
  <1>2. PlanInv /\ [Next]_vars => PlanInv'
    BY DEF PlanInv, PlanPrefixKept, Next, vars, files, local, history, others, AddLine,
           store_conv_add_user, store_conv_add_assistant, store_conv_add_tool_results,
           LoopStart, Drain, DrainAtEnd, LoopEnds, RequestFails, Answer, store_session_fork,
           RunTools, StorePlan, Save, SaveResults, Decide, NoAutoCompact, AutoCompact,
           PlanCompact, AfterCompact, Trim, SummaryFails, store_summary_set, SummaryWrite,
           TrimFails, TrimArchive, TrimTruncate, TrimWrite, Crash, Restart
  <1> QED BY <1>1, <1>2, PTL DEF Spec, PlanInv

------------------------------------------------------------------------------
(* The kinds of steps. *)

(* Where a cut is being made. *)
Cutting == {"summary", "summaryWrite", "archive", "truncate", "write"}

(* Most steps leave alone what is said, kept and remembered, ... *)
QuietStep ==
    /\ pc \notin {"summaryWrite", "write"}
    /\ pc' \notin {"summaryWrite", "archive", "truncate", "write", "results"}
    /\ pc # "results"
    /\ UNCHANGED <<conv, archive, covered, text, log, unarchived, unsummarised, lost, crashes>>

(* ... some append a line, ... *)
AppendStep(kind) ==
    /\ AddLine(kind) /\ UNCHANGED others
    /\ pc \notin Cutting /\ pc' \notin Cutting
    /\ conv = <<>> => kind = "user" \/ Headless(Len(log))
    /\ kind = "results" <=> pc = "results"
    /\ kind = "call" <=> pc' = "results"
    /\ kind = "results" => log # <<>> /\ log[Len(log)].kind = "call"

(* ... and a trim can empty the conversation. *)
EmptyStep == TrimTruncate /\ pc' = "write"

LEMMA AppendSteps ==
    ASSUME IInv, LoopStart \/ Drain \/ DrainAtEnd \/ Save \/ SaveResults
    PROVE  \E kind \in Kind : AppendStep(kind)
  <1> USE DEF Cutting
  <1>1. CASE LoopStart \/ Drain \/ DrainAtEnd
    <2>1. AppendStep("user")
      BY <1>1 DEF LoopStart, Drain, DrainAtEnd, store_conv_add_user, AppendStep
    <2> QED BY <2>1 DEF Kind
  <1>2. CASE Save
    <2>1. pc = "save" /\ UNCHANGED others /\ (conv = <<>> => Headless(Len(log)))
      BY <1>2 DEF Save, IInv, EmptyOK, InLoop
    <2>2. CASE answer.ran
      <3>1. AppendStep("call")
        BY <1>2, <2>1, <2>2 DEF Save, store_conv_add_assistant, AppendStep
      <3> QED BY <3>1 DEF Kind
    <2>3. CASE ~answer.ran
      <3>1. AppendStep("text")
        BY <1>2, <2>1, <2>3 DEF Save, store_conv_add_assistant, AppendStep
      <3> QED BY <3>1 DEF Kind
    <2> QED BY <2>2, <2>3
  <1>3. CASE SaveResults
    <2>1. /\ pc = "results" /\ (conv = <<>> => Headless(Len(log)))
          /\ log # <<>> /\ log[Len(log)].kind = "call"
      BY <1>3 DEF SaveResults, IInv, EmptyOK, ResultsOK, InLoop
    <2>2. AppendStep("results")
      BY <1>3, <2>1 DEF SaveResults, store_conv_add_tool_results, AppendStep
    <2> QED BY <2>2 DEF Kind
  <1> QED BY <1>1, <1>2, <1>3

LEMMA StepKinds ==
    ASSUME IInv, Next
    PROVE  \/ QuietStep \/ (\E kind \in Kind : AppendStep(kind)) \/ store_summary_set \/ SummaryWrite
           \/ TrimArchive \/ EmptyStep \/ TrimWrite \/ Crash
  <1> USE DEF QuietStep, files, local, history
  <1>1. ASSUME LoopEnds \/ RequestFails \/ \E c \in BOOLEAN, st \in Stop : Answer(c, st) PROVE QuietStep
    BY <1>1 DEF LoopEnds, RequestFails, Answer
  <1>2. ASSUME store_session_fork \/ RunTools \/ StorePlan \/ NoAutoCompact \/ Restart PROVE QuietStep
    BY <1>2 DEF store_session_fork, RunTools, StorePlan, NoAutoCompact, Restart
  <1>3. ASSUME Decide PROVE QuietStep
    <2>1. pc' \in {"idle", "top", "end"}
      BY <1>3 DEF Decide
    <2> QED BY <1>3, <2>1 DEF Decide
  <1>4. ASSUME AutoCompact \/ PlanCompact \/ SummaryFails \/ TrimFails PROVE QuietStep
    BY <1>4 DEF AutoCompact, PlanCompact, SummaryFails, TrimFails, AfterCompact
  <1>5. ASSUME TrimTruncate PROVE QuietStep \/ EmptyStep
    BY <1>5 DEF TrimTruncate, EmptyStep, AfterCompact
  <1> QED BY <1>1, <1>2, <1>3, <1>4, <1>5, AppendSteps DEF Next

------------------------------------------------------------------------------
(* What is dropped. *)

(* What the conversation is, or will be once a trim under way is over. *)
Current == IF pc = "write" THEN data ELSE conv

(* The lines of which a summary was tried, and an archive. *)
Summed == covered \cup text \cup unsummarised
Archived == ToSet(archive) \cup unarchived

(* A line that is not in the conversation is lost, or its summary and its    *)
(* archive were tried; a cut under way drops only lines whose summary was    *)
(* tried, and, once it empties the file, whose archive was.                  *)
DropInv ==
    /\ \A i \in 1..Len(log) : i \in Numbers(Current) \cup lost \cup (Summed \cap Archived)
    /\ pc = "archive" => Numbers(Dropped) \subseteq Summed
    /\ pc = "truncate" => Numbers(Dropped) \subseteq Summed \cap Archived
    /\ pc = "summaryWrite" => covered = {} /\ Numbers(ToSummarise) \subseteq text
    /\ pc # "summaryWrite" => text = {}
    /\ covered \cap unsummarised = {}

(* The serials of part of a sequence. *)
LEMMA NumbersPart ==
    ASSUME NEW s \in Seq(Line), NEW b \in {1, 2}, NEW k \in 0..Len(s)
    PROVE  Numbers(SubSeq(s, b, k)) \subseteq Numbers(s)
  <1> DEFINE r == SubSeq(s, b, k)
  <1>1. /\ Len(s) \in Nat /\ k \in Nat /\ Len(r) \in Nat
        /\ \A i \in 1..Len(r) : r[i] = s[b + i - 1] /\ b + i - 1 \in 1..Len(s)
    OBVIOUS
  <1> HIDE DEF r
  <1>2. ASSUME NEW i \in 1..Len(r) PROVE r[i].n \in Numbers(s)
    BY <1>1 DEF Numbers
  <1>3. Numbers(r) \subseteq Numbers(s)
    BY <1>2 DEF Numbers
  <1> QED BY <1>3 DEF r

LEMMA ConcatFacts ==
    ASSUME NEW a \in Seq(Nat), NEW t \in Seq(Nat)
    PROVE  /\ a \o t \in Seq(Nat) /\ Len(a \o t) = Len(a) + Len(t)
           /\ DOMAIN (a \o t) = 1..Len(a \o t) /\ DOMAIN a = 1..Len(a)
           /\ \A i \in 1..Len(a) : (a \o t)[i] = a[i]
           /\ \A i \in 1..Len(t) : (a \o t)[Len(a) + i] = t[i]
  OBVIOUS

(* What the archive holds once lines are appended to it. *)
LEMMA ArchiveGrows ==
    ASSUME NEW a \in Seq(Nat), NEW w \in Seq(Line)
    PROVE  ToSet(a \o [i \in 1..Len(w) |-> w[i].n]) = ToSet(a) \cup Numbers(w)
  <1> DEFINE t == [i \in 1..Len(w) |-> w[i].n]
  <1>0. Len(w) \in Nat /\ \A i \in 1..Len(w) : w[i].n \in Nat
    <2>1. \A i \in 1..Len(w) : w[i] \in Line
      OBVIOUS
    <2> QED BY <2>1 DEF Line
  <1>1. /\ t \in Seq(Nat) /\ Len(t) = Len(w) /\ Len(a) \in Nat
        /\ \A i \in 1..Len(w) : t[i] = w[i].n
    BY <1>0
  <1> HIDE DEF t
  <1> DEFINE c == a \o t
  <1> HIDE DEF c
  <1>2. /\ Len(c) = Len(a) + Len(w)
        /\ DOMAIN c = 1..Len(c) /\ DOMAIN a = 1..Len(a)
        /\ \A i \in 1..Len(a) : c[i] = a[i]
        /\ \A i \in 1..Len(w) : c[Len(a) + i] = w[i].n
    <2>1. /\ Len(c) = Len(a) + Len(t)
          /\ DOMAIN c = 1..Len(c) /\ DOMAIN a = 1..Len(a)
          /\ \A i \in 1..Len(a) : c[i] = a[i]
          /\ \A i \in 1..Len(t) : c[Len(a) + i] = t[i]
      BY <1>1, ConcatFacts DEF c
    <2> QED BY <2>1, <1>1
  <1>3. ASSUME NEW i \in 1..Len(c) PROVE c[i] \in ToSet(a) \cup Numbers(w)
    <2>1. CASE i <= Len(a)
      <3>1. i \in 1..Len(a)
        BY <2>1, <1>0, <1>1, <1>2
      <3> QED BY <3>1, <1>2 DEF ToSet
    <2>2. CASE i > Len(a)
      <3>1. i - Len(a) \in 1..Len(w) /\ Len(a) + (i - Len(a)) = i
        BY <2>2, <1>0, <1>1, <1>2
      <3>2. c[i] = w[i - Len(a)].n
        BY <3>1, <1>2
      <3> QED BY <3>1, <3>2 DEF Numbers
    <2> QED BY <2>1, <2>2, <1>0, <1>1, <1>2
  <1>4. ASSUME NEW i \in 1..Len(a) PROVE a[i] \in ToSet(c)
    <2>1. i \in 1..Len(c) /\ c[i] = a[i]
      BY <1>0, <1>1, <1>2
    <2> QED BY <2>1, <1>2 DEF ToSet
  <1>5. ASSUME NEW i \in 1..Len(w) PROVE w[i].n \in ToSet(c)
    <2>1. Len(a) + i \in 1..Len(c)
      BY <1>0, <1>1, <1>2
    <2> QED BY <2>1, <1>2 DEF ToSet
  <1>6. ToSet(c) \subseteq ToSet(a) \cup Numbers(w)
    <2> SUFFICES ASSUME NEW x \in ToSet(c) PROVE x \in ToSet(a) \cup Numbers(w)
      OBVIOUS
    <2>1. PICK i \in 1..Len(c) : x = c[i]
      BY <1>2 DEF ToSet
    <2> QED BY <2>1, <1>3
  <1>7. ToSet(a) \subseteq ToSet(c)
    <2> SUFFICES ASSUME NEW x \in ToSet(a) PROVE x \in ToSet(c)
      OBVIOUS
    <2>1. PICK i \in 1..Len(a) : x = a[i]
      BY <1>2 DEF ToSet
    <2> QED BY <2>1, <1>4
  <1>8. Numbers(w) \subseteq ToSet(c)
    BY <1>5 DEF Numbers
  <1> QED BY <1>6, <1>7, <1>8 DEF c, t

(* What an append adds to the serials of the conversation. *)
LEMMA AppendNumbers ==
    ASSUME TypeOK, NEW kind \in Kind, AddLine(kind)
    PROVE  /\ Numbers(conv) \subseteq Numbers(conv') /\ lost \subseteq lost'
           /\ Len(log) + 1 \in Numbers(conv') \cup lost'
           /\ Len(log') = Len(log) + 1 /\ Len(log) \in Nat
  <1>1. Len(conv) \in Nat /\ Len(log) \in Nat /\ Len(log') = Len(log) + 1
    BY AppendFacts
  <1>2. CASE conv' = conv /\ lost' = lost \cup {Len(log) + 1}
    BY <1>1, <1>2
  <1>3. CASE \E e \in Line :
                /\ e.n = Len(log) + 1
                /\ \/ e = [kind |-> kind, n |-> Len(log) + 1] /\ lost' = lost /\ ~torn
                   \/ e.kind = "junk" /\ lost' = lost \cup {Len(log) + 1}
                /\ Len(conv') = Len(conv) + 1
                /\ \A i \in 1..Len(conv) : conv'[i] = conv[i]
                /\ conv'[Len(conv) + 1] = e
    <2>1. PICK e \in Line :
                /\ e.n = Len(log) + 1
                /\ lost \subseteq lost'
                /\ Len(conv') = Len(conv) + 1
                /\ \A i \in 1..Len(conv) : conv'[i] = conv[i]
                /\ conv'[Len(conv) + 1] = e
      BY <1>3
    <2>2. Len(conv) + 1 \in 1..Len(conv') /\ \A i \in 1..Len(conv) : i \in 1..Len(conv')
      BY <2>1, <1>1
    <2>3. Len(log) + 1 \in Numbers(conv')
      BY <2>1, <2>2 DEF Numbers
    <2>4. ASSUME NEW i \in 1..Len(conv) PROVE conv[i].n \in Numbers(conv')
      <3>1. conv'[i] = conv[i] /\ i \in 1..Len(conv')
        BY <2>1, <2>2
      <3> QED BY <3>1 DEF Numbers
    <2>5. Numbers(conv) \subseteq Numbers(conv')
      BY <2>4 DEF Numbers
    <2> QED BY <2>1, <2>3, <2>5, <1>1
  <1>4. \/ conv' = conv /\ lost' = lost \cup {Len(log) + 1}
        \/ \E e \in Line :
                /\ e.n = Len(log) + 1
                /\ \/ e = [kind |-> kind, n |-> Len(log) + 1] /\ lost' = lost /\ ~torn
                   \/ e.kind = "junk" /\ lost' = lost \cup {Len(log) + 1}
                /\ Len(conv') = Len(conv) + 1
                /\ \A i \in 1..Len(conv) : conv'[i] = conv[i]
                /\ conv'[Len(conv) + 1] = e
    BY AppendFacts
  <1> QED BY <1>2, <1>3, <1>4

(* store_conv_trim_tail gives the archive what it drops, written or not. *)
LEMMA ArchiveStep ==
    ASSUME IInv, TrimArchive
    PROVE  Archived' = Archived \cup Numbers(Dropped)
  <1>1. Dropped \in Seq(Line) /\ archive \in Seq(Nat) /\ archiveTorn \in BOOLEAN
    BY KeptIsGood DEF IInv, TypeOK, TrimArchive
  <1>2. PICK k \in 0..Len(Dropped), piece \in BOOLEAN :
           LET written == SubSeq(Dropped, IF archiveTorn THEN 2 ELSE 1, k)
           IN  /\ archive' = archive \o [i \in 1..Len(written) |-> written[i].n]
               /\ unarchived' = unarchived \cup (Numbers(Dropped) \ Numbers(written))
    BY DEF TrimArchive
  <1> DEFINE b == IF archiveTorn THEN 2 ELSE 1
             written == SubSeq(Dropped, b, k)
  <1>3. /\ archive' = archive \o [i \in 1..Len(written) |-> written[i].n]
        /\ unarchived' = unarchived \cup (Numbers(Dropped) \ Numbers(written))
    BY <1>2
  <1>4. b \in {1, 2} /\ k \in Nat /\ k <= Len(Dropped)
    BY <1>1
  <1> HIDE DEF b
  <1>5. written \in Seq(Line) /\ Numbers(written) \subseteq Numbers(Dropped)
    <2>1. written \in Seq(Line)
      BY <1>1, <1>4
    <2>2. Numbers(written) \subseteq Numbers(Dropped)
      BY <1>1, <1>4, NumbersPart
    <2> QED BY <2>1, <2>2
  <1> HIDE DEF written
  <1>6. ToSet(archive \o [i \in 1..Len(written) |-> written[i].n]) = ToSet(archive) \cup Numbers(written)
    BY <1>1, <1>5, ArchiveGrows
  <1>7. ToSet(archive)' = ToSet(archive) \cup Numbers(written)
    BY <1>3, <1>6 DEF ToSet
  <1> QED BY <1>3, <1>5, <1>7 DEF Archived

LEMMA DropInit == Init => DropInv
  BY DEF Init, DropInv

LEMMA DropNext == IInv /\ DropInv /\ [Next]_vars => DropInv'
  <1> SUFFICES ASSUME IInv, DropInv, [Next]_vars PROVE DropInv'
    OBVIOUS
  <1>t. /\ TypeOK
        /\ conv \in Seq(Line) /\ log \in Seq(Line) /\ archive \in Seq(Nat) /\ data \in Seq(Line)
        /\ Len(conv) \in Nat /\ Len(log) \in Nat /\ Len(data) \in Nat /\ keep \in Nat
        /\ pc = "write" => conv = <<>>
        /\ pc \in {"summary", "summaryWrite", "archive", "truncate"} => keep \in 0..Len(conv)
    BY DEF IInv, TypeOK, CutOK, Aligned
  <1>d. /\ \A i \in 1..Len(log) : i \in Numbers(Current) \cup lost \cup (Summed \cap Archived)
        /\ pc = "archive" => Numbers(Dropped) \subseteq Summed
        /\ pc = "truncate" => Numbers(Dropped) \subseteq Summed \cap Archived
        /\ pc = "summaryWrite" => covered = {} /\ Numbers(ToSummarise) \subseteq text
        /\ pc # "summaryWrite" => text = {}
        /\ covered \cap unsummarised = {}
    BY DEF DropInv
  <1>0. ASSUME log' = log,
               Numbers(Current) \cup lost \subseteq (Numbers(Current) \cup lost)',
               Summed \subseteq Summed', Archived \subseteq Archived'
        PROVE  (\A i \in 1..Len(log) : i \in Numbers(Current) \cup lost \cup (Summed \cap Archived))'
    BY <1>0, <1>d
  <1>1. CASE UNCHANGED vars
    <2>1. /\ UNCHANGED <<conv, archive, covered, text, log, unarchived, unsummarised, lost, data, keep>>
          /\ pc' = pc
      BY <1>1 DEF vars, files, local, history
    <2>2. /\ Current' = Current /\ Summed' = Summed /\ Archived' = Archived
          /\ Dropped' = Dropped /\ ToSummarise' = ToSummarise
      BY <2>1 DEF Current, Summed, Archived, Dropped, ToSummarise
    <2> QED BY <2>1, <2>2, <1>d DEF DropInv, Numbers
  <1>2. CASE QuietStep
    <2>1. /\ UNCHANGED <<conv, archive, covered, text, log, unarchived, unsummarised, lost>>
          /\ pc \notin {"summaryWrite", "write"}
          /\ pc' \notin {"summaryWrite", "archive", "truncate", "write"}
      BY <1>2 DEF QuietStep
    <2> QED BY <2>1, <1>d DEF DropInv, Current, Summed, Archived, Numbers
  <1>3. CASE \E kind \in Kind : AppendStep(kind)
    <2>1. PICK kind \in Kind : AppendStep(kind)
      BY <1>3
    <2>2. /\ Numbers(conv) \subseteq Numbers(conv') /\ lost \subseteq lost'
          /\ Len(log) + 1 \in Numbers(conv') \cup lost'
          /\ Len(log') = Len(log) + 1
      BY <2>1, <1>t, AppendNumbers DEF AppendStep
    <2>3. /\ UNCHANGED <<archive, covered, text, unarchived, unsummarised>>
          /\ pc \notin Cutting /\ pc' \notin Cutting
      BY <2>1 DEF AppendStep, others, local
    <2>4. Current = conv /\ Current' = conv' /\ Summed' = Summed /\ Archived' = Archived
      BY <2>3 DEF Current, Cutting, Summed, Archived
    <2>5. ASSUME NEW i \in 1..Len(log')
          PROVE  i \in Numbers(conv') \cup lost' \cup (Summed \cap Archived)
      <3>1. i \in 1..Len(log) \/ i = Len(log) + 1
        <4>1. i \in 1..(Len(log) + 1)
          BY <2>2
        <4> QED BY <4>1, <1>t
      <3> QED BY <3>1, <2>2, <2>4, <1>d
    <2>6. (\A i \in 1..Len(log) : i \in Numbers(Current) \cup lost \cup (Summed \cap Archived))'
      BY <2>4, <2>5 DEF Numbers
    <2> QED BY <2>3, <2>6, <1>d DEF DropInv, Cutting
  <1>4. CASE store_summary_set
    <2>1. /\ UNCHANGED <<conv, archive, log, unarchived, lost>> /\ pc = "summary" /\ text = {}
      BY <1>4, <1>d DEF store_summary_set
    <2> DEFINE X == Numbers(ToSummarise)
    <2>2. CASE /\ text' \in {covered \cup X, X} /\ covered' = {}
               /\ unsummarised' = unsummarised \cup (covered \ text')
               /\ pc' = "summaryWrite" /\ keep' = keep
      <3>1. Summed \subseteq Summed' /\ Archived' = Archived /\ Current' = conv /\ Current = conv
        BY <2>1, <2>2 DEF Summed, Archived, Current
      <3>2. X' = X /\ X \subseteq text'
        BY <2>1, <2>2 DEF ToSummarise, Numbers
      <3>3. (\A i \in 1..Len(log) : i \in Numbers(Current) \cup lost \cup (Summed \cap Archived))'
        BY <3>1, <2>1, <1>0 DEF Numbers
      <3> QED BY <2>2, <3>2, <3>3 DEF DropInv
    <2>3. CASE /\ unsummarised' = unsummarised \cup (X \ covered) /\ Trim
               /\ UNCHANGED <<covered, text>>
      <3>1. (pc' = "archive" /\ keep' = keep) \/ pc' \in {"request", "planStore"}
        BY <2>3 DEF Trim, AfterCompact
      <3>2. Summed \subseteq Summed' /\ X \subseteq Summed' /\ Archived' = Archived
            /\ Current' = conv /\ Current = conv
        BY <2>1, <2>3, <3>1 DEF Summed, Archived, Current
      <3>3. pc' = "archive" => Numbers(Dropped)' = X
        BY <2>1, <3>1 DEF Dropped, ToSummarise, Numbers
      <3>4. (\A i \in 1..Len(log) : i \in Numbers(Current) \cup lost \cup (Summed \cap Archived))'
        BY <3>2, <2>1, <1>0 DEF Numbers
      <3>5. covered' \cap unsummarised' = {} /\ text' = {}
        BY <2>1, <2>3, <1>d
      <3> QED BY <3>1, <3>2, <3>3, <3>4, <3>5 DEF DropInv
    <2> QED BY <1>4, <2>2, <2>3 DEF store_summary_set
  <1>5. CASE SummaryWrite
    <2>1. /\ UNCHANGED <<conv, archive, log, unarchived, lost>> /\ pc = "summaryWrite"
          /\ covered = {} /\ Numbers(ToSummarise) \subseteq text
          /\ text' = {} /\ Trim
          /\ \/ covered' = text /\ unsummarised' = unsummarised \ text
             \/ covered' = {} /\ unsummarised' = unsummarised \cup text
      BY <1>5, <1>d DEF SummaryWrite
    <2>2. (pc' = "archive" /\ keep' = keep) \/ pc' \in {"request", "planStore"}
      BY <2>1 DEF Trim, AfterCompact
    <2>3. /\ Summed \subseteq Summed' /\ Numbers(ToSummarise) \subseteq Summed' /\ Archived' = Archived
          /\ Current' = conv /\ Current = conv
      BY <2>1, <2>2 DEF Summed, Archived, Current
    <2>4. pc' = "archive" => Numbers(Dropped)' = Numbers(ToSummarise)
      BY <2>1, <2>2 DEF Dropped, ToSummarise, Numbers
    <2>5. (\A i \in 1..Len(log) : i \in Numbers(Current) \cup lost \cup (Summed \cap Archived))'
      BY <2>3, <2>1, <1>0 DEF Numbers
    <2>6. covered' \cap unsummarised' = {}
      BY <2>1
    <2> QED BY <2>1, <2>2, <2>3, <2>4, <2>5, <2>6 DEF DropInv
  <1>6. CASE TrimArchive
    <2>1. /\ UNCHANGED <<conv, covered, text, log, lost, keep, unsummarised>>
          /\ pc = "archive" /\ pc' = "truncate"
      BY <1>6 DEF TrimArchive
    <2>2. Archived' = Archived \cup Numbers(Dropped)
      BY <1>6, <1>t, ArchiveStep DEF IInv
    <2>3. Summed' = Summed /\ Current' = conv /\ Current = conv
      BY <2>1 DEF Summed, Current
    <2>4. Numbers(Dropped)' = Numbers(Dropped)
      BY <2>1 DEF Dropped, Numbers
    <2>5. (\A i \in 1..Len(log) : i \in Numbers(Current) \cup lost \cup (Summed \cap Archived))'
      BY <2>1, <2>2, <2>3, <1>0 DEF Numbers
    <2> QED BY <2>1, <2>2, <2>3, <2>4, <2>5, <1>d DEF DropInv
  <1>7. CASE EmptyStep
    <2>1. /\ UNCHANGED <<archive, covered, text, log, unarchived, unsummarised, lost, data>>
          /\ pc = "truncate" /\ pc' = "write"
      BY <1>7 DEF EmptyStep, TrimTruncate, history, AfterCompact
    <2>2. Summed' = Summed /\ Archived' = Archived /\ Current' = data /\ Current = conv
      BY <2>1 DEF Summed, Archived, Current
    <2>3. Numbers(conv) = Numbers(Dropped) \cup Numbers(data)
      <3>1. data = Kept /\ Len(conv) - keep \in 0..Len(conv)
        BY <2>1, <1>t DEF IInv, CutOK
      <3> DEFINE k == Len(conv) - keep
      <3>2. Numbers(conv) = Numbers(SubSeq(conv, 1, k)) \cup Numbers(SubSeq(conv, k + 1, Len(conv)))
        BY <3>1, <1>t, NumbersSplit
      <3> QED BY <3>1, <3>2 DEF Kept, Dropped
    <2>4. \A i \in 1..Len(log) : i \in Numbers(data) \cup lost \cup (Summed \cap Archived)
      BY <2>1, <2>2, <2>3, <1>d
    <2>5. (\A i \in 1..Len(log) : i \in Numbers(Current) \cup lost \cup (Summed \cap Archived))'
      BY <2>1, <2>2, <2>4 DEF Numbers
    <2> QED BY <2>1, <2>5, <1>d DEF DropInv
  <1>8. CASE TrimWrite
    <2>1. /\ UNCHANGED <<archive, covered, text, log, unarchived, unsummarised>>
          /\ pc = "write" /\ pc' \in {"request", "planStore"}
      BY <1>8 DEF TrimWrite, AfterCompact
    <2>2. Summed' = Summed /\ Archived' = Archived /\ Current' = conv' /\ Current = data
      BY <2>1 DEF Summed, Archived, Current
    <2>3. Numbers(data) \cup lost \subseteq Numbers(conv') \cup lost'
      <3>1. CASE conv' = data /\ lost' = lost
        BY <3>1
      <3>2. CASE \E k \in 0..Len(data) :
                   /\ conv' = SubSeq(data, 1, k)
                   /\ lost' = lost \cup Numbers(SubSeq(data, k + 1, Len(data)))
        BY <3>2, <1>t, NumbersSplit
      <3> QED BY <1>8, <3>1, <3>2 DEF TrimWrite
    <2>4. (\A i \in 1..Len(log) : i \in Numbers(Current) \cup lost \cup (Summed \cap Archived))'
      BY <2>1, <2>2, <2>3, <1>0 DEF Numbers
    <2> QED BY <2>1, <2>4, <1>d DEF DropInv
  <1>9. CASE Crash
    <2>1. /\ UNCHANGED <<conv, archive, covered, log, unarchived>> /\ pc' = "off"
          /\ text' = {} /\ unsummarised' = unsummarised \cup text
          /\ lost' = IF pc = "write" THEN lost \cup Numbers(data) ELSE lost
      BY <1>9 DEF Crash
    <2>2. Summed' = Summed /\ Archived' = Archived /\ Current' = conv
      BY <2>1 DEF Summed, Archived, Current
    <2>3. Numbers(Current) \cup lost \subseteq Numbers(conv) \cup lost'
      BY <2>1 DEF Current
    <2>4. (\A i \in 1..Len(log) : i \in Numbers(Current) \cup lost \cup (Summed \cap Archived))'
      BY <2>1, <2>2, <2>3, <1>0 DEF Numbers
    <2>5. covered' \cap unsummarised' = {}
      BY <2>1, <1>d
    <2> QED BY <2>1, <2>4, <2>5 DEF DropInv
  <1> QED BY <1>1, <1>2, <1>3, <1>4, <1>5, <1>6, <1>7, <1>8, <1>9, StepKinds

(* Whatever becomes of the writes, a line is in the conversation or the      *)
(* archive, or it was handed to the archive in vain, or a write of the       *)
(* conversation itself was cut short; and it leaves the conversation only    *)
(* once its summary was tried.                                               *)
THEOREM NothingForgotten == Spec => [](HistoryKept /\ SummaryCovers)
  <1>1. IInv /\ DropInv => HistoryKept /\ SummaryCovers
    <2> SUFFICES ASSUME IInv, DropInv PROVE HistoryKept /\ SummaryCovers
      OBVIOUS
    <2>1. Numbers(Current) \subseteq Held
      BY DEF Current, Held
    <2>2. \A i \in 1..Len(log) : i \in Numbers(Current) \cup lost \cup (Summed \cap Archived)
      BY DEF DropInv
    <2> QED BY <2>1, <2>2 DEF HistoryKept, SummaryCovers, Summed, Archived
  <1> QED BY <1>1, InitIInv, NextIInv, DropInit, DropNext, PTL DEF Spec

(* Its part about the files: every line that was said is in the conversation *)
(* or the archive, but for those the archive could not be given and those a  *)
(* broken append or a broken write of store_conv_trim_tail took away.        *)
THEOREM LinesKept == Spec => []HistoryKept
  BY NothingForgotten, PTL

(* Its part about the summary: what left the conversation is accounted for   *)
(* by the stored summary, but for the lines of a summary whose write failed  *)
(* or that was lost when store_summary_set replaced it.                      *)
THEOREM LinesSummarised == Spec => []SummaryCovers
  BY NothingForgotten, PTL

------------------------------------------------------------------------------
(* The transcript. *)

LEMMA TranscriptInit == Init => Abstract!TInit
  <1> SUFFICES ASSUME Init PROVE Abstract!TInit
    OBVIOUS
  <1>1. ToSet(archive) \cup unarchived = {}
    BY DEF Init, ToSet
  <1> QED BY <1>1 DEF Init, Abstract!TInit

(* The serials of the lines behind the first k. *)
LEMMA NumbersRest ==
    ASSUME NEW s \in Seq(Line), NEW k \in 0..Len(s)
    PROVE  Numbers(SubSeq(s, k + 1, Len(s))) = {s[i].n : i \in (k + 1)..Len(s)}
  <1> DEFINE r == SubSeq(s, k + 1, Len(s))
  <1>1. /\ Len(s) \in Nat /\ k \in Nat /\ k <= Len(s)
        /\ Len(r) = Len(s) - k /\ \A i \in 1..(Len(s) - k) : r[i] = s[k + i]
    OBVIOUS
  <1> HIDE DEF r
  <1>2. ASSUME NEW i \in 1..Len(r) PROVE k + i \in (k + 1)..Len(s) /\ r[i] = s[k + i]
    BY <1>1
  <1>3. ASSUME NEW i \in (k + 1)..Len(s) PROVE i - k \in 1..Len(r) /\ r[i - k] = s[i]
    <2>1. i - k \in 1..(Len(s) - k) /\ k + (i - k) = i
      BY <1>1
    <2> QED BY <2>1, <1>1
  <1>4. Numbers(r) \subseteq {s[i].n : i \in (k + 1)..Len(s)}
    BY <1>2 DEF Numbers
  <1>5. {s[i].n : i \in (k + 1)..Len(s)} \subseteq Numbers(r)
    BY <1>3 DEF Numbers
  <1> QED BY <1>4, <1>5 DEF r

(* And of the first k. *)
LEMMA NumbersFirst ==
    ASSUME NEW s \in Seq(Line), NEW k \in 0..Len(s)
    PROVE  Numbers(SubSeq(s, 1, k)) = {s[i].n : i \in 1..k}
  <1>1. Len(SubSeq(s, 1, k)) = k /\ \A i \in 1..k : SubSeq(s, 1, k)[i] = s[i]
    BY PrefixFacts
  <1> QED BY <1>1 DEF Numbers

(* The lines in front of a cut under way: in front of a user line. *)
LEMMA CutFacts ==
    ASSUME IInv, pc \in {"summary", "archive", "truncate"}
    PROVE  /\ Len(conv) - keep \in 0..Len(conv)
           /\ Abstract!Cut(Len(conv) - keep)
           /\ Abstract!First(Len(conv) - keep) = Numbers(Dropped)
           /\ Dropped = ToSummarise
  <1>1. /\ conv \in Seq(Line) /\ Len(conv) \in Nat /\ keep \in 0..Len(conv)
        /\ IF keep = 0 THEN \A i \in 1..Len(conv) : conv[i].kind # "user"
                       ELSE conv[Len(conv) - keep + 1].kind = "user"
    BY DEF IInv, TypeOK, CutOK, Aligned
  <1>2. Len(conv) - keep \in 0..Len(conv) /\ (Len(conv) - keep < Len(conv) <=> keep # 0)
    BY <1>1
  <1>3. Abstract!Cut(Len(conv) - keep)
    BY <1>1, <1>2 DEF Abstract!Cut
  <1>4. Numbers(Dropped) = {conv[i].n : i \in 1..(Len(conv) - keep)}
    BY <1>1, <1>2, NumbersFirst DEF Dropped
  <1> QED BY <1>2, <1>3, <1>4 DEF Abstract!First, Dropped, ToSummarise

LEMMA AppendIsSay ==
    ASSUME IInv, NEW kind \in Kind, AppendStep(kind)
    PROVE  Abstract!Say(kind) \/ Abstract!SayInVain(kind)
  <1>1. /\ UNCHANGED <<archive, covered, text, unarchived, unsummarised>>
        /\ pc # "write" /\ pc' # "write"
        /\ kind = "results" => log # <<>> /\ log[Len(log)].kind = "call"
        /\ conv = <<>> => kind = "user" \/ Headless(Len(log))
        /\ AddLine(kind)
    BY DEF AppendStep, others, local, Cutting
  <1>2. log' = Append(log, [kind |-> kind, n |-> Len(log) + 1])
    BY <1>1 DEF AddLine
  <1>3. \/ conv' = conv /\ lost' = lost \cup {Len(log) + 1}
        \/ conv' = Append(conv, [kind |-> kind, n |-> Len(log) + 1]) /\ lost' = lost
        \/ conv' = Append(conv, [kind |-> "junk", n |-> Len(log) + 1]) /\ lost' = lost \cup {Len(log) + 1}
    <2>1. CASE torn
      BY <2>1, <1>1 DEF AddLine
    <2>2. CASE ~torn
      BY <2>2, <1>1 DEF AddLine
    <2> QED BY <2>1, <2>2
  <1>4. UNCHANGED <<covered \cup text, unsummarised \ text, ToSet(archive) \cup unarchived>>
    BY <1>1
  <1>5. CASE conv' = conv /\ lost' = lost \cup {Len(log) + 1}
    BY <1>1, <1>2, <1>4, <1>5 DEF Abstract!SayInVain
  <1>6. CASE conv' = Append(conv, [kind |-> "junk", n |-> Len(log) + 1]) /\ lost' = lost \cup {Len(log) + 1}
    BY <1>1, <1>2, <1>4, <1>6 DEF Abstract!SayInVain
  <1>7. CASE conv' = Append(conv, [kind |-> kind, n |-> Len(log) + 1]) /\ lost' = lost
    <2>1. conv = <<>> => kind = "user" \/ Abstract!HeadLost
      BY <1>1 DEF Headless, Abstract!HeadLost
    <2> QED BY <1>1, <1>2, <1>4, <1>7, <2>1 DEF Abstract!Say
  <1> QED BY <1>3, <1>5, <1>6, <1>7

(* Every step is a step of the transcript, or changes nothing in it. *)
LEMMA TranscriptNext ==
    IInv /\ DropInv /\ [Next]_vars => [Abstract!TNext]_(Abstract!tvars)
  <1> SUFFICES ASSUME IInv, DropInv, [Next]_vars
               PROVE  Abstract!TNext \/ UNCHANGED Abstract!tvars
    OBVIOUS
  <1>t. /\ conv \in Seq(Line) /\ data \in Seq(Line) /\ Len(conv) \in Nat /\ Len(data) \in Nat
        /\ pc = "write" => conv = <<>>
    BY DEF IInv, TypeOK, CutOK
  <1>d. /\ pc = "archive" => Numbers(Dropped) \subseteq Summed
        /\ pc = "truncate" => Numbers(Dropped) \subseteq Summed \cap Archived
        /\ pc = "summaryWrite" => covered = {}
        /\ pc # "summaryWrite" => text = {}
    BY DEF DropInv
  <1>0. ASSUME UNCHANGED <<log, Current, covered, text, unsummarised, archive, unarchived, lost>>
        PROVE  UNCHANGED Abstract!tvars
    BY <1>0 DEF Current, Abstract!tvars
  <1>1. CASE UNCHANGED vars
    BY <1>0, <1>1 DEF vars, files, local, history, Current
  <1>2. CASE QuietStep
    BY <1>0, <1>2 DEF QuietStep, Current
  <1>3. CASE \E kind \in Kind : AppendStep(kind)
    BY <1>3, AppendIsSay DEF Abstract!TNext
  <1>4. CASE store_summary_set
    <2>1. /\ UNCHANGED <<conv, archive, log, unarchived, lost>> /\ pc = "summary" /\ text = {}
      BY <1>4, <1>d DEF store_summary_set
    <2> DEFINE n == Len(conv) - keep
               X == Numbers(ToSummarise)
    <2>2. n \in 0..Len(conv) /\ Abstract!Cut(n) /\ Abstract!First(n) = X
      BY <2>1, CutFacts
    <2> HIDE DEF n, X
    <2>3. CASE /\ text' \in {covered \cup X, X} /\ covered' = {}
               /\ unsummarised' = unsummarised \cup (covered \ text')
               /\ pc' = "summaryWrite"
      <3>1. PICK old \in {covered \cup text, {}} : text' = old \cup X
        BY <2>1, <2>3
      <3>2. (covered \cup text)' = old \cup X
        BY <2>3, <3>1
      <3>3. (unsummarised \ text)' = ((unsummarised \ text) \cup (covered \cup text)) \ (covered \cup text)'
        BY <2>1, <2>3
      <3>4. Abstract!Summarise(n)
        BY <2>1, <2>2, <2>3, <3>1, <3>2, <3>3 DEF Abstract!Summarise
      <3> QED BY <2>1, <2>2, <3>4 DEF Abstract!TNext
    <2>4. CASE /\ unsummarised' = unsummarised \cup (X \ covered) /\ Trim
               /\ UNCHANGED <<covered, text>>
      <3>1. pc' # "write"
        BY <2>4 DEF Trim, AfterCompact
      <3>2. /\ (unsummarised \ text)' = (unsummarised \ text) \cup (X \ (covered \cup text))
            /\ UNCHANGED (covered \cup text)
        BY <2>1, <2>4
      <3>3. Abstract!Miss(n)
        BY <2>1, <2>2, <3>1, <3>2 DEF Abstract!Miss
      <3> QED BY <2>1, <2>2, <3>3 DEF Abstract!TNext
    <2> QED BY <1>4, <2>3, <2>4 DEF store_summary_set, X
  <1>5. CASE SummaryWrite
    <2>1. /\ UNCHANGED <<conv, archive, log, unarchived, lost>> /\ pc = "summaryWrite" /\ covered = {}
          /\ pc' # "write" /\ text' = {}
      BY <1>5, <1>d DEF SummaryWrite, Trim, AfterCompact
    <2>2. CASE covered' = text /\ unsummarised' = unsummarised \ text
      <3>1. UNCHANGED <<covered \cup text, unsummarised \ text>>
        BY <2>1, <2>2
      <3> QED BY <2>1, <3>1 DEF Abstract!tvars
    <2>3. CASE covered' = {} /\ unsummarised' = unsummarised \cup text
      <3>1. /\ (covered \cup text)' = {}
            /\ (unsummarised \ text)' = (unsummarised \ text) \cup (covered \cup text)
        BY <2>1, <2>3
      <3>2. Abstract!LoseSummary
        BY <2>1, <3>1 DEF Abstract!LoseSummary
      <3> QED BY <3>2 DEF Abstract!TNext
    <2> QED BY <1>5, <2>2, <2>3 DEF SummaryWrite
  <1>6. CASE TrimArchive
    <2>1. /\ UNCHANGED <<conv, covered, text, log, lost, unsummarised>>
          /\ pc = "archive" /\ pc' = "truncate" /\ text = {}
      BY <1>6, <1>d DEF TrimArchive
    <2> DEFINE n == Len(conv) - keep
    <2>2. n \in 0..Len(conv) /\ Abstract!First(n) = Numbers(Dropped)
      BY <2>1, CutFacts
    <2> HIDE DEF n
    <2>3. (ToSet(archive) \cup unarchived)' = (ToSet(archive) \cup unarchived) \cup Numbers(Dropped)
      BY <1>6, ArchiveStep DEF Archived
    <2>4. Numbers(Dropped) \subseteq (covered \cup text) \cup (unsummarised \ text)
      BY <2>1, <1>d DEF Summed
    <2>5. Abstract!HandOver(n)
      BY <2>1, <2>2, <2>3, <2>4 DEF Abstract!HandOver
    <2> QED BY <2>1, <2>2, <2>5 DEF Abstract!TNext
  <1>7. CASE EmptyStep
    <2>1. /\ UNCHANGED <<archive, covered, text, log, unarchived, unsummarised, lost, data>>
          /\ pc = "truncate" /\ pc' = "write" /\ text = {}
      BY <1>7, <1>d DEF EmptyStep, TrimTruncate, history, AfterCompact
    <2> DEFINE n == Len(conv) - keep
    <2>2. n \in 0..Len(conv) /\ Abstract!Cut(n) /\ Abstract!First(n) = Numbers(Dropped)
      BY <2>1, CutFacts
    <2>3. data = SubSeq(conv, n + 1, Len(conv))
      BY <2>1 DEF IInv, CutOK, Kept
    <2> HIDE DEF n
    <2>4. /\ Numbers(Dropped) \subseteq (covered \cup text) \cup (unsummarised \ text)
          /\ Numbers(Dropped) \subseteq ToSet(archive) \cup unarchived
      BY <2>1, <1>d DEF Summed, Archived
    <2>5. Abstract!Forget(n)
      BY <2>1, <2>2, <2>3, <2>4 DEF Abstract!Forget
    <2> QED BY <2>1, <2>2, <2>5 DEF Abstract!TNext
  <1>8. CASE TrimWrite
    <2>1. /\ UNCHANGED <<archive, covered, text, log, unarchived, unsummarised>>
          /\ pc = "write" /\ pc' \in {"request", "planStore"}
      BY <1>8 DEF TrimWrite, AfterCompact
    <2>2. CASE conv' = data /\ lost' = lost
      BY <1>0, <2>1, <2>2 DEF Current
    <2>3. CASE \E k \in 0..Len(data) :
                  /\ conv' = SubSeq(data, 1, k)
                  /\ lost' = lost \cup Numbers(SubSeq(data, k + 1, Len(data)))
      <3>1. PICK k \in 0..Len(data) :
                  /\ conv' = SubSeq(data, 1, k)
                  /\ lost' = lost \cup Numbers(SubSeq(data, k + 1, Len(data)))
        BY <2>3
      <3>2. lost' = lost \cup {data[i].n : i \in (k + 1)..Len(data)}
        BY <3>1, <1>t, NumbersRest
      <3>3. Abstract!Lose(k)
        BY <2>1, <3>1, <3>2 DEF Abstract!Lose
      <3> QED BY <2>1, <3>3 DEF Abstract!TNext
    <2> QED BY <1>8, <2>2, <2>3 DEF TrimWrite
  <1>9. CASE Crash
    <2>1. /\ UNCHANGED <<conv, archive, covered, log, unarchived>> /\ pc' = "off"
          /\ text' = {} /\ unsummarised' = unsummarised \cup text
          /\ lost' = IF pc = "write" THEN lost \cup Numbers(data) ELSE lost
      BY <1>9 DEF Crash
    <2>2. CASE pc = "write"
      <3>1. 0 \in 0..Len(data) /\ SubSeq(data, 1, 0) = <<>>
        BY <1>t
      <3>2. Numbers(data) = {data[i].n : i \in (0 + 1)..Len(data)}
        BY DEF Numbers
      <3>3. UNCHANGED <<covered \cup text, unsummarised \ text>>
        BY <2>1, <2>2, <1>d
      <3>4. Abstract!Lose(0)
        BY <2>1, <2>2, <3>1, <3>2, <3>3, <1>t DEF Abstract!Lose
      <3> QED BY <2>2, <3>1, <3>4 DEF Abstract!TNext
    <2>3. CASE pc = "summaryWrite"
      <3>1. /\ (covered \cup text)' = {}
            /\ (unsummarised \ text)' = (unsummarised \ text) \cup (covered \cup text)
        BY <2>1, <2>3, <1>d
      <3>2. Abstract!LoseSummary
        BY <2>1, <2>3, <3>1 DEF Abstract!LoseSummary
      <3> QED BY <3>2 DEF Abstract!TNext
    <2>4. CASE pc \notin {"write", "summaryWrite"}
      <3>1. UNCHANGED <<log, Current, covered, text, unsummarised, archive, unarchived, lost>>
        BY <2>1, <2>4, <1>d DEF Current
      <3> QED BY <1>0, <3>1
    <2> QED BY <2>2, <2>3, <2>4
  <1> QED BY <1>1, <1>2, <1>3, <1>4, <1>5, <1>6, <1>7, <1>8, <1>9, StepKinds

(* A compaction in its six file operations, with failures and crashes between *)
(* and inside them, forgets whole turns at once, after their summary was      *)
(* written or missed and their archive tried; broken writes take the end of   *)
(* the conversation, the summary or the line they write, and nothing else;    *)
(* the rest of agent_loop only ever adds a line.                              *)
THEOREM SessionIsTranscript == Spec => ImplementsTranscript
  BY TranscriptInit, TranscriptNext, InitIInv, NextIInv, DropInit, DropNext, PTL
     DEF Spec, ImplementsTranscript, Abstract!TSpec

------------------------------------------------------------------------------
(* What is answered and recorded. *)

(* Where the calls of the current answer run, and where none do. *)
RunOK ==
    /\ pc \in {"off", "idle", "top", "request", "end"} => ~answer.ran
    /\ pc \in {"tools", "plan", "planStore", "results"} => answer.ran
    /\ pc \in {"plan", "planStore"} => trigger # "auto"
    /\ pc \in Cutting => (answer.ran <=> trigger # "auto")

RunInv == RunOK /\ RunsRecorded

ResultLines(s) == {i \in 1..Len(s) : s[i].kind = "results"}

LEMMA SubsetsFinite ==
    ASSUME NEW s \in Seq(Line)
    PROVE  /\ IsFiniteSet(ResultLines(s)) /\ Cardinality(ResultLines(s)) \in Nat
           /\ IsFiniteSet(Unanswered(s)) /\ Cardinality(Unanswered(s)) \in Nat
  <1>1. IsFiniteSet(1..Len(s))
    BY FS_Interval
  <1>2. ResultLines(s) \in SUBSET (1..Len(s)) /\ Unanswered(s) \in SUBSET (1..Len(s))
    BY DEF ResultLines, Unanswered
  <1> QED BY <1>1, <1>2, FS_Subset, FS_CardinalityType

(* What a new line does to the number of results. *)
LEMMA AppendCounts ==
    ASSUME TypeOK, NEW kind \in Kind, AddLine(kind)
    PROVE  Cardinality(ResultLines(log')) =
               Cardinality(ResultLines(log)) + (IF kind = "results" THEN 1 ELSE 0)
  <1> DEFINE n == Len(log) + 1
  <1>1. /\ log \in Seq(Line) /\ Len(log) \in Nat /\ Len(log') = Len(log) + 1
        /\ \A i \in 1..Len(log) : log'[i] = log[i]
        /\ log'[Len(log) + 1].kind = kind
    <2>1. /\ log \in Seq(Line) /\ Len(log) \in Nat /\ Len(log') = Len(log) + 1
          /\ \A i \in 1..Len(log) : log'[i] = log[i]
          /\ log'[Len(log) + 1] = [kind |-> kind, n |-> Len(log) + 1]
      BY AppendFacts
    <2> QED BY <2>1
  <1>f. IsFiniteSet(ResultLines(log)) /\ Cardinality(ResultLines(log)) \in Nat
    BY <1>1, SubsetsFinite
  <1>2. n \notin ResultLines(log)
    BY <1>1 DEF ResultLines
  <1>3. CASE kind = "results"
    <2>1. ResultLines(log') = ResultLines(log) \cup {n}
      BY <1>1, <1>3 DEF ResultLines
    <2> HIDE DEF n
    <2>2. Cardinality(ResultLines(log) \cup {n}) = Cardinality(ResultLines(log)) + 1
      BY <1>f, <1>2, FS_AddElement
    <2> QED BY <1>3, <2>1, <2>2
  <1>4. CASE kind # "results"
    <2>1. ResultLines(log') = ResultLines(log)
      BY <1>1, <1>4 DEF ResultLines
    <2> QED BY <1>f, <1>4, <2>1
  <1> QED BY <1>3, <1>4

LEMMA RunInit == Init => RunInv
  <1> SUFFICES ASSUME Init PROVE RunInv
    OBVIOUS
  <1>1. {i \in 1..Len(log) : log[i].kind = "results"} = {}
    BY DEF Init
  <1>2. RunsRecorded
    BY <1>1, FS_EmptySet DEF Init, RunsRecorded, NoAnswer
  <1> QED BY <1>2 DEF RunInv, RunOK, Init, NoAnswer, Cutting

(* A batch is counted when it has run; its results are saved before the next *)
(* request, on every way there.                                              *)
LEMMA RunNext == IInv /\ RunInv /\ [Next]_vars => RunInv'
  <1> SUFFICES ASSUME IInv, RunInv, [Next]_vars PROVE RunInv'
    OBVIOUS
  <1> USE DEF Cutting
  <1> DEFINE count == Cardinality(ResultLines(log))
             open == IF answer.ran /\ pc \notin {"tools", "decide"} THEN 1 ELSE 0
  <1>t. TypeOK /\ count \in Nat /\ ran \in Nat /\ crashes \in Nat /\ RunOK
    BY SubsetsFinite DEF IInv, TypeOK, RunInv
  <1>r. /\ RunsRecorded <=> (crashes = 0 => ran = count + open)
        /\ RunsRecorded' <=> (crashes' = 0 => ran' = count' + open')
    BY DEF RunsRecorded, ResultLines
  <1>c. (crashes = 0 => ran = count + open) /\ RunOK
    BY <1>r DEF RunInv
  <1>1. CASE UNCHANGED vars
    BY <1>1, <1>c, <1>r DEF vars, files, local, history, RunInv, RunOK
  <1>2. CASE SaveResults
    <2>1. AddLine("results") /\ "results" \in Kind
      BY <1>2 DEF SaveResults, store_conv_add_tool_results, Kind
    <2>2. count' = count + 1
      BY <2>1, <1>t, AppendCounts
    <2> HIDE DEF count
    <2> QED BY <1>2, <1>c, <1>t, <1>r, <2>2 DEF SaveResults, others, local, RunInv, RunOK
  <1>3. CASE Save
    <2> DEFINE kind == IF answer.ran THEN "call" ELSE "text"
    <2>1. AddLine(kind) /\ kind \in Kind /\ kind # "results"
      BY <1>3 DEF Save, store_conv_add_assistant, Kind
    <2>2. count' = count
      <3> HIDE DEF kind
      <3> QED BY <1>t, <2>1, AppendCounts
    <2> HIDE DEF count, kind
    <2> QED BY <1>3, <1>c, <1>t, <1>r, <2>2 DEF Save, others, local, RunInv, RunOK
  <1>4. CASE LoopStart \/ Drain \/ DrainAtEnd
    <2>1. AddLine("user") /\ "user" \in Kind
      BY <1>4 DEF LoopStart, Drain, DrainAtEnd, store_conv_add_user, Kind
    <2>2. count' = count
      BY <1>t, <2>1, AppendCounts
    <2> HIDE DEF count
    <2> QED BY <1>4, <1>c, <1>t, <1>r, <2>2 DEF LoopStart, Drain, DrainAtEnd, others, local, RunInv, RunOK
  <1>5. CASE RunTools
    <2>1. log' = log
      BY <1>5 DEF RunTools
    <2> QED BY <1>5, <1>c, <1>t, <1>r, <2>1 DEF RunTools, RunInv, RunOK
  <1>6. CASE Crash
    BY <1>6, <1>t, <1>r DEF Crash, NoAnswer, RunInv, RunOK
  <1>7. CASE Decide
    <2>1. /\ pc = "decide" /\ pc' \in {"idle", "top", "end"} /\ answer'.ran = FALSE
          /\ log' = log /\ ran' = ran /\ crashes' = crashes
      BY <1>7 DEF Decide, NoAnswer
    <2> QED BY <1>c, <1>r, <2>1 DEF RunInv, RunOK
  <1>8. CASE LoopEnds \/ RequestFails
    BY <1>8, <1>c, <1>t, <1>r DEF LoopEnds, RequestFails, local, history, RunInv, RunOK
  <1>11. CASE \E c \in BOOLEAN, st \in Stop : Answer(c, st)
    <2>1. PICK c \in BOOLEAN, st \in Stop : Answer(c, st)
      BY <1>11
    <2>2. /\ pc = "request" /\ log' = log /\ ran' = ran /\ crashes' = crashes
          /\ IF answer'.ran THEN pc' = "tools" ELSE pc' = "save"
      BY <2>1 DEF Answer
    <2> HIDE DEF count
    <2> QED BY <1>c, <1>t, <1>r, <2>2 DEF RunInv, RunOK, count
  <1>9. CASE store_session_fork \/ StorePlan \/ NoAutoCompact \/ AutoCompact \/ PlanCompact \/ Restart
    BY <1>9, <1>c, <1>t, <1>r DEF store_session_fork, StorePlan, NoAutoCompact, AutoCompact, PlanCompact,
                                  Restart, local, history, RunInv, RunOK
  <1>10. CASE \/ SummaryFails \/ store_summary_set \/ SummaryWrite \/ TrimFails
              \/ TrimArchive \/ TrimTruncate \/ TrimWrite
    <2>1. /\ log' = log /\ ran' = ran /\ crashes' = crashes /\ answer' = answer /\ trigger' = trigger
          /\ pc \in Cutting
          /\ pc' \in Cutting \/ pc' = IF trigger = "auto" THEN "request" ELSE "planStore"
      BY <1>10 DEF SummaryFails, store_summary_set, SummaryWrite, TrimFails, TrimArchive, TrimTruncate,
                   TrimWrite, Trim, AfterCompact, history
    <2> QED BY <1>c, <1>t, <1>r, <2>1 DEF RunInv, RunOK
  <1> QED BY <1>1, <1>2, <1>3, <1>4, <1>5, <1>6, <1>7, <1>8, <1>9, <1>10, <1>11 DEF Next

(* Every batch of tools that ran is followed by the attempt to save its      *)
(* results, on every way through agent_loop, with the compaction of a        *)
(* PlanConfirm in the middle of it or not.                                   *)
THEOREM BatchesRecorded == Spec => []RunsRecorded
  <1> QED BY InitIInv, NextIInv, RunInit, RunNext, PTL DEF Spec, RunInv

(* The batch whose results are being saved is without them for the moment. *)
Open(s) == {i \in Unanswered(s) : pc = "results" => s[i].n # Len(log)}

(* Of all others, one per crash is. *)
AnswerInv ==
    /\ Cardinality(Open(conv)) <= crashes
    /\ pc = "write" => Cardinality(Unanswered(data)) <= crashes

LEMMA SmallerSet ==
    ASSUME NEW S, NEW T, S \subseteq T, IsFiniteSet(T)
    PROVE  /\ IsFiniteSet(S) /\ Cardinality(S) \in Nat /\ Cardinality(T) \in Nat
           /\ Cardinality(S) <= Cardinality(T)
  <1>1. IsFiniteSet(S) /\ Cardinality(S) <= Cardinality(T)
    BY FS_Subset
  <1> QED BY <1>1, FS_CardinalityType

LEMMA OneMore ==
    ASSUME NEW S, NEW T, NEW x, S \subseteq T \cup {x}, IsFiniteSet(T)
    PROVE  Cardinality(S) <= Cardinality(T) + 1 /\ Cardinality(S) \in Nat /\ Cardinality(T) \in Nat
  <1>1. Cardinality(T) \in Nat
    BY FS_CardinalityType
  <1>2. IsFiniteSet(T \cup {x}) /\ Cardinality(T \cup {x}) <= Cardinality(T) + 1
    <2>1. CASE x \in T
      <3>1. T \cup {x} = T
        BY <2>1
      <3> QED BY <3>1, <1>1
    <2>2. CASE x \notin T
      <3>1. IsFiniteSet(T \cup {x}) /\ Cardinality(T \cup {x}) = Cardinality(T) + 1
        BY <2>2, FS_AddElement
      <3> QED BY <3>1, <1>1
    <2> QED BY <2>1, <2>2
  <1>3. Cardinality(S) \in Nat /\ Cardinality(T \cup {x}) \in Nat /\ Cardinality(S) <= Cardinality(T \cup {x})
    BY <1>2, SmallerSet
  <1> QED BY <1>1, <1>2, <1>3

(* Between two lines of a conversation that do not follow each other the next *)
(* one is lost.                                                               *)
LEMMA NextNumber ==
    ASSUME log \in Seq(Line), NEW s \in Seq(Line), GoodTail(s), NEW k \in 1..Len(s), k < Len(s)
    PROVE  s[k].n + 1 \in lost \/ s[k + 1].n = s[k].n + 1
  <1>1. /\ Len(s) \in Nat /\ k \in Nat /\ k + 1 \in 1..Len(s) /\ 1 \in 1..Len(s) /\ s # <<>>
        /\ Len(log) \in Nat
    OBVIOUS
  <1>2. /\ \A i \in 1..Len(s) : s[i].n \in 1..Len(log)
        /\ \A i, j \in 1..Len(s) : i < j => s[i].n < s[j].n
        /\ \A m \in s[1].n..Len(log) : m \in Numbers(s) \cup lost
    BY <1>1 DEF GoodTail
  <1>3. s[1].n <= s[k].n /\ s[k].n < s[k + 1].n
    <2>1. k = 1 \/ 1 < k
      BY <1>1
    <2>2. s[1].n \in Nat /\ s[k].n \in Nat
      BY <1>1, <1>2
    <2> QED BY <2>1, <2>2, <1>1, <1>2
  <1>4. s[k].n + 1 \in s[1].n..Len(log)
    <2>1. s[1].n \in 1..Len(log) /\ s[k].n \in 1..Len(log) /\ s[k + 1].n \in 1..Len(log)
      BY <1>1, <1>2
    <2> QED BY <2>1, <1>1, <1>3
  <1>5. ASSUME s[k].n + 1 \in Numbers(s) PROVE s[k + 1].n = s[k].n + 1
    <2>1. PICK j \in 1..Len(s) : s[j].n = s[k].n + 1
      BY <1>5 DEF Numbers
    <2>2. s[k].n \in Nat /\ s[k + 1].n \in Nat
      BY <1>1, <1>2
    <2>3. ~(j <= k)
      <3>1. ASSUME j <= k PROVE FALSE
        <4>1. j = k \/ s[j].n < s[k].n
          BY <3>1, <1>2
        <4> QED BY <4>1, <2>1, <2>2
      <3> QED BY <3>1
    <2>4. ~(j > k + 1)
      <3>1. ASSUME j > k + 1 PROVE FALSE
        <4>1. s[k + 1].n < s[j].n
          BY <3>1, <1>1, <1>2
        <4> QED BY <4>1, <1>3, <2>1, <2>2
      <3> QED BY <3>1
    <2>5. j = k + 1
      BY <2>3, <2>4, <1>1
    <2> QED BY <2>1, <2>5
  <1> QED BY <1>2, <1>4, <1>5

(* What an append leaves open: no batch but that of the line itself, and not *)
(* the last one if the line is its results.                                  *)
LEMMA AppendOpen ==
    ASSUME IInv, NEW kind \in Kind, AppendStep(kind)
    PROVE  Open(conv)' \subseteq Open(conv)
  <1>t. /\ conv \in Seq(Line) /\ log \in Seq(Line) /\ Len(conv) \in Nat /\ Len(log) \in Nat
        /\ GoodTail(conv)
        /\ \A i \in 1..Len(conv) : conv[i].n \in 1..Len(log)
        /\ \A i, j \in 1..Len(conv) : i < j => conv[i].n < conv[j].n
    <2>1. conv \in Seq(Line) /\ log \in Seq(Line) /\ GoodTail(conv)
      BY DEF IInv, TypeOK, Good
    <2> QED BY <2>1 DEF GoodTail
  <1>a. /\ Len(log') = Len(log) + 1 /\ lost \subseteq lost'
        /\ \/ conv' = conv /\ Len(log) + 1 \in lost'
           \/ /\ Len(conv') = Len(conv) + 1
              /\ \A i \in 1..Len(conv) : conv'[i] = conv[i]
              /\ \/ conv'[Len(conv) + 1] = [kind |-> kind, n |-> Len(log) + 1]
                 \/ conv'[Len(conv) + 1].kind = "junk" /\ Len(log) + 1 \in lost'
    <2>1. AddLine(kind) /\ TypeOK
      BY DEF AppendStep, IInv
    <2>2. \/ /\ conv' = conv /\ lost' = lost \cup {Len(log) + 1}
          \/ \E e \in Line :
                /\ e.n = Len(log) + 1
                /\ \/ e = [kind |-> kind, n |-> Len(log) + 1] /\ lost' = lost /\ ~torn
                   \/ e.kind = "junk" /\ lost' = lost \cup {Len(log) + 1}
                /\ Len(conv') = Len(conv) + 1
                /\ \A i \in 1..Len(conv) : conv'[i] = conv[i]
                /\ conv'[Len(conv) + 1] = e
      BY <2>1, AppendFacts
    <2>3. Len(log') = Len(log) + 1
      BY <2>1, AppendFacts
    <2> QED BY <2>2, <2>3
  <1>k. /\ kind = "call" <=> pc' = "results"
        /\ kind = "results" <=> pc = "results"
    BY DEF AppendStep
  <1> SUFFICES ASSUME NEW i \in 1..Len(conv'),
                      conv'[i].kind = "call", conv'[i].n + 1 \notin lost',
                      ~(i < Len(conv') /\ conv'[i + 1].kind = "results"),
                      pc' = "results" => conv'[i].n # Len(log')
               PROVE  i \in Open(conv)
    BY DEF Open, Unanswered
  <1>1. i \in 1..Len(conv)
    <2>1. CASE conv' = conv
      BY <2>1
    <2>2. CASE /\ Len(conv') = Len(conv) + 1
               /\ \/ conv'[Len(conv) + 1] = [kind |-> kind, n |-> Len(log) + 1]
                  \/ conv'[Len(conv) + 1].kind = "junk"
      <3>1. i # Len(conv) + 1
        BY <2>2, <1>a, <1>k
      <3>2. i \in 1..(Len(conv) + 1)
        BY <2>2
      <3> QED BY <3>1, <3>2, <1>t
    <2> QED BY <2>1, <2>2, <1>a
  <1>2. conv'[i] = conv[i]
    BY <1>1, <1>a
  <1>3. ~(i < Len(conv) /\ conv[i + 1].kind = "results")
    <2>1. i < Len(conv) => i + 1 \in 1..Len(conv) /\ i < Len(conv')
      BY <1>1, <1>a, <1>t
    <2>2. i < Len(conv) => conv'[i + 1] = conv[i + 1]
      BY <2>1, <1>a
    <2> QED BY <2>1, <2>2
  <1>4. i \in Unanswered(conv)
    BY <1>1, <1>2, <1>3, <1>a DEF Unanswered
  <1>5. ASSUME pc = "results", conv[i].n = Len(log) PROVE FALSE
    <2>1. Len(log) + 1 \notin lost'
      BY <1>2, <1>5
    <2>2. i = Len(conv)
      <3>1. ASSUME i < Len(conv) PROVE FALSE
        <4>1. Len(conv) \in 1..Len(conv)
          BY <1>1, <1>t
        <4>2. conv[i].n < conv[Len(conv)].n /\ conv[Len(conv)].n \in 1..Len(log)
          BY <3>1, <4>1, <1>1, <1>t
        <4> QED BY <4>2, <1>5, <1>t
      <3> QED BY <3>1, <1>1, <1>t
    <2>3. Len(conv') = Len(conv) + 1 /\ conv'[Len(conv) + 1] = [kind |-> kind, n |-> Len(log) + 1]
      BY <2>1, <1>a
    <2>4. conv'[i + 1].kind = "results" /\ i < Len(conv')
      BY <2>2, <2>3, <1>5, <1>k, <1>t
    <2> QED BY <2>4
  <1> QED BY <1>4, <1>5 DEF Open

(* A cut in front of a user line opens no batch. *)
LEMMA KeptOpen ==
    ASSUME NEW s \in Seq(Line), NEW k \in 0..Len(s)
    PROVE  Cardinality(Unanswered(SubSeq(s, Len(s) - k + 1, Len(s)))) <= Cardinality(Unanswered(s))
  <1> DEFINE t == SubSeq(s, Len(s) - k + 1, Len(s))
             off == Len(s) - k
             f == [i \in Unanswered(t) |-> i + off]
  <1>1. t \in Seq(Line) /\ Len(t) = k /\ \A i \in 1..k : t[i] = s[off + i]
    BY SuffixFacts
  <1>2. Len(s) \in Nat /\ off \in Nat /\ off + k = Len(s) /\ k \in Nat
    OBVIOUS
  <1>f. IsFiniteSet(Unanswered(s)) /\ Cardinality(Unanswered(s)) \in Nat
    BY SubsetsFinite
  <1> HIDE DEF t, off
  <1>3. ASSUME NEW i \in Unanswered(t) PROVE i + off \in Unanswered(s)
    <2>1. /\ i \in 1..k /\ t[i].kind = "call" /\ t[i].n + 1 \notin lost
          /\ ~(i < k /\ t[i + 1].kind = "results")
      BY <1>1 DEF Unanswered
    <2>2. i + off \in 1..Len(s) /\ s[i + off] = t[i]
      BY <2>1, <1>1, <1>2
    <2>3. ASSUME i + off < Len(s), s[i + off + 1].kind = "results" PROVE FALSE
      <3>1. i < k /\ i + 1 \in 1..k /\ off + (i + 1) = i + off + 1
        BY <2>1, <2>3, <1>2
      <3>2. t[i + 1] = s[i + off + 1]
        BY <3>1, <1>1
      <3> QED BY <3>1, <3>2, <2>1, <2>3
    <2> QED BY <2>1, <2>2, <2>3 DEF Unanswered
  <1>4. Unanswered(t) \subseteq Int
    BY DEF Unanswered
  <1>5. f \in Injection(Unanswered(t), Unanswered(s))
    <2>1. f \in [Unanswered(t) -> Unanswered(s)]
      BY <1>3
    <2>2. ASSUME NEW a \in Unanswered(t), NEW b \in Unanswered(t), f[a] = f[b] PROVE a = b
      BY <2>2, <1>2, <1>4
    <2> QED BY <2>1, <2>2 DEF Injection, IsInjective
  <1> HIDE DEF f
  <1>6. Cardinality(Unanswered(t)) <= Cardinality(Unanswered(s))
    BY <1>5, <1>f, FS_Injection
  <1> QED BY <1>6 DEF t

(* What a short write leaves opens no batch: its results are lost. *)
LEMMA ShortOpen ==
    ASSUME log \in Seq(Line), NEW s \in Seq(Line), GoodTail(s), NEW k \in 0..Len(s),
           lost' = lost \cup Numbers(SubSeq(s, k + 1, Len(s)))
    PROVE  Unanswered(SubSeq(s, 1, k))' \subseteq Unanswered(s)
  <1> DEFINE t == SubSeq(s, 1, k)
             r == SubSeq(s, k + 1, Len(s))
  <1>1. t \in Seq(Line) /\ Len(t) = k /\ \A i \in 1..k : t[i] = s[i]
    BY PrefixFacts
  <1>2. Len(s) \in Nat /\ k \in Nat /\ k <= Len(s)
    OBVIOUS
  <1>3. k < Len(s) => s[k + 1].n \in Numbers(r)
    <2>1. k < Len(s) => 1 \in 1..Len(r) /\ r[1] = s[k + 1]
      OBVIOUS
    <2> HIDE DEF r
    <2> QED BY <2>1 DEF Numbers
  <1>4. lost' = lost \cup Numbers(r)
    OBVIOUS
  <1> HIDE DEF t, r
  <1>5. ASSUME NEW i \in 1..k, t[i].kind = "call", t[i].n + 1 \notin lost',
               ~(i < k /\ t[i + 1].kind = "results")
        PROVE  i \in Unanswered(s)
    <2>1. i \in 1..Len(s) /\ s[i] = t[i]
      BY <1>1, <1>2
    <2>2. ASSUME i < Len(s), s[i + 1].kind = "results" PROVE FALSE
      <3>1. CASE i < k
        <4>1. i + 1 \in 1..k
          BY <3>1, <1>2
        <4>2. t[i + 1] = s[i + 1]
          BY <4>1, <1>1
        <4> QED BY <4>2, <3>1, <2>2, <1>5
      <3>2. CASE i = k
        <4>1. s[i].n + 1 \in lost \/ s[i + 1].n = s[i].n + 1
          BY <2>1, <2>2, NextNumber
        <4>2. s[i].n + 1 \in lost'
          BY <4>1, <3>2, <2>2, <1>3, <1>4
        <4> QED BY <4>2, <2>1, <1>5
      <3> QED BY <3>1, <3>2, <1>2
    <2>3. s[i].n + 1 \notin lost
      BY <2>1, <1>4, <1>5
    <2> QED BY <2>1, <2>2, <2>3, <1>5 DEF Unanswered
  <1>6. Unanswered(t)' = {i \in 1..k : /\ t[i].kind = "call" /\ t[i].n + 1 \notin lost'
                                      /\ ~(i < k /\ t[i + 1].kind = "results")}
    BY <1>1 DEF Unanswered, t
  <1>7. Unanswered(t)' \subseteq Unanswered(s)
    BY <1>5, <1>6
  <1> QED BY <1>7 DEF t

(* A copy that ends early opens at most its last batch. *)
LEMMA CopyOpen ==
    ASSUME NEW s \in Seq(Line), NEW k \in 0..Len(s)
    PROVE  Unanswered(SubSeq(s, 1, k)) \subseteq Unanswered(s) \cup {k}
  <1> DEFINE t == SubSeq(s, 1, k)
  <1>1. t \in Seq(Line) /\ Len(t) = k /\ \A i \in 1..k : t[i] = s[i]
    BY PrefixFacts
  <1>2. Len(s) \in Nat /\ k \in Nat /\ k <= Len(s)
    OBVIOUS
  <1> HIDE DEF t
  <1>3. ASSUME NEW i \in Unanswered(t), i # k PROVE i \in Unanswered(s)
    <2>1. /\ i \in 1..k /\ t[i].kind = "call" /\ t[i].n + 1 \notin lost
          /\ ~(i < k /\ t[i + 1].kind = "results")
      BY <1>1 DEF Unanswered
    <2>2. i < k /\ i + 1 \in 1..k /\ i \in 1..Len(s)
      BY <2>1, <1>2, <1>3
    <2>3. t[i + 1] = s[i + 1] /\ t[i] = s[i]
      BY <2>1, <2>2, <1>1
    <2> QED BY <2>1, <2>2, <2>3 DEF Unanswered
  <1>4. Unanswered(t) \subseteq Unanswered(s) \cup {k}
    BY <1>3
  <1> QED BY <1>4 DEF t

LEMMA AnswerInit == Init => AnswerInv
  <1> SUFFICES ASSUME Init PROVE AnswerInv
    OBVIOUS
  <1>1. Open(conv) = {}
    BY DEF Init, Open, Unanswered
  <1> QED BY <1>1, FS_EmptySet DEF Init, AnswerInv

LEMMA AnswerNext == IInv /\ AnswerInv /\ [Next]_vars => AnswerInv'
  <1> SUFFICES ASSUME IInv, AnswerInv, [Next]_vars PROVE AnswerInv'
    OBVIOUS
  <1>t. /\ conv \in Seq(Line) /\ data \in Seq(Line) /\ log \in Seq(Line) /\ crashes \in Nat
        /\ TypeOK
        /\ pc = "write" => conv = <<>> /\ GoodTail(data)
        /\ pc \in {"summary", "summaryWrite", "archive", "truncate"} => keep \in 0..Len(conv)
    BY DEF IInv, TypeOK, CutOK, Good, Aligned
  <1>f. /\ IsFiniteSet(Unanswered(conv)) /\ IsFiniteSet(Unanswered(data))
        /\ Cardinality(Unanswered(conv)) \in Nat /\ Cardinality(Unanswered(data)) \in Nat
    BY <1>t, SubsetsFinite
  <1>g. Open(conv) \subseteq Unanswered(conv) /\ IsFiniteSet(Open(conv)) /\ Cardinality(Open(conv)) \in Nat
    <2>1. Open(conv) \subseteq Unanswered(conv)
      BY DEF Open
    <2> QED BY <2>1, <1>f, SmallerSet
  <1>a. /\ Cardinality(Open(conv)) <= crashes
        /\ pc = "write" => Cardinality(Unanswered(data)) <= crashes
        /\ pc # "results" => Open(conv) = Unanswered(conv)
    BY DEF AnswerInv, Open
  <1>0. ASSUME pc' # "write", crashes' = crashes, Open(conv)' \subseteq Open(conv) PROVE AnswerInv'
    <2>1. Cardinality(Open(conv)') <= Cardinality(Open(conv)) /\ Cardinality(Open(conv)') \in Nat
      BY <1>0, <1>g, SmallerSet
    <2>2. Cardinality(Open(conv)') <= crashes'
      BY <2>1, <1>0, <1>a, <1>g, <1>t
    <2> QED BY <2>2, <1>0 DEF AnswerInv
  <1>1. CASE UNCHANGED vars
    BY <1>1 DEF vars, files, local, history, AnswerInv, Open, Unanswered
  <1>2. ASSUME UNCHANGED <<conv, log, lost, crashes>>, pc \notin {"results", "write"},
               pc' \notin {"results", "write"}
        PROVE  AnswerInv'
    <2>1. Open(conv)' \subseteq Open(conv)
      BY <1>2 DEF Open, Unanswered
    <2> QED BY <2>1, <1>0, <1>2
  <1>3. CASE QuietStep
    <2>1. pc' \notin {"results", "write"} /\ pc \notin {"results", "write"}
      BY <1>3 DEF QuietStep
    <2> QED BY <1>2, <1>3, <2>1 DEF QuietStep
  <1>4. CASE \E kind \in Kind : AppendStep(kind)
    <2>1. PICK kind \in Kind : AppendStep(kind)
      BY <1>4
    <2>2. pc' # "write" /\ crashes' = crashes
      BY <2>1 DEF AppendStep, Cutting, others
    <2>3. Open(conv)' \subseteq Open(conv)
      BY <2>1, AppendOpen
    <2> QED BY <2>2, <2>3, <1>0
  <1>5. CASE store_summary_set \/ SummaryWrite \/ TrimArchive
    BY <1>2, <1>5 DEF store_summary_set, SummaryWrite, TrimArchive, Trim, AfterCompact
  <1>6. CASE EmptyStep
    <2>1. /\ pc = "truncate" /\ pc' = "write" /\ conv' = <<>> /\ data' = data
          /\ lost' = lost /\ crashes' = crashes
      BY <1>6 DEF EmptyStep, TrimTruncate, history, AfterCompact
    <2>2. data = SubSeq(conv, Len(conv) - keep + 1, Len(conv)) /\ keep \in 0..Len(conv)
      BY <2>1, <1>t DEF IInv, CutOK, Kept
    <2>3. Cardinality(Unanswered(data)) <= Cardinality(Unanswered(conv))
      <3>1. PICK s : s = conv
        OBVIOUS
      <3>2. PICK k : k = keep
        OBVIOUS
      <3> QED BY <3>1, <3>2, <2>2, <1>t, KeptOpen
    <2>4. Cardinality(Unanswered(data)) <= crashes
      <3>1. Open(conv) = Unanswered(conv)
        BY <2>1, <1>a
      <3> QED BY <3>1, <2>3, <1>a, <1>f, <1>t
    <2>5. Unanswered(data)' = Unanswered(data)
      BY <2>1 DEF Unanswered
    <2>6. Open(conv)' = {}
      BY <2>1 DEF Open, Unanswered
    <2>7. Cardinality(Open(conv)') = 0
      BY <2>6, FS_EmptySet
    <2> QED BY <2>1, <2>4, <2>5, <2>7, <1>t DEF AnswerInv
  <1>7. CASE TrimWrite
    <2>1. pc = "write" /\ pc' \in {"request", "planStore"} /\ crashes' = crashes
      BY <1>7 DEF TrimWrite, AfterCompact
    <2>2. Unanswered(conv)' \subseteq Unanswered(data)
      <3>1. CASE conv' = data /\ lost' = lost
        BY <3>1 DEF Unanswered
      <3>2. CASE \E k \in 0..Len(data) :
                   /\ conv' = SubSeq(data, 1, k)
                   /\ lost' = lost \cup Numbers(SubSeq(data, k + 1, Len(data)))
        <4>1. PICK k \in 0..Len(data) :
                   /\ conv' = SubSeq(data, 1, k)
                   /\ lost' = lost \cup Numbers(SubSeq(data, k + 1, Len(data)))
          BY <3>2
        <4>2. PICK d : d = data
          OBVIOUS
        <4>3. /\ d \in Seq(Line) /\ GoodTail(d) /\ k \in 0..Len(d) /\ log \in Seq(Line)
              /\ lost' = lost \cup Numbers(SubSeq(d, k + 1, Len(d)))
          BY <4>1, <4>2, <2>1, <1>t
        <4>4. Unanswered(SubSeq(d, 1, k))' \subseteq Unanswered(d)
          BY <4>3, ShortOpen
        <4>5. conv' = SubSeq(d, 1, k)
          BY <4>1, <4>2
        <4>6. Unanswered(conv)' = Unanswered(SubSeq(d, 1, k))'
          BY <4>5 DEF Unanswered
        <4> QED BY <4>2, <4>4, <4>6
      <3> QED BY <1>7, <3>1, <3>2 DEF TrimWrite
    <2>3. Cardinality(Unanswered(conv)') <= Cardinality(Unanswered(data))
          /\ Cardinality(Unanswered(conv)') \in Nat
      BY <2>2, <1>f, SmallerSet
    <2>4. Open(conv)' = Unanswered(conv)'
      BY <2>1 DEF Open
    <2>5. Cardinality(Open(conv)') <= crashes'
      BY <2>1, <2>3, <2>4, <1>a, <1>f, <1>t
    <2> QED BY <2>1, <2>5 DEF AnswerInv
  <1>8. CASE Crash
    <2>1. pc' = "off" /\ crashes' = crashes + 1 /\ conv' = conv /\ log' = log /\ lost \subseteq lost'
      BY <1>8 DEF Crash
    <2>2. Open(conv)' \subseteq Unanswered(conv)
      BY <2>1 DEF Open, Unanswered
    <2>3. \E x : Unanswered(conv) \subseteq Open(conv) \cup {x}
      <3>1. \A i, j \in 1..Len(conv) : conv[i].n = conv[j].n => i = j
        <4> SUFFICES ASSUME NEW i \in 1..Len(conv), NEW j \in 1..Len(conv), conv[i].n = conv[j].n
                     PROVE  i = j
          OBVIOUS
        <4>1. /\ i < j => conv[i].n < conv[j].n
              /\ j < i => conv[j].n < conv[i].n
              /\ conv[i].n \in 1..Len(log) /\ conv[j].n \in 1..Len(log)
          BY DEF IInv, Good, GoodTail
        <4>2. i \in Nat /\ j \in Nat /\ conv[i].n \in Nat /\ conv[j].n \in Nat
          BY <4>1
        <4> QED BY <4>1, <4>2
      <3>2. CASE \E i \in 1..Len(conv) : conv[i].n = Len(log)
        <4>1. PICK x \in 1..Len(conv) : conv[x].n = Len(log)
          BY <3>2
        <4>2. \A i \in Unanswered(conv) : i \in Open(conv) \/ i = x
          BY <4>1, <3>1 DEF Unanswered, Open
        <4> QED BY <4>2
      <3>3. CASE ~\E i \in 1..Len(conv) : conv[i].n = Len(log)
        BY <3>3 DEF Unanswered, Open
      <3> QED BY <3>2, <3>3
    <2>4. PICK x : Open(conv)' \subseteq Open(conv) \cup {x}
      BY <2>2, <2>3
    <2>5. Cardinality(Open(conv)') <= Cardinality(Open(conv)) + 1 /\ Cardinality(Open(conv)') \in Nat
      BY <2>4, <1>g, OneMore
    <2>6. Cardinality(Open(conv)') <= crashes'
      BY <2>1, <2>5, <1>a, <1>g, <1>t
    <2> QED BY <2>1, <2>6 DEF AnswerInv
  <1> QED BY <1>1, <1>3, <1>4, <1>5, <1>6, <1>7, <1>8, StepKinds

(* A conversation that is sent has no more open batches than there were      *)
(* crashes, wherever compactions and broken writes have cut it, unless their *)
(* results could not be written: agent_loop saves the results before the     *)
(* next request, and a cut never parts a call from its results.              *)
THEOREM CallsAnsweredAlways == Spec => []CallsAnswered
  <1>1. AnswerInv => CallsAnswered
    <2> SUFFICES ASSUME AnswerInv, pc = "request" PROVE Cardinality(Unanswered(conv)) <= crashes
      BY DEF CallsAnswered
    <2>1. Open(conv) = Unanswered(conv)
      BY DEF Open
    <2> QED BY <2>1 DEF AnswerInv
  <1> QED BY <1>1, InitIInv, NextIInv, AnswerInit, AnswerNext, PTL DEF Spec

------------------------------------------------------------------------------
(* The forked session. *)

(* A copy is there only until the batch has run, and the files it was made *)
(* of do not change before.                                                *)
ForkInv == child # NoChild => pc = "tools" /\ ForkSound

LEMMA ChildSteps ==
    ASSUME Next
    PROVE  \/ child' = NoChild
           \/ child' = child /\ pc # "tools"
           \/ store_session_fork
  <1>1. CASE LoopStart \/ Drain \/ DrainAtEnd \/ Save \/ SaveResults
    BY <1>1 DEF LoopStart, Drain, DrainAtEnd, Save, SaveResults, others
  <1>2. CASE Crash \/ Decide
    BY <1>2 DEF Crash, Decide
  <1>3. CASE LoopEnds \/ RequestFails \/ \E c \in BOOLEAN, st \in Stop : Answer(c, st)
    BY <1>3 DEF LoopEnds, RequestFails, Answer
  <1>4. CASE RunTools \/ StorePlan \/ NoAutoCompact \/ AutoCompact \/ PlanCompact \/ Restart
    BY <1>4 DEF RunTools, StorePlan, NoAutoCompact, AutoCompact, PlanCompact, Restart
  <1>5. CASE \/ SummaryFails \/ store_summary_set \/ SummaryWrite \/ TrimFails
             \/ TrimArchive \/ TrimTruncate \/ TrimWrite
    BY <1>5 DEF SummaryFails, store_summary_set, SummaryWrite, TrimFails, TrimArchive, TrimTruncate, TrimWrite
  <1> QED BY <1>1, <1>2, <1>3, <1>4, <1>5 DEF Next

(* A copy, whole or in part, is sound when it is made. *)
LEMMA CopySound ==
    ASSUME IInv, DropInv, AnswerInv, pc = "tools",
           NEW k \in 0..Len(conv), NEW a, NEW s, NEW p,
           UNCHANGED <<conv, log, lost, archive, covered, unarchived, unsummarised, crashes>>,
           child' = [conv |-> SubSeq(conv, 1, k), archive |-> a, covered |-> s, plan |-> p]
    PROVE  ForkSound'
  <1>t. /\ conv \in Seq(Line) /\ Len(conv) \in Nat /\ crashes \in Nat
        /\ text = {} /\ Current = conv
    BY DEF IInv, TypeOK, DropInv, Current
  <1>1. PICK c : c = SubSeq(conv, 1, k)
    OBVIOUS
  <1>2. /\ child'.conv = c /\ child'.archive = a /\ child'.covered = s
    BY <1>1
  <1>3. c \in Seq(Line) /\ Len(c) = k /\ \A i \in 1..k : c[i] = conv[i]
    BY <1>1, <1>t, PrefixFacts
  <1>4. c # <<>> => c[1].kind = "user" \/ Headless(c[1].n)
    <2>1. c # <<>> => 1 \in 1..k /\ c[1] = conv[1] /\ conv # <<>>
      BY <1>3, <1>t
    <2> QED BY <2>1 DEF IInv, Good, GoodHead
  <1>5. Cardinality(Unanswered(c)) <= crashes + (IF c # conv THEN 1 ELSE 0)
    <2>1. /\ Cardinality(Unanswered(conv)) <= crashes /\ Cardinality(Unanswered(conv)) \in Nat
          /\ IsFiniteSet(Unanswered(conv))
      <3>1. Open(conv) = Unanswered(conv)
        BY DEF Open
      <3> QED BY <3>1, <1>t, SubsetsFinite DEF AnswerInv
    <2>2. CASE c = conv
      BY <2>1, <2>2, <1>t
    <2>3. CASE c # conv
      <3>1. Unanswered(c) \subseteq Unanswered(conv) \cup {k}
        BY <1>1, <1>t, CopyOpen
      <3>2. Cardinality(Unanswered(c)) <= Cardinality(Unanswered(conv)) + 1 /\ Cardinality(Unanswered(c)) \in Nat
        BY <3>1, <2>1, OneMore
      <3> QED BY <3>2, <2>1, <2>3, <1>t
    <2> QED BY <2>2, <2>3
  <1>6. \A i \in 1..Len(log) :
           \/ i \in Numbers(c) \cup lost
           \/ c # conv /\ i \in Numbers(conv)
           \/ /\ i \in s \cup unsummarised \/ s # covered
              /\ i \in ToSet(a) \cup unarchived \/ a # archive
    <2>1. \A i \in 1..Len(log) : i \in Numbers(conv) \cup lost \cup (Summed \cap Archived)
      BY <1>t DEF DropInv
    <2> QED BY <2>1, <1>t DEF Summed, Archived
  <1>7. c[1].kind = "user" \/ Headless(c[1].n) => c[1].kind = "user" \/ Headless(c[1].n)'
    BY DEF Headless
  <1>8. Unanswered(c)' = Unanswered(c) /\ (child.conv)' = c
    BY <1>2 DEF Unanswered
  <1>9. Unanswered(child.conv)' = Unanswered(c)
    BY <1>2 DEF Unanswered
  <1>10. Headless(child.conv[1].n)' <=> Headless(c[1].n)
    BY <1>2 DEF Headless
  <1> QED BY <1>2, <1>4, <1>5, <1>6, <1>9, <1>10 DEF ForkSound, Numbers

LEMMA ForkNext == IInv /\ DropInv /\ AnswerInv /\ ForkInv /\ [Next]_vars => ForkInv'
  <1> SUFFICES ASSUME IInv, DropInv, AnswerInv, ForkInv, [Next]_vars PROVE ForkInv'
    OBVIOUS
  <1>1. CASE child' = NoChild
    BY <1>1 DEF ForkInv
  <1>2. CASE child' = child /\ pc # "tools"
    BY <1>2 DEF ForkInv
  <1>3. CASE UNCHANGED vars
    <2>1. ForkSound' <=> ForkSound
      BY <1>3 DEF vars, files, local, history, ForkSound, Headless, Unanswered, Numbers
    <2>2. child' = child /\ pc' = pc
      BY <1>3 DEF vars
    <2> QED BY <2>1, <2>2 DEF ForkInv
  <1>4. CASE store_session_fork
    <2>1. /\ pc = "tools" /\ pc' = "tools" /\ CopyFiles
          /\ UNCHANGED <<conv, log, lost, archive, covered, unarchived, unsummarised, crashes>>
      BY <1>4 DEF store_session_fork, files, history
    <2>2. conv \in Seq(Line) /\ Len(conv) \in 0..Len(conv) /\ SubSeq(conv, 1, Len(conv)) = conv
      <3>1. conv \in Seq(Line)
        BY DEF IInv, TypeOK
      <3> QED BY <3>1
    <2>3. PICK k \in 0..Len(conv), a \in {archive} \cup Copies(archive),
                    s \in {covered, {}}, p \in {plan, NoPlan} :
             child' = [conv |-> SubSeq(conv, 1, k), archive |-> a, covered |-> s, plan |-> p]
      BY <2>1, <2>2 DEF CopyFiles, Copies
    <2>4. ForkSound'
      BY <2>1, <2>3, CopySound
    <2> QED BY <2>1, <2>4 DEF ForkInv
  <1> QED BY <1>1, <1>2, <1>3, <1>4, ChildSteps

(* The copy a SubAgent call with fork makes is a session of its own right,   *)
(* although it is made in the middle of a batch: store_session_fork runs     *)
(* before the calls of the batch are saved, and what the conversation lacks  *)
(* is in the summary and the archive copied with it, unless they could not   *)
(* be given it; of a file whose copy failed nothing else depends.            *)
THEOREM ForkedSessionSound == Spec => []ForkSound
  <1>1. Init => ForkInv
    BY DEF Init, ForkInv
  <1>2. ForkInv => ForkSound
    BY DEF ForkInv, ForkSound
  <1> QED BY <1>1, <1>2, InitIInv, NextIInv, DropInit, DropNext, AnswerInit, AnswerNext, ForkNext, PTL
          DEF Spec
===============================================================================
