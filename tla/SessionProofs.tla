---------------------------- MODULE SessionProofs ----------------------------
(***************************************************************************)
(* Proofs about Session: whatever file cannot be written, is written short *)
(* or is cut off by a crash, the conversation is the end of what was said, *)
(* as far as no broken write took it, starts with a user message unless    *)
(* that was lost, and holds no tool result without its call; for every     *)
(* bound, ratio and set of plans.                                          *)
(***************************************************************************)
EXTENDS Session, TLAPS

(* The places of a running agent_loop at which a line may be said to the model. *)
InLoop == {"top", "summary", "summaryWrite", "archive", "truncate", "request", "tools", "plan",
           "planStore", "save", "results", "decide", "end"}

(* s is the end of the log, as far as it is not lost. *)
GoodTail(s) ==
    /\ \A i \in 1..Len(s) :
          /\ s[i].n \in 1..Len(log)
          /\ IF s[i].kind = "junk" THEN s[i].n \in lost ELSE s[i] = log[s[i].n]
    /\ \A i, j \in 1..Len(s) : i < j => s[i].n < s[j].n
    /\ s # <<>> => \A m \in s[1].n..Len(log) : m \in Numbers(s) \cup lost

(* It starts with a user line and not with results, unless those are lost that did. *)
GoodHead(s) ==
    s # <<>> => /\ s[1].kind = "user" \/ Headless(s[1].n)
                /\ s[1].kind = "results" => s[1].n - 1 \in lost

Good(s) == GoodTail(s) /\ GoodHead(s)

(* What was said: serials are places, results follow their call. *)
LogOK ==
    /\ \A i \in 1..Len(log) : log[i].n = i /\ log[i].kind # "junk"
    /\ \A i \in 1..Len(log) : log[i].kind = "results" => i > 1 /\ log[i - 1].kind = "call"
    /\ lost \subseteq 1..Len(log)

(* Behind no line at all, no conversation that starts with a user line can come. *)
EmptyOK ==
    /\ pc \in InLoop /\ conv = <<>> => Headless(Len(log))
    /\ pc \in {"truncate", "write"} /\ data = <<>> => Headless(Len(log))

ResultsOK ==
    pc = "results" =>
        /\ answer.ran
        /\ log # <<>> /\ log[Len(log)].kind = "call"
        /\ conv = <<>> => Len(log) \in lost

(* A cut that keeps the last k lines is in front of a user line, or there is none. *)
Aligned(k) ==
    /\ k \in 0..Len(conv)
    /\ IF k = 0 THEN \A i \in 1..Len(conv) : conv[i].kind # "user"
                ELSE conv[Len(conv) - k + 1].kind = "user"

CutOK ==
    /\ pc \in {"summary", "summaryWrite", "archive", "truncate"} => Aligned(keep)
    /\ pc \in {"archive", "truncate"} => keep < Len(conv)
    /\ pc = "truncate" => data = Kept
    /\ pc \in {"truncate", "write"} => Good(data)
    /\ pc = "write" => conv = <<>>

(* The inductive invariant. *)
IInv ==
    /\ TypeOK
    /\ Good(conv)
    /\ LogOK
    /\ EmptyOK
    /\ ResultsOK
    /\ CutOK

LEMMA NoChildType == NoChild \in SessionFiles
  BY DEF NoChild, SessionFiles

LEMMA InitIInv == Init => IInv
  <1> SUFFICES ASSUME Init PROVE IInv
    OBVIOUS
  <1>0. crashes + faults <= MaxTroubles
    BY BoundAssumption DEF Init
  <1>a. /\ child \in SessionFiles
        /\ answer \in [stop : Stop, ran : BOOLEAN]
        /\ pc \in Place /\ trigger \in Trigger
    BY NoChildType DEF Init, Place, Trigger, Stop, NoAnswer
  <1>b. Len(log) <= MaxLines /\ log \in Seq(Line) /\ conv \in Seq(Line) /\ data \in Seq(Line)
    BY BoundAssumption DEF Init
  <1>e. torn \in BOOLEAN /\ archiveTorn \in BOOLEAN
    BY DEF Init
  <1>f. archive \in Seq(Nat)
    BY DEF Init
  <1>c. /\ covered \subseteq Nat /\ text \subseteq Nat
        /\ unarchived \subseteq Nat /\ unsummarised \subseteq Nat /\ lost \subseteq Nat
    BY DEF Init
  <1>d. /\ plan \in Plan \cup {NoPlan} /\ draft \in Plan \cup {NoPlan}
        /\ promptPlan \in Plan \cup {NoPlan}
        /\ keep \in Nat /\ crashes \in Nat /\ faults \in Nat /\ ran \in Nat
        /\ pc \notin {"summary", "summaryWrite", "archive"}
    BY DEF Init
  <1>1. TypeOK
    BY <1>0, <1>a, <1>b, <1>c, <1>d, <1>e, <1>f DEF TypeOK
  <1>2. Good(conv)
    BY DEF Init, Good, GoodTail, GoodHead
  <1>3. LogOK /\ EmptyOK /\ ResultsOK /\ CutOK
    BY DEF Init, LogOK, EmptyOK, ResultsOK, CutOK, InLoop
  <1> QED BY <1>1, <1>2, <1>3 DEF IInv

------------------------------------------------------------------------------
(* Parts of a conversation. *)

LEMMA SuffixFacts ==
    ASSUME NEW s \in Seq(Line), NEW k \in 0..Len(s)
    PROVE  /\ SubSeq(s, Len(s) - k + 1, Len(s)) \in Seq(Line)
           /\ Len(SubSeq(s, Len(s) - k + 1, Len(s))) = k
           /\ \A i \in 1..k : SubSeq(s, Len(s) - k + 1, Len(s))[i] = s[Len(s) - k + i]
  OBVIOUS

LEMMA PrefixFacts ==
    ASSUME NEW S, NEW s \in Seq(S), NEW k \in 0..Len(s)
    PROVE  /\ SubSeq(s, 1, k) \in Seq(S)
           /\ Len(SubSeq(s, 1, k)) = k
           /\ \A i \in 1..k : SubSeq(s, 1, k)[i] = s[i]
  OBVIOUS

(* A line is in front of a cut or behind it. *)
LEMMA NumbersSplit ==
    ASSUME NEW s \in Seq(Line), NEW k \in 0..Len(s)
    PROVE  Numbers(s) = Numbers(SubSeq(s, 1, k)) \cup Numbers(SubSeq(s, k + 1, Len(s)))
  <1> DEFINE p == SubSeq(s, 1, k)
             r == SubSeq(s, k + 1, Len(s))
  <1>1. /\ Len(s) \in Nat /\ k \in Nat
        /\ Len(p) = k /\ \A i \in 1..k : p[i] = s[i]
        /\ Len(r) = Len(s) - k /\ \A i \in 1..(Len(s) - k) : r[i] = s[k + i]
    OBVIOUS
  <1> HIDE DEF p, r
  <1>2. ASSUME NEW i \in 1..Len(s) PROVE s[i].n \in Numbers(p) \cup Numbers(r)
    <2>1. CASE i <= k
      <3>1. i \in 1..Len(p) /\ p[i] = s[i]
        BY <2>1, <1>1
      <3> QED BY <3>1 DEF Numbers
    <2>2. CASE i > k
      <3>1. i - k \in 1..Len(r) /\ r[i - k] = s[i]
        <4>1. i - k \in 1..(Len(s) - k) /\ k + (i - k) = i
          BY <2>2, <1>1
        <4> QED BY <4>1, <1>1
      <3> QED BY <3>1 DEF Numbers
    <2> QED BY <2>1, <2>2, <1>1
  <1>3. ASSUME NEW i \in 1..Len(p) PROVE p[i].n \in Numbers(s)
    <2>1. i \in 1..Len(s) /\ p[i] = s[i]
      BY <1>1
    <2> QED BY <2>1 DEF Numbers
  <1>4. ASSUME NEW i \in 1..Len(r) PROVE r[i].n \in Numbers(s)
    <2>1. k + i \in 1..Len(s) /\ r[i] = s[k + i]
      BY <1>1
    <2> QED BY <2>1 DEF Numbers
  <1>5. Numbers(s) \subseteq Numbers(p) \cup Numbers(r)
    BY <1>2 DEF Numbers
  <1>6. Numbers(p) \subseteq Numbers(s)
    BY <1>3 DEF Numbers
  <1>7. Numbers(r) \subseteq Numbers(s)
    BY <1>4 DEF Numbers
  <1> QED BY <1>5, <1>6, <1>7 DEF p, r

(* The end of a good conversation, from a user line on. *)
LEMMA GoodSuffix ==
    ASSUME log \in Seq(Line), NEW s \in Seq(Line), Good(s), NEW k \in 0..Len(s),
           k > 0 => s[Len(s) - k + 1].kind = "user"
    PROVE  Good(SubSeq(s, Len(s) - k + 1, Len(s)))
  <1> DEFINE t == SubSeq(s, Len(s) - k + 1, Len(s))
  <1>1. /\ t \in Seq(Line) /\ Len(t) = k
        /\ \A i \in 1..k : t[i] = s[Len(s) - k + i]
    BY SuffixFacts
  <1>2. Len(s) \in Nat /\ k \in Nat /\ k <= Len(s) /\ Len(log) \in Nat
    OBVIOUS
  <1>3. /\ \A i \in 1..Len(s) :
             /\ s[i].n \in 1..Len(log)
             /\ IF s[i].kind = "junk" THEN s[i].n \in lost ELSE s[i] = log[s[i].n]
        /\ \A i, j \in 1..Len(s) : i < j => s[i].n < s[j].n
        /\ s # <<>> => \A m \in s[1].n..Len(log) : m \in Numbers(s) \cup lost
    BY DEF Good, GoodTail
  <1> HIDE DEF t
  <1>4. \A i \in 1..k : Len(s) - k + i \in 1..Len(s)
    BY <1>2
  <1>5. ASSUME NEW i \in 1..Len(t)
        PROVE  /\ t[i].n \in 1..Len(log)
               /\ IF t[i].kind = "junk" THEN t[i].n \in lost ELSE t[i] = log[t[i].n]
    BY <1>1, <1>3, <1>4
  <1>6. ASSUME NEW i \in 1..Len(t), NEW j \in 1..Len(t), i < j
        PROVE  t[i].n < t[j].n
    <2>1. Len(s) - k + i < Len(s) - k + j
      BY <1>2, <1>6, <1>1
    <2> QED BY <2>1, <1>1, <1>3, <1>4
  <1>7. ASSUME t # <<>>, NEW m \in t[1].n..Len(log)
        PROVE  m \in Numbers(t) \cup lost
    <2>1. k >= 1 /\ s # <<>> /\ 1 \in 1..k
      BY <1>7, <1>1, <1>2
    <2>2. t[1] = s[Len(s) - k + 1] /\ Len(s) - k + 1 \in 1..Len(s)
      BY <2>1, <1>1, <1>4
    <2>3. s[1].n \in Nat /\ t[1].n \in Nat /\ s[1].n <= t[1].n
      <3>1. CASE k = Len(s)
        BY <3>1, <2>1, <2>2, <1>2, <1>3
      <3>2. CASE k < Len(s)
        <4>1. 1 \in 1..Len(s) /\ 1 < Len(s) - k + 1
          BY <3>2, <1>2, <2>1
        <4>2. s[1].n < s[Len(s) - k + 1].n /\ s[1].n \in 1..Len(log) /\ s[Len(s) - k + 1].n \in 1..Len(log)
          BY <4>1, <2>2, <1>3
        <4> QED BY <4>2, <2>2, <1>2
      <3> QED BY <3>1, <3>2, <1>2
    <2>4. m \in s[1].n..Len(log)
      BY <2>3, <1>2, <1>7
    <2>5. CASE m \in lost
      BY <2>5
    <2>6. CASE m \in Numbers(s)
      <3>1. PICK j \in 1..Len(s) : s[j].n = m
        BY <2>6 DEF Numbers
      <3>2. ~(j < Len(s) - k + 1)
        <4>1. ASSUME j < Len(s) - k + 1 PROVE FALSE
          <5>1. s[j].n < t[1].n
            BY <4>1, <2>2, <1>3
          <5> QED BY <5>1, <3>1, <1>7, <2>3, <1>2
        <4> QED BY <4>1
      <3>3. j - (Len(s) - k) \in 1..k /\ Len(s) - k + (j - (Len(s) - k)) = j
        BY <3>1, <3>2, <1>2
      <3>4. t[j - (Len(s) - k)] = s[j]
        BY <3>3, <1>1
      <3> QED BY <3>1, <3>3, <3>4, <1>1 DEF Numbers
    <2> QED BY <2>1, <2>4, <2>5, <2>6, <1>3
  <1>8. GoodTail(t)
    BY <1>5, <1>6, <1>7 DEF GoodTail
  <1>9. GoodHead(t)
    <2>1. t # <<>> => k > 0 /\ 1 \in 1..k /\ t[1] = s[Len(s) - k + 1]
      BY <1>1, <1>2
    <2> QED BY <2>1 DEF GoodHead
  <1> QED BY <1>8, <1>9 DEF Good, t

(* A good conversation without a user line: its head was lost. *)
LEMMA NoUserHeadless ==
    ASSUME log \in Seq(Line), lost \subseteq Nat, NEW s \in Seq(Line), Good(s), s # <<>>,
           \A i \in 1..Len(s) : s[i].kind # "user"
    PROVE  Headless(Len(log))
  <1>1. /\ 1 \in 1..Len(s) /\ Len(log) \in Nat
    OBVIOUS
  <1>2. /\ s[1].n \in 1..Len(log)
        /\ \A m \in s[1].n..Len(log) : m \in Numbers(s) \cup lost
        /\ Headless(s[1].n)
    BY <1>1 DEF Good, GoodTail, GoodHead
  <1>3. ASSUME NEW i \in 1..Len(log), log[i].kind = "user"
        PROVE  \E j \in lost : i <= j /\ j <= Len(log)
    <2>1. CASE i <= s[1].n
      <3>1. i \in 1..s[1].n
        BY <2>1, <1>2
      <3>2. PICK j \in lost : i <= j /\ j <= s[1].n
        BY <3>1, <1>2, <1>3 DEF Headless
      <3> QED BY <3>2, <1>1, <1>2
    <2>2. CASE i > s[1].n
      <3>1. i \in Numbers(s) \cup lost
        BY <2>2, <1>2
      <3>2. i \in lost
        <4>1. ASSUME i \in Numbers(s) PROVE i \in lost
          <5>1. PICK j \in 1..Len(s) : s[j].n = i
            BY <4>1 DEF Numbers
          <5> QED BY <5>1, <1>3 DEF Good, GoodTail
        <4> QED BY <3>1, <4>1
      <3> QED BY <3>2, <1>1
    <2> QED BY <2>1, <2>2, <1>2
  <1> QED BY <1>3 DEF Headless

(* What is lost stays lost, so a head does. *)
LEMMA HeadlessStays ==
    ASSUME log' = log, lost \subseteq lost', NEW m, Headless(m)
    PROVE  Headless(m)'
  BY DEF Headless

(* What a write that ends early leaves of a good conversation is good, once *)
(* the rest is lost.                                                        *)
LEMMA GoodPrefix ==
    ASSUME log \in Seq(Line), NEW s \in Seq(Line), Good(s), NEW k \in 0..Len(s),
           log' = log, lost' = lost \cup Numbers(SubSeq(s, k + 1, Len(s)))
    PROVE  /\ GoodTail(SubSeq(s, 1, k))' /\ GoodHead(SubSeq(s, 1, k))'
           /\ k = 0 /\ s # <<>> => Headless(Len(log))'
  <1> DEFINE t == SubSeq(s, 1, k)
             r == SubSeq(s, k + 1, Len(s))
  <1>1. /\ t \in Seq(Line) /\ Len(t) = k
        /\ \A i \in 1..k : t[i] = s[i]
    BY PrefixFacts
  <1>2. Len(s) \in Nat /\ k \in Nat /\ k <= Len(s) /\ Len(log) \in Nat
    OBVIOUS
  <1>3. /\ \A i \in 1..Len(s) :
             /\ s[i].n \in 1..Len(log)
             /\ IF s[i].kind = "junk" THEN s[i].n \in lost ELSE s[i] = log[s[i].n]
        /\ \A i, j \in 1..Len(s) : i < j => s[i].n < s[j].n
        /\ s # <<>> => \A m \in s[1].n..Len(log) : m \in Numbers(s) \cup lost
    BY DEF Good, GoodTail
  <1>4. Numbers(s) = Numbers(t) \cup Numbers(r)
    BY NumbersSplit
  <1>5. log' = log /\ lost' = lost \cup Numbers(r)
    OBVIOUS
  <1> HIDE DEF t, r
  <1>6. \A i \in 1..k : i \in 1..Len(s)
    BY <1>2
  <1>7. /\ \A i \in 1..Len(t) :
             /\ t[i].n \in 1..Len(log')
             /\ IF t[i].kind = "junk" THEN t[i].n \in lost' ELSE t[i] = log'[t[i].n]
        /\ \A i, j \in 1..Len(t) : i < j => t[i].n < t[j].n
    BY <1>1, <1>3, <1>5, <1>6
  <1>8. t # <<>> => 1 \in 1..k /\ t[1] = s[1] /\ s # <<>>
    BY <1>1, <1>2
  <1>9. t # <<>> => \A m \in t[1].n..Len(log') : m \in Numbers(t) \cup lost'
    BY <1>3, <1>4, <1>5, <1>8
  <1>10. GoodTail(t)'
    BY <1>7, <1>9 DEF GoodTail, Numbers, t
  <1>11. t # <<>> /\ Headless(t[1].n) => Headless(t[1].n)'
    BY <1>5, HeadlessStays DEF t
  <1>12. GoodHead(t)'
    <2>1. t # <<>> => /\ t[1].kind = "user" \/ Headless(t[1].n)
                      /\ t[1].kind = "results" => t[1].n - 1 \in lost
      BY <1>8 DEF Good, GoodHead
    <2>2. (t # <<>>)' <=> t # <<>>
      BY DEF t
    <2> QED BY <2>1, <2>2, <1>5, <1>11 DEF GoodHead, t
  <1>13. ASSUME k = 0, s # <<>> PROVE Headless(Len(log))'
    <2>1. 1 \in 1..Len(s) /\ s[1].n \in 1..Len(log)
      BY <1>13, <1>2, <1>3
    <2>2. Numbers(t) = {}
      BY <1>13, <1>1 DEF Numbers
    <2>3. Len(log) \in s[1].n..Len(log)
      BY <2>1, <1>2
    <2>4. Len(log) \in lost'
      BY <2>2, <2>3, <1>3, <1>4, <1>5, <1>13
    <2>5. \A i \in 1..Len(log) : i <= Len(log) /\ Len(log) <= Len(log)
      BY <1>2
    <2> QED BY <2>4, <2>5, <1>5 DEF Headless
  <1> QED BY <1>10, <1>12, <1>13 DEF t

------------------------------------------------------------------------------
(* Appending a line. *)

(* What an append does to the log, and the two ways for the conversation. *)
LEMMA AppendFacts ==
    ASSUME TypeOK, NEW kind \in Kind, AddLine(kind)
    PROVE  /\ log \in Seq(Line) /\ conv \in Seq(Line) /\ Len(log) \in Nat /\ Len(conv) \in Nat
           /\ log' \in Seq(Line) /\ Len(log') = Len(log) + 1 /\ Len(log') <= MaxLines
           /\ \A i \in 1..Len(log) : log'[i] = log[i]
           /\ log'[Len(log) + 1] = [kind |-> kind, n |-> Len(log) + 1]
           /\ \/ /\ conv' = conv /\ lost' = lost \cup {Len(log) + 1}
              \/ \E e \in Line :
                    /\ e.n = Len(log) + 1
                    /\ \/ e = [kind |-> kind, n |-> Len(log) + 1] /\ lost' = lost /\ ~torn
                       \/ e.kind = "junk" /\ lost' = lost \cup {Len(log) + 1}
                    /\ conv' \in Seq(Line) /\ Len(conv') = Len(conv) + 1
                    /\ conv' = Append(conv, e)
                    /\ \A i \in 1..Len(conv) : conv'[i] = conv[i]
                    /\ conv'[Len(conv) + 1] = e
           /\ torn' \in BOOLEAN /\ crashes + faults' <= MaxTroubles /\ faults' \in Nat
  <1> DEFINE line == [kind |-> kind, n |-> Len(log) + 1]
             e == [kind |-> IF torn THEN "junk" ELSE kind, n |-> Len(log) + 1]
  <1>1. /\ log \in Seq(Line) /\ conv \in Seq(Line) /\ Len(log) \in Nat /\ Len(conv) \in Nat
        /\ torn \in BOOLEAN /\ crashes \in Nat /\ faults \in Nat
        /\ crashes + faults <= MaxTroubles /\ MaxTroubles \in Nat
    BY BoundAssumption DEF TypeOK
  <1>2. line \in Line /\ e \in Line /\ e.n = Len(log) + 1 /\ line.kind = kind
    BY <1>1 DEF Line
  <1>3. /\ log' = Append(log, line) /\ Len(log) + 1 <= MaxLines
        /\ \/ /\ conv' = Append(conv, e) /\ torn' = FALSE /\ faults' = faults
              /\ lost' = IF torn THEN lost \cup {Len(log) + 1} ELSE lost
           \/ /\ conv' = conv /\ torn' \in {torn, TRUE} /\ Fault
              /\ lost' = lost \cup {Len(log) + 1}
    BY DEF AddLine
  <1>4. torn' \in BOOLEAN /\ crashes + faults' <= MaxTroubles /\ faults' \in Nat
    <2>1. faults' = faults \/ (faults' = faults + 1 /\ crashes + faults < MaxTroubles)
      BY <1>3 DEF Fault
    <2>2. crashes + faults' <= MaxTroubles /\ faults' \in Nat
      BY <1>1, <2>1
    <2>3. torn' \in BOOLEAN
      BY <1>1, <1>3
    <2> QED BY <2>2, <2>3
  <1>5. torn => e.kind = "junk"
    OBVIOUS
  <1>6. ~torn => e = line
    OBVIOUS
  <1> HIDE DEF line, e
  <1>7. /\ log' \in Seq(Line) /\ Len(log') = Len(log) + 1 /\ Len(log') <= MaxLines
        /\ \A i \in 1..Len(log) : log'[i] = log[i]
        /\ log'[Len(log) + 1] = line
    BY <1>1, <1>2, <1>3
  <1>8. CASE conv' = conv /\ lost' = lost \cup {Len(log) + 1}
    BY <1>1, <1>4, <1>7, <1>8 DEF line
  <1>9. CASE conv' = Append(conv, e) /\ lost' = IF torn THEN lost \cup {Len(log) + 1} ELSE lost
    <2>1. /\ conv' \in Seq(Line) /\ Len(conv') = Len(conv) + 1
          /\ \A i \in 1..Len(conv) : conv'[i] = conv[i]
          /\ conv'[Len(conv) + 1] = e
      BY <1>1, <1>2, <1>9
    <2>2. \/ e = line /\ lost' = lost /\ ~torn
          \/ e.kind = "junk" /\ lost' = lost \cup {Len(log) + 1}
      BY <1>1, <1>5, <1>6, <1>9
    <2> QED BY <1>1, <1>2, <1>4, <1>7, <1>9, <2>1, <2>2 DEF line
  <1> QED BY <1>3, <1>8, <1>9

(* Appending a line keeps the conversation good. *)
LEMMA AddLineKeeps ==
    ASSUME IInv, NEW kind \in Kind, AddLine(kind),
           conv = <<>> => kind = "user" \/ Headless(Len(log)),
           kind = "results" => /\ log # <<>> /\ log[Len(log)].kind = "call"
                               /\ conv = <<>> => Len(log) \in lost
    PROVE  /\ conv' \in Seq(Line) /\ log' \in Seq(Line) /\ Len(log') <= MaxLines
           /\ torn' \in BOOLEAN /\ crashes + faults' <= MaxTroubles /\ faults' \in Nat
           /\ lost' \subseteq Nat
           /\ Good(conv)'
           /\ log' # <<>> /\ log'[Len(log')].kind = kind
           /\ conv' = <<>> => Headless(Len(log))' /\ Len(log') \in lost'
           /\ \A i \in 1..Len(log') : log'[i].n = i /\ log'[i].kind # "junk"
           /\ \A i \in 1..Len(log') : log'[i].kind = "results" => i > 1 /\ log'[i - 1].kind = "call"
           /\ lost' \subseteq 1..Len(log')
  <1>0. PICK N : N = Len(log) + 1
    OBVIOUS
  <1>h. PICK h : h = conv[1].n
    OBVIOUS
  <1>1. TypeOK /\ Good(conv) /\ LogOK
    BY DEF IInv
  <1>2. /\ log \in Seq(Line) /\ conv \in Seq(Line) /\ Len(log) \in Nat /\ Len(conv) \in Nat
        /\ log' \in Seq(Line) /\ Len(log') = N /\ Len(log') <= MaxLines
        /\ \A i \in 1..Len(log) : log'[i] = log[i]
        /\ log'[N] = [kind |-> kind, n |-> N]
        /\ torn' \in BOOLEAN /\ crashes + faults' <= MaxTroubles /\ faults' \in Nat
    BY <1>0, <1>1, AppendFacts
  <1>3. \/ conv' = conv /\ lost' = lost \cup {N}
        \/ \E e \in Line :
              /\ e.n = N
              /\ \/ e = [kind |-> kind, n |-> N] /\ lost' = lost /\ ~torn
                 \/ e.kind = "junk" /\ lost' = lost \cup {N}
              /\ conv' \in Seq(Line) /\ Len(conv') = Len(conv) + 1
              /\ \A i \in 1..Len(conv) : conv'[i] = conv[i]
              /\ conv'[Len(conv) + 1] = e
    BY <1>0, <1>1, AppendFacts
  <1>4. lost \subseteq lost' /\ lost' \subseteq lost \cup {N}
    BY <1>3
  <1>5. lost \subseteq 1..Len(log) /\ 1..Len(log) \subseteq 1..N /\ N \in 1..N /\ N \in Nat
    BY <1>0, <1>1, <1>2 DEF LogOK
  <1>k. kind \in {"user", "text", "call", "results"} /\ "junk" # kind
    BY DEF Kind
  <1>6. log' # <<>> /\ log'[Len(log')].kind = kind
    BY <1>2, <1>5
  <1>7. ASSUME NEW i \in 1..Len(log')
        PROVE  /\ log'[i].n = i /\ log'[i].kind # "junk"
               /\ log'[i].kind = "results" => i > 1 /\ log'[i - 1].kind = "call"
    <2>1. CASE i \in 1..Len(log)
      <3>1. /\ log[i].n = i /\ log[i].kind # "junk"
            /\ log[i].kind = "results" => i > 1 /\ log[i - 1].kind = "call"
        BY <2>1, <1>1 DEF LogOK
      <3>2. i > 1 => i - 1 \in 1..Len(log)
        BY <2>1, <1>2
      <3> QED BY <2>1, <3>1, <3>2, <1>2
    <2>2. CASE i = N
      <3>1. log'[i].n = i /\ log'[i].kind = kind
        BY <2>2, <1>2
      <3>2. kind = "results" => Len(log) \in 1..Len(log) /\ N > 1 /\ N - 1 = Len(log)
        BY <1>0, <1>2
      <3>3. kind = "results" => log[Len(log)].kind = "call"
        OBVIOUS
      <3>4. kind = "results" => i > 1 /\ log'[i - 1].kind = "call"
        BY <2>2, <3>2, <3>3, <1>2
      <3> QED BY <3>1, <3>4, <1>k
    <2>3. i \in 1..Len(log) \/ i = N
      BY <1>0, <1>2
    <2> QED BY <2>1, <2>2, <2>3
  <1>8. Len(log') = N /\ \A m \in 1..Len(log) : Headless(m) => Headless(m)'
    <2>1. ASSUME NEW m \in 1..Len(log), Headless(m) PROVE Headless(m)'
      <3>1. \A i \in 1..m : log'[i] = log[i]
        BY <1>2
      <3> QED BY <3>1, <2>1, <1>4 DEF Headless
    <2> QED BY <2>1, <1>2
  <1>9. N \in lost' => Headless(N)'
    <2>1. \A i \in 1..N : i <= N /\ N <= N
      BY <1>5
    <2> QED BY <2>1 DEF Headless
  <1>10. Headless(Len(log)) /\ kind # "user" => Headless(N)'
    <2> SUFFICES ASSUME Headless(Len(log)), kind # "user", NEW i \in 1..N, log'[i].kind = "user"
                 PROVE  \E j \in lost' : i <= j /\ j <= N
      BY DEF Headless
    <2>1. i # N
      BY <1>2
    <2>2. i \in 1..Len(log) /\ log[i].kind = "user"
      BY <2>1, <1>0, <1>2
    <2>3. PICK j \in lost : i <= j /\ j <= Len(log)
      BY <2>2 DEF Headless
    <2>4. j \in lost' /\ j \in 1..Len(log)
      BY <2>3, <1>4, <1>5
    <2> QED BY <2>3, <2>4, <1>0, <1>2
  <1>11. Good(conv)' /\ conv' \in Seq(Line) /\ (conv' = <<>> => N \in lost')
    <2>1. /\ \A i \in 1..Len(conv) :
                /\ conv[i].n \in 1..Len(log)
                /\ IF conv[i].kind = "junk" THEN conv[i].n \in lost ELSE conv[i] = log[conv[i].n]
          /\ \A i, j \in 1..Len(conv) : i < j => conv[i].n < conv[j].n
          /\ conv # <<>> => \A m \in conv[1].n..Len(log) : m \in Numbers(conv) \cup lost
          /\ conv # <<>> => /\ conv[1].kind = "user" \/ Headless(conv[1].n)
                            /\ conv[1].kind = "results" => conv[1].n - 1 \in lost
      BY <1>1 DEF Good, GoodTail, GoodHead
    <2>2. conv # <<>> => 1 \in 1..Len(conv)
      BY <1>2
    <2>3. \A i \in 1..Len(conv) :
             /\ conv[i].n \in 1..N
             /\ IF conv[i].kind = "junk" THEN conv[i].n \in lost' ELSE conv[i] = log'[conv[i].n]
      BY <2>1, <1>2, <1>4, <1>5
    <2>4. conv # <<>> => \A m \in conv[1].n..N : m \in Numbers(conv) \cup lost \cup {N}
      <3>1. \A m \in Int : m <= N => m <= Len(log) \/ m = N
        BY <1>2, <1>0
      <3> QED BY <2>1, <2>2, <3>1, <1>2, <1>5
    <2>5. conv # <<>> => /\ conv[1].kind = "user" \/ Headless(h)'
                         /\ conv[1].kind = "results" => conv[1].n - 1 \in lost'
      BY <2>1, <2>2, <1>h, <1>4, <1>8
    <2>6. CASE conv' = conv /\ lost' = lost \cup {N}
      <3>1. GoodTail(conv)'
        BY <2>6, <2>1, <2>3, <2>4, <1>2 DEF GoodTail, Numbers
      <3>2. GoodHead(conv)'
        BY <2>6, <2>5, <1>h DEF GoodHead, Headless
      <3> QED BY <3>1, <3>2, <2>6, <1>2 DEF Good
    <2>7. CASE \E e \in Line :
              /\ e.n = N
              /\ \/ e = [kind |-> kind, n |-> N] /\ lost' = lost /\ ~torn
                 \/ e.kind = "junk" /\ lost' = lost \cup {N}
              /\ conv' \in Seq(Line) /\ Len(conv') = Len(conv) + 1
              /\ \A i \in 1..Len(conv) : conv'[i] = conv[i]
              /\ conv'[Len(conv) + 1] = e
      <3>1. PICK e \in Line :
              /\ e.n = N
              /\ \/ e = [kind |-> kind, n |-> N] /\ lost' = lost /\ ~torn
                 \/ e.kind = "junk" /\ lost' = lost \cup {N}
              /\ conv' \in Seq(Line) /\ Len(conv') = Len(conv) + 1
              /\ \A i \in 1..Len(conv) : conv'[i] = conv[i]
              /\ conv'[Len(conv) + 1] = e
        BY <2>7
      <3>2. IF e.kind = "junk" THEN e.n \in lost' ELSE e = log'[e.n]
        BY <3>1, <1>2, <1>k
      <3>3. \A i \in 1..Len(conv') : i \in 1..Len(conv) \/ i = Len(conv) + 1
        BY <3>1, <1>2
      <3>4. ASSUME NEW i \in 1..Len(conv')
            PROVE  /\ conv'[i].n \in 1..N
                   /\ IF conv'[i].kind = "junk" THEN conv'[i].n \in lost' ELSE conv'[i] = log'[conv'[i].n]
        <4>1. CASE i \in 1..Len(conv)
          BY <4>1, <3>1, <2>3
        <4>2. CASE i = Len(conv) + 1
          BY <4>2, <3>1, <3>2, <1>5
        <4> QED BY <4>1, <4>2, <3>3
      <3>5. ASSUME NEW i \in 1..Len(conv'), NEW j \in 1..Len(conv'), i < j
            PROVE  conv'[i].n < conv'[j].n
        <4>1. i \in 1..Len(conv)
          BY <3>1, <3>5, <1>2
        <4>2. CASE j \in 1..Len(conv)
          BY <4>1, <4>2, <3>1, <3>5, <2>1
        <4>3. CASE j = Len(conv) + 1
          <5>1. conv'[i].n \in 1..Len(log) /\ conv'[j].n = N
            BY <4>1, <4>3, <3>1, <2>1
          <5> QED BY <5>1, <1>2, <1>0
        <4> QED BY <4>2, <4>3, <3>3
      <3>6. Numbers(conv') = Numbers(conv) \cup {N}
        <4>1. \A i \in 1..Len(conv') : conv'[i].n \in Numbers(conv) \cup {N}
          BY <3>1, <3>3 DEF Numbers
        <4>2. \A i \in 1..Len(conv) : i \in 1..Len(conv') /\ conv'[i].n = conv[i].n
          BY <3>1, <1>2
        <4>3. Len(conv) + 1 \in 1..Len(conv')
          BY <3>1, <1>2
        <4>4. \A i \in 1..Len(conv) : conv[i].n \in Numbers(conv')
          BY <4>2 DEF Numbers
        <4>5. N \in Numbers(conv')
          BY <4>3, <3>1 DEF Numbers
        <4> QED BY <4>1, <4>4, <4>5 DEF Numbers
      <3>7. CASE conv = <<>>
        <4>1. Len(conv) = 0 /\ conv'[1] = e
          BY <3>7, <3>1
        <4>2. \A m \in conv'[1].n..N : m = N
          BY <4>1, <3>1, <1>5
        <4>3. GoodTail(conv)'
          BY <3>4, <3>5, <3>6, <4>2, <1>2 DEF GoodTail, Numbers
        <4>4. conv'[1].kind = "user" \/ Headless(N)'
          <5>1. CASE e.kind = "junk"
            BY <5>1, <3>1, <1>9, <1>k
          <5>2. CASE e.kind # "junk"
            <6>1. e.kind = kind
              BY <5>2, <3>1
            <6>2. kind = "user" \/ Headless(Len(log))
              BY <3>7
            <6> QED BY <6>1, <6>2, <4>1, <1>10
          <5> QED BY <5>1, <5>2
        <4>5. conv'[1].kind = "results" => conv'[1].n - 1 \in lost'
          <5>1. conv'[1].kind = "results" => kind = "results"
            BY <4>1, <3>1
          <5>2. kind = "results" => Len(log) \in lost'
            BY <3>7, <1>4
          <5>3. N - 1 = Len(log)
            BY <1>2, <1>0
          <5> QED BY <5>1, <5>2, <5>3, <4>1, <3>1
        <4>6. GoodHead(conv)'
          BY <4>1, <4>4, <4>5, <3>1 DEF GoodHead, Headless
        <4>7. conv' # <<>>
          <5>1. Len(conv') = 1
            BY <3>1, <4>1
          <5> QED BY <5>1
        <4> QED BY <4>3, <4>6, <4>7, <3>1 DEF Good
      <3>8. CASE conv # <<>>
        <4>1. conv'[1] = conv[1] /\ conv' # <<>>
          BY <3>8, <2>2, <3>1, <1>2
        <4>2. \A m \in conv'[1].n..N : m \in Numbers(conv') \cup lost'
          BY <4>1, <3>6, <3>8, <2>4, <1>4
        <4>3. GoodTail(conv)'
          BY <3>4, <3>5, <4>2, <1>2 DEF GoodTail, Numbers
        <4>4. GoodHead(conv)'
          BY <3>8, <4>1, <2>5, <1>h DEF GoodHead, Headless
        <4> QED BY <4>1, <4>3, <4>4, <3>1 DEF Good
      <3> QED BY <3>7, <3>8
    <2> QED BY <2>6, <2>7, <1>3
  <1>12. conv' = <<>> => Headless(Len(log))' /\ Len(log') \in lost'
    <2>1. Headless(N)' => Headless(Len(log))'
      BY <1>2 DEF Headless
    <2> QED BY <2>1, <1>2, <1>9, <1>11
  <1>13. lost' \subseteq 1..Len(log') /\ lost' \subseteq Nat
    <2>1. lost' \subseteq 1..N
      BY <1>4, <1>5
    <2>2. 1..N \subseteq Nat
      BY <1>5
    <2> QED BY <2>1, <2>2, <1>2
  <1> QED BY <1>2, <1>6, <1>7, <1>11, <1>12, <1>13

------------------------------------------------------------------------------
(* Cuts. *)

(* Every cut that is offered is in front of a user line, if there is one. *)
LEMMA KeepsAreCuts ==
    ASSUME TypeOK, NEW k \in AutoKeeps \cup PlanKeeps
    PROVE  Aligned(k) /\ k \in Nat
  <1>1. conv \in Seq(Line) /\ Len(conv) \in Nat
    BY DEF TypeOK
  <1>2. k \in compact_dp_decision(conv) \cup compact_turn_keep(conv)
    BY DEF AutoKeeps, PlanKeeps
  <1>3. CASE k \in compact_dp_decision(conv)
    BY <1>3, <1>1 DEF compact_dp_decision, UserCuts, compact_is_real_user_line, Aligned
  <1>4. CASE k \in compact_turn_keep(conv)
    <2> DEFINE users == {i \in 1..Len(conv) : compact_is_real_user_line(conv[i])}
    <2>1. CASE users = {}
      <3>1. k = 0
        BY <1>4, <2>1 DEF compact_turn_keep
      <3>2. \A i \in 1..Len(conv) : conv[i].kind # "user"
        BY <2>1 DEF compact_is_real_user_line
      <3> QED BY <3>1, <3>2, <1>1 DEF Aligned
    <2>2. CASE users # {}
      <3>1. PICK i \in users : k = Len(conv) - i + 1
        BY <1>4, <2>2 DEF compact_turn_keep
      <3>2. i \in 1..Len(conv) /\ conv[i].kind = "user"
        BY <3>1 DEF compact_is_real_user_line
      <3> HIDE DEF users
      <3>3. Len(conv) - k + 1 = i /\ k \in 1..Len(conv)
        BY <3>1, <3>2, <1>1
      <3> QED BY <3>2, <3>3, <1>1 DEF Aligned
    <2> QED BY <2>1, <2>2
  <1> QED BY <1>2, <1>3, <1>4

(* What store_conv_trim_tail keeps is a good conversation. *)
LEMMA KeptIsGood ==
    ASSUME IInv, pc = "archive"
    PROVE  /\ Kept \in Seq(Line) /\ Good(Kept)
           /\ Kept = <<>> => Headless(Len(log))
           /\ Dropped \in Seq(Line)
  <1>1. /\ conv \in Seq(Line) /\ log \in Seq(Line) /\ Len(conv) \in Nat
        /\ Good(conv) /\ lost \subseteq Nat
        /\ keep \in 0..Len(conv) /\ keep < Len(conv)
        /\ keep > 0 => conv[Len(conv) - keep + 1].kind = "user"
        /\ keep = 0 => \A i \in 1..Len(conv) : conv[i].kind # "user"
    BY DEF IInv, TypeOK, CutOK, Aligned
  <1>2. Good(Kept)
    BY <1>1, GoodSuffix DEF Kept
  <1>3. Kept \in Seq(Line) /\ Len(Kept) = keep
    BY <1>1, SuffixFacts DEF Kept
  <1>4. Kept = <<>> => Headless(Len(log))
    <2>1. Kept = <<>> => keep = 0
      BY <1>3
    <2>2. conv # <<>>
      BY <1>1
    <2> QED BY <2>1, <2>2, <1>1, NoUserHeadless
  <1>5. Dropped \in Seq(Line)
    BY <1>1, PrefixFacts DEF Dropped
  <1> QED BY <1>2, <1>3, <1>4, <1>5

------------------------------------------------------------------------------
(* Every step preserves the invariant: one case per action. *)

(* Of a step that leaves log, conversation and what is lost alone. *)
LEMMA GoodStays ==
    ASSUME log' = log, lost' = lost
    PROVE  /\ conv' = conv => (Good(conv) <=> Good(conv)')
           /\ data' = data => (Good(data) <=> Good(data)')
           /\ Headless(Len(log)) <=> Headless(Len(log))'
  BY DEF Good, GoodTail, GoodHead, Headless, Numbers

(* A step outside a compaction that appends nothing. *)
LEMMA QuietKeeps ==
    ASSUME IInv, TypeOK', UNCHANGED <<conv, log, lost>>,
           pc \in InLoop \cup {"idle", "off"},
           pc' \notin {"summary", "summaryWrite", "archive", "truncate", "write", "results"},
           pc' \in InLoop => pc \in InLoop
    PROVE  IInv'
  <1>1. Good(conv)' /\ (Headless(Len(log)) <=> Headless(Len(log))')
    BY GoodStays DEF IInv
  <1>2. LogOK'
    BY DEF IInv, LogOK
  <1>3. EmptyOK'
    BY <1>1 DEF IInv, EmptyOK
  <1>4. ResultsOK' /\ CutOK'
    BY DEF ResultsOK, CutOK
  <1> QED BY <1>1, <1>2, <1>3, <1>4 DEF IInv

(* A step that appends a line. *)
LEMMA AppendKeeps ==
    ASSUME IInv, NEW kind \in Kind, AddLine(kind), UNCHANGED others, pc' \in Place,
           pc' \notin {"summary", "summaryWrite", "archive", "truncate", "write"},
           conv = <<>> => kind = "user" \/ Headless(Len(log)),
           kind = "results" => /\ log # <<>> /\ log[Len(log)].kind = "call"
                               /\ conv = <<>> => Len(log) \in lost,
           pc' = "results" => answer.ran /\ kind = "call"
    PROVE  IInv'
  <1>1. /\ conv' \in Seq(Line) /\ log' \in Seq(Line) /\ Len(log') <= MaxLines
        /\ torn' \in BOOLEAN /\ crashes + faults' <= MaxTroubles /\ faults' \in Nat
        /\ lost' \subseteq Nat
        /\ Good(conv)'
        /\ log' # <<>> /\ log'[Len(log')].kind = kind
        /\ conv' = <<>> => Headless(Len(log))' /\ Len(log') \in lost'
        /\ \A i \in 1..Len(log') : log'[i].n = i /\ log'[i].kind # "junk"
        /\ \A i \in 1..Len(log') : log'[i].kind = "results" => i > 1 /\ log'[i - 1].kind = "call"
        /\ lost' \subseteq 1..Len(log')
    BY AddLineKeeps
  <1>2. UNCHANGED <<archive, archiveTorn, covered, plan, draft, trigger, keep, text, data, answer,
                    child, crashes, ran, promptPlan, unarchived, unsummarised>>
    BY DEF others, local
  <1>3. TypeOK'
    BY <1>1, <1>2 DEF IInv, TypeOK
  <1>4. LogOK' /\ EmptyOK' /\ ResultsOK' /\ CutOK'
    BY <1>1, <1>2 DEF LogOK, EmptyOK, ResultsOK, CutOK
  <1> QED BY <1>1, <1>3, <1>4 DEF IInv

LEMMA FaultFacts ==
    ASSUME TypeOK, Fault
    PROVE  faults' \in Nat /\ crashes + faults' <= MaxTroubles
  BY BoundAssumption DEF TypeOK, Fault

(* A copied file is of the type of the file. *)
LEMMA CopyType ==
    ASSUME TypeOK, CopyFiles
    PROVE  child' \in SessionFiles /\ faults' \in Nat /\ crashes + faults' <= MaxTroubles
  <1>t. /\ conv \in Seq(Line) /\ archive \in Seq(Nat) /\ covered \subseteq Nat
        /\ plan \in Plan \cup {NoPlan} /\ faults \in Nat /\ crashes + faults <= MaxTroubles
    BY DEF TypeOK
  <1>1. Copies(conv) \subseteq Seq(Line) /\ Copies(archive) \subseteq Seq(Nat)
    BY <1>t, PrefixFacts DEF Copies
  <1>2. CASE /\ child' = [conv |-> conv, archive |-> archive, covered |-> covered, plan |-> plan]
             /\ faults' = faults
    BY <1>2, <1>t DEF SessionFiles
  <1>3. CASE Fault /\ \E c \in Copies(conv), a \in Copies(archive), s \in {covered, {}}, p \in {plan, NoPlan} :
                         child' = [conv |-> c, archive |-> a, covered |-> s, plan |-> p]
    <2>1. faults' \in Nat /\ crashes + faults' <= MaxTroubles
      BY <1>3, FaultFacts
    <2>2. PICK c \in Copies(conv), a \in Copies(archive), s \in {covered, {}}, p \in {plan, NoPlan} :
             child' = [conv |-> c, archive |-> a, covered |-> s, plan |-> p]
      BY <1>3
    <2>3. /\ c \in Seq(Line) /\ a \in Seq(Nat) /\ s \in SUBSET Nat /\ p \in Plan \cup {NoPlan}
      BY <1>1, <1>t
    <2>4. child' \in SessionFiles
      BY <2>2, <2>3 DEF SessionFiles
    <2> QED BY <2>1, <2>4
  <1> QED BY <1>2, <1>3 DEF CopyFiles

(* The serials of lines are numbers. *)
LEMMA NumbersNat ==
    ASSUME NEW s \in Seq(Line)
    PROVE  Numbers(s) \subseteq Nat
  <1>1. ASSUME NEW i \in 1..Len(s) PROVE s[i].n \in Nat
    <2>1. s[i] \in Line
      OBVIOUS
    <2> QED BY <2>1 DEF Line
  <1> QED BY <1>1 DEF Numbers

(* A step of agent_compact_context that leaves the lines alone: on with the *)
(* same cut, or back to the loop.                                           *)
LEMMA CompactKeeps ==
    ASSUME IInv, TypeOK', UNCHANGED <<conv, log, lost, torn>>,
           pc \in {"summary", "summaryWrite", "archive", "truncate"},
           \/ pc' \in {"summaryWrite", "archive"} /\ keep' = keep /\ pc \in {"summary", "summaryWrite"}
              /\ (pc' = "archive" => keep < Len(conv))
           \/ AfterCompact
    PROVE  IInv'
  <1>1. Good(conv)' /\ (Headless(Len(log)) <=> Headless(Len(log))')
    BY GoodStays DEF IInv
  <1>2. LogOK'
    BY DEF IInv, LogOK
  <1>3. EmptyOK'
    BY <1>1 DEF IInv, EmptyOK, InLoop, AfterCompact
  <1>4. ResultsOK'
    BY DEF ResultsOK, AfterCompact
  <1>5. CutOK'
    BY DEF IInv, CutOK, Aligned, AfterCompact
  <1> QED BY <1>1, <1>2, <1>3, <1>4, <1>5 DEF IInv

(* Where a compaction decides on a cut. *)
LEMMA CutKeeps ==
    ASSUME IInv, TypeOK', UNCHANGED <<conv, log, lost>>, pc \in InLoop, pc' = "summary",
           keep' \in AutoKeeps \cup PlanKeeps
    PROVE  IInv'
  <1>1. Good(conv)' /\ (Headless(Len(log)) <=> Headless(Len(log))')
    BY GoodStays DEF IInv
  <1>2. Aligned(keep')
    BY KeepsAreCuts DEF IInv
  <1>3. LogOK'
    BY DEF IInv, LogOK
  <1>4. EmptyOK' /\ ResultsOK'
    BY <1>1 DEF IInv, EmptyOK, ResultsOK
  <1>5. CutOK'
    BY <1>2 DEF CutOK, Aligned
  <1> QED BY <1>1, <1>3, <1>4, <1>5 DEF IInv

(* The types of the loop's small steps. *)
LEMMA LoopTypes ==
    ASSUME IInv,
           \/ LoopEnds \/ RequestFails \/ \E c \in BOOLEAN, st \in Stop : Answer(c, st)
           \/ RunTools \/ StorePlan \/ Decide \/ NoAutoCompact \/ Restart
    PROVE  TypeOK'
  <1>t. TypeOK
    BY DEF IInv
  <1> USE DEF Place, Trigger
  <1>1. CASE LoopEnds \/ RequestFails \/ NoAutoCompact \/ Restart
    BY <1>1, <1>t DEF LoopEnds, RequestFails, NoAutoCompact, Restart, files, local, history, TypeOK
  <1>2. CASE \E c \in BOOLEAN, st \in Stop : Answer(c, st)
    <2>1. PICK c \in BOOLEAN, st \in Stop : Answer(c, st)
      BY <1>2
    <2>2. answer' \in [stop : Stop, ran : BOOLEAN]
      BY <2>1 DEF Answer
    <2>3. pc' \in {"tools", "save"}
      BY <2>1 DEF Answer
    <2> QED BY <2>1, <2>2, <2>3, <1>t DEF Answer, files, TypeOK
  <1>3. CASE RunTools
    BY <1>3, <1>t DEF RunTools, TypeOK, NoChild, SessionFiles
  <1>4. CASE StorePlan
    <2>1. plan' \in Plan \cup {NoPlan} /\ draft' \in Plan \cup {NoPlan}
      BY <1>4, <1>t DEF StorePlan, TypeOK
    <2> QED BY <1>4, <2>1, <1>t DEF StorePlan, TypeOK
  <1>5. CASE Decide
    <2>1. pc' \in {"idle", "top", "end"} /\ answer' \in [stop : Stop, ran : BOOLEAN]
      BY <1>5 DEF Decide, NoAnswer, Stop
    <2> QED BY <1>5, <2>1, <1>t DEF Decide, files, TypeOK
  <1> QED BY <1>1, <1>2, <1>3, <1>4, <1>5

(* The types of the steps of a compaction. *)
LEMMA CompactTypes ==
    ASSUME IInv,
           \/ AutoCompact \/ PlanCompact \/ SummaryFails \/ store_summary_set \/ SummaryWrite
           \/ TrimFails \/ TrimArchive
    PROVE  TypeOK'
  <1>t. /\ TypeOK
        /\ conv \in Seq(Line) /\ Len(conv) \in Nat /\ archive \in Seq(Nat) /\ keep \in Nat
        /\ covered \subseteq Nat /\ text \subseteq Nat
        /\ unsummarised \subseteq Nat /\ unarchived \subseteq Nat
        /\ crashes + faults <= MaxTroubles
        /\ pc \in {"summary", "summaryWrite", "archive"} => keep <= Len(conv)
    BY DEF IInv, TypeOK
  <1>k. \A k \in AutoKeeps \cup PlanKeeps : k \in Nat /\ k <= Len(conv)
    BY KeepsAreCuts DEF IInv, Aligned
  <1>p. AfterCompact => /\ pc' \in Place /\ pc' \notin {"summary", "summaryWrite", "archive"}
                        /\ keep' \in Nat /\ data' \in Seq(Line)
    BY DEF AfterCompact, Place
  <1>q. Trim => \/ pc' = "archive" /\ keep' = keep /\ data' = data
                \/ AfterCompact
    BY DEF Trim
  <1>n. pc \in {"summary", "summaryWrite", "archive"} =>
           /\ Numbers(ToSummarise) \subseteq Nat
           /\ Dropped \in Seq(Line) /\ Kept \in Seq(Line)
    <2> SUFFICES ASSUME pc \in {"summary", "summaryWrite", "archive"}
                 PROVE  /\ Numbers(ToSummarise) \subseteq Nat
                        /\ Dropped \in Seq(Line) /\ Kept \in Seq(Line)
      OBVIOUS
    <2>1. Len(conv) - keep \in 0..Len(conv) /\ keep \in 0..Len(conv)
      BY <1>t
    <2>2. SubSeq(conv, 1, Len(conv) - keep) \in Seq(Line)
      BY <2>1, <1>t, PrefixFacts
    <2>3. Kept \in Seq(Line)
      BY <2>1, <1>t, SuffixFacts DEF Kept
    <2> QED BY <2>2, <2>3, NumbersNat DEF ToSummarise, Dropped
  <1>1. CASE AutoCompact \/ PlanCompact
    <2>1. /\ pc' \in Place /\ trigger' \in Trigger /\ keep' \in Nat
          /\ pc' \in {"summary", "summaryWrite", "archive"} => keep' <= Len(conv)
      BY <1>1, <1>t, <1>k DEF AutoCompact, PlanCompact, Place, Trigger, TypeOK
    <2> QED BY <1>1, <2>1, <1>t DEF AutoCompact, PlanCompact, files, history, TypeOK
  <1>2. CASE SummaryFails \/ TrimFails
    <2>1. AfterCompact
      BY <1>2 DEF SummaryFails, TrimFails
    <2> QED BY <1>2, <2>1, <1>p, <1>t DEF SummaryFails, TrimFails, files, history, TypeOK
  <1>3. CASE store_summary_set
    <2>0. pc = "summary"
      BY <1>3 DEF store_summary_set
    <2>1. faults' \in Nat /\ crashes + faults' <= MaxTroubles
      BY <1>3, <1>t, FaultFacts DEF store_summary_set, TypeOK
    <2>2. /\ covered' \subseteq Nat /\ text' \subseteq Nat /\ unsummarised' \subseteq Nat
      BY <1>3, <2>0, <1>t, <1>n DEF store_summary_set
    <2>3. \/ pc' \in {"summaryWrite", "archive"} /\ keep' = keep /\ data' = data
          \/ AfterCompact
      BY <1>3, <1>q DEF store_summary_set
    <2>4. /\ pc' \in Place /\ keep' \in Nat /\ data' \in Seq(Line)
          /\ pc' \in {"summary", "summaryWrite", "archive"} => keep' <= Len(conv)
      BY <2>0, <2>3, <1>p, <1>t DEF Place, TypeOK
    <2> QED BY <1>3, <2>1, <2>2, <2>4, <1>t DEF store_summary_set, TypeOK
  <1>4. CASE SummaryWrite
    <2>0. pc = "summaryWrite"
      BY <1>4 DEF SummaryWrite
    <2>1. faults' \in Nat /\ crashes + faults' <= MaxTroubles
      BY <1>4, <1>t, FaultFacts DEF SummaryWrite, TypeOK
    <2>2. /\ covered' \subseteq Nat /\ text' \subseteq Nat /\ unsummarised' \subseteq Nat
      BY <1>4, <1>t DEF SummaryWrite
    <2>3. (pc' = "archive" /\ keep' = keep /\ data' = data) \/ AfterCompact
      BY <1>4, <1>q DEF SummaryWrite
    <2>4. /\ pc' \in Place /\ keep' \in Nat /\ data' \in Seq(Line)
          /\ pc' \in {"summary", "summaryWrite", "archive"} => keep' <= Len(conv)
      BY <2>0, <2>3, <1>p, <1>t DEF Place, TypeOK
    <2> QED BY <1>4, <2>1, <2>2, <2>4, <1>t DEF SummaryWrite, TypeOK
  <1>5. CASE TrimArchive
    <2>0. pc = "archive" /\ pc' = "truncate"
      BY <1>5 DEF TrimArchive
    <2>1. PICK k \in 0..Len(Dropped), piece \in BOOLEAN :
             LET written == SubSeq(Dropped, IF archiveTorn THEN 2 ELSE 1, k)
             IN  /\ IF k = Len(Dropped) THEN ~piece /\ faults' = faults ELSE Fault
                 /\ archive' = archive \o [i \in 1..Len(written) |-> written[i].n]
                 /\ unarchived' = unarchived \cup (Numbers(Dropped) \ Numbers(written))
                 /\ archiveTorn' = piece
      BY <1>5 DEF TrimArchive
    <2>2. faults' \in Nat /\ crashes + faults' <= MaxTroubles
      BY <2>1, <1>t, FaultFacts DEF TypeOK
    <2> DEFINE b == IF archiveTorn THEN 2 ELSE 1
               written == SubSeq(Dropped, b, k)
    <2>3. Dropped \in Seq(Line) /\ Numbers(Dropped) \subseteq Nat /\ Kept \in Seq(Line)
      BY <2>0, <1>n, NumbersNat
    <2>4. archive' \in Seq(Nat)
      <3>1. written \in Seq(Line)
        <4>1. b \in 1..2 /\ k \in Nat /\ k <= Len(Dropped)
          BY <2>3
        <4> HIDE DEF b
        <4> QED BY <4>1, <2>3
      <3> HIDE DEF written
      <3>2. \A i \in 1..Len(written) : written[i].n \in Nat
        <4> SUFFICES ASSUME NEW i \in 1..Len(written) PROVE written[i].n \in Nat
          OBVIOUS
        <4>1. written[i] \in Line
          BY <3>1
        <4> QED BY <4>1 DEF Line
      <3>3. [i \in 1..Len(written) |-> written[i].n] \in Seq(Nat)
        BY <3>1, <3>2
      <3>4. archive' = archive \o [i \in 1..Len(written) |-> written[i].n]
        BY <2>1 DEF written
      <3> QED BY <3>3, <3>4, <1>t
    <2>5. unarchived' \subseteq Nat
      BY <2>1, <2>3, <1>t
    <2>6. archiveTorn' \in BOOLEAN
      BY <2>1
    <2>7. data' \in Seq(Line)
      BY <1>5, <2>3 DEF TrimArchive
    <2> HIDE DEF b, written
    <2>8. UNCHANGED <<conv, torn, covered, plan, draft, trigger, keep, text, answer, child,
                      crashes, log, ran, promptPlan, unsummarised, lost>>
      BY <1>5 DEF TrimArchive
    <2> QED BY <2>0, <2>2, <2>4, <2>5, <2>6, <2>7, <2>8, <1>t DEF TypeOK, Place
  <1> QED BY <1>1, <1>2, <1>3, <1>4, <1>5

(* The trim empties the conversation and holds what is to come back. *)
LEMMA TruncateKeeps ==
    ASSUME IInv, TrimTruncate
    PROVE  IInv'
  <1>t. TypeOK /\ pc = "truncate"
    BY DEF IInv, TrimTruncate
  <1>u. UNCHANGED <<log, lost, torn>>
    BY DEF TrimTruncate, history
  <1>1. CASE conv' = <<>> /\ pc' = "write" /\ UNCHANGED <<keep, data>>
    <2>1. TypeOK'
      BY <1>1, <1>t DEF TrimTruncate, history, TypeOK, Place
    <2>2. Good(data)'
      BY <1>t, <1>u, <1>1, GoodStays DEF IInv, CutOK
    <2>3. Good(conv)'
      BY <1>1 DEF Good, GoodTail, GoodHead
    <2>4. LogOK' /\ ResultsOK'
      BY <1>u, <1>1 DEF IInv, LogOK, ResultsOK
    <2>5. EmptyOK'
      BY <1>t, <1>u, <1>1, GoodStays DEF IInv, EmptyOK, InLoop
    <2>6. CutOK'
      BY <1>1, <2>2 DEF CutOK
    <2> QED BY <2>1, <2>3, <2>4, <2>5, <2>6 DEF IInv
  <1>2. CASE conv' = conv /\ AfterCompact
    <2>1. TypeOK'
      <3>1. /\ pc' \in Place /\ pc' \notin {"summary", "summaryWrite", "archive"}
            /\ keep' \in Nat /\ data' \in Seq(Line)
        BY <1>2 DEF AfterCompact, Place
      <3> QED BY <3>1, <1>2, <1>t DEF TrimTruncate, history, TypeOK
    <2> QED BY <2>1, <1>t, <1>u, <1>2, CompactKeeps
  <1> QED BY <1>1, <1>2 DEF TrimTruncate

(* What is written back is all of it, or the rest is lost. *)
LEMMA WriteKeeps ==
    ASSUME IInv, TrimWrite
    PROVE  IInv'
  <1>t. /\ TypeOK /\ pc = "write" /\ Good(data) /\ data \in Seq(Line) /\ log \in Seq(Line)
        /\ Len(data) \in Nat /\ lost \subseteq Nat
        /\ LogOK /\ EmptyOK
    BY DEF IInv, TrimWrite, TypeOK, CutOK
  <1>u. /\ log' = log /\ AfterCompact
        /\ UNCHANGED <<archive, archiveTorn, covered, plan, draft, trigger, text, answer, child,
                       crashes, ran, promptPlan, unarchived, unsummarised>>
    BY DEF TrimWrite
  <1>p. /\ pc' \in {"request", "planStore"} /\ pc' \in Place
        /\ keep' \in Nat /\ data' \in Seq(Line)
    BY <1>u DEF AfterCompact, Place
  <1>e. data = <<>> => Headless(Len(log))
    BY <1>t DEF EmptyOK
  <1>1. /\ conv' \in Seq(Line) /\ torn' \in BOOLEAN /\ lost' \subseteq Nat
        /\ faults' \in Nat /\ crashes + faults' <= MaxTroubles
        /\ lost' \subseteq 1..Len(log)
        /\ Good(conv)'
        /\ conv' = <<>> => Headless(Len(log))'
    <2>1. CASE conv' = data /\ UNCHANGED <<torn, lost, faults>>
      <3>1. Good(conv)'
        BY <2>1, <1>t, <1>u DEF Good, GoodTail, GoodHead, Headless, Numbers
      <3>2. conv' = <<>> => Headless(Len(log))'
        BY <2>1, <1>e, <1>u DEF Headless
      <3> QED BY <2>1, <3>1, <3>2, <1>t DEF TypeOK, LogOK
    <2>2. CASE /\ Fault
               /\ \E k \in 0..Len(data) :
                     /\ k = Len(data) => torn
                     /\ conv' = SubSeq(data, 1, k)
                     /\ lost' = lost \cup Numbers(SubSeq(data, k + 1, Len(data)))
               /\ torn' \in BOOLEAN
      <3>1. PICK k \in 0..Len(data) :
               /\ conv' = SubSeq(data, 1, k)
               /\ lost' = lost \cup Numbers(SubSeq(data, k + 1, Len(data)))
        BY <2>2
      <3>2. /\ faults' \in Nat /\ crashes + faults' <= MaxTroubles
        BY <2>2, <1>t, FaultFacts
      <3>3. SubSeq(data, 1, k) \in Seq(Line) /\ Len(SubSeq(data, 1, k)) = k
        BY <1>t, PrefixFacts
      <3>4. Numbers(SubSeq(data, k + 1, Len(data))) \subseteq 1..Len(log)
        <4>1. Numbers(SubSeq(data, k + 1, Len(data))) \subseteq Numbers(data)
          BY <1>t, NumbersSplit
        <4>2. Numbers(data) \subseteq 1..Len(log)
          BY <1>t DEF Good, GoodTail, Numbers
        <4> QED BY <4>1, <4>2
      <3>5. PICK d : d = data
        OBVIOUS
      <3>a. /\ d \in Seq(Line) /\ Good(d) /\ k \in 0..Len(d) /\ log \in Seq(Line) /\ log' = log
            /\ lost' = lost \cup Numbers(SubSeq(d, k + 1, Len(d)))
        BY <1>t, <1>u, <3>1, <3>5
      <3>b. /\ GoodTail(SubSeq(d, 1, k))' /\ GoodHead(SubSeq(d, 1, k))'
            /\ k = 0 /\ d # <<>> => Headless(Len(log))'
        BY <3>a, GoodPrefix
      <3>6. Good(conv)'
        <4>1. conv' = SubSeq(d, 1, k)
          BY <3>1, <3>5
        <4> QED BY <4>1, <3>b DEF Good, GoodTail, GoodHead, Headless, Numbers
      <3>7. conv' = <<>> => k = 0
        BY <3>1, <3>3
      <3>8. k = 0 => Headless(Len(log))'
        <4>1. data = <<>> => Headless(Len(log))'
          <5>1. lost \subseteq lost'
            BY <3>1
          <5> QED BY <5>1, <1>e, <1>u DEF Headless
        <4> QED BY <4>1, <3>5, <3>b
      <3>9. lost' \subseteq 1..Len(log) /\ lost' \subseteq Nat
        <4>1. lost \subseteq 1..Len(log)
          BY <1>t DEF LogOK
        <4>2. 1..Len(log) \subseteq Nat
          BY <1>t
        <4> QED BY <4>1, <4>2, <3>1, <3>4
      <3> QED BY <2>2, <3>1, <3>2, <3>3, <3>6, <3>7, <3>8, <3>9
    <2> QED BY <2>1, <2>2 DEF TrimWrite
  <1>2. TypeOK'
    BY <1>t, <1>u, <1>p, <1>1 DEF TypeOK
  <1>3. LogOK'
    BY <1>t, <1>u, <1>1 DEF LogOK
  <1>4. EmptyOK' /\ ResultsOK' /\ CutOK'
    BY <1>p, <1>1 DEF EmptyOK, ResultsOK, CutOK
  <1> QED BY <1>1, <1>2, <1>3, <1>4 DEF IInv

(* A crash inside the write loses what was to come back. *)
LEMMA CrashKeeps ==
    ASSUME IInv, Crash
    PROVE  IInv'
  <1>t. /\ TypeOK /\ Good(conv) /\ LogOK
        /\ log \in Seq(Line) /\ data \in Seq(Line) /\ lost \subseteq Nat
        /\ text \subseteq Nat /\ unsummarised \subseteq Nat
        /\ crashes \in Nat /\ faults \in Nat /\ MaxTroubles \in Nat
        /\ crashes + faults <= MaxTroubles
    BY BoundAssumption DEF IInv, TypeOK
  <1>1. log' = log /\ conv' = conv /\ pc' = "off"
    BY DEF Crash
  <1>2. lost \subseteq lost' /\ lost' \subseteq 1..Len(log)
    <2>1. lost \subseteq 1..Len(log)
      BY <1>t DEF LogOK
    <2>2. pc = "write" => Numbers(data) \subseteq 1..Len(log)
      BY DEF IInv, CutOK, Good, GoodTail, Numbers
    <2> QED BY <2>1, <2>2 DEF Crash
  <1>3. Good(conv)'
    BY <1>t, <1>1, <1>2 DEF Good, GoodTail, GoodHead, Headless, Numbers
  <1>4. LogOK'
    BY <1>t, <1>1, <1>2 DEF LogOK
  <1>5. EmptyOK' /\ ResultsOK' /\ CutOK'
    BY <1>1 DEF EmptyOK, ResultsOK, CutOK, InLoop
  <1>6. lost' \subseteq Nat
    <2>1. 1..Len(log) \subseteq Nat
      BY <1>t
    <2> QED BY <2>1, <1>2
  <1>7. crashes' \in Nat /\ crashes' + faults' <= MaxTroubles
    BY <1>t DEF Crash
  <1>8. TypeOK'
    <2>1. child' \in SessionFiles
      BY NoChildType DEF Crash
    <2>2. answer' \in [stop : Stop, ran : BOOLEAN]
      BY DEF Crash, NoAnswer, Stop
    <2>3. /\ pc' \in Place /\ trigger' \in Trigger /\ keep' \in Nat /\ data' \in Seq(Line)
          /\ text' \subseteq Nat /\ unsummarised' \subseteq Nat /\ torn' \in BOOLEAN
          /\ promptPlan' \in Plan \cup {NoPlan}
          /\ pc' \notin {"summary", "summaryWrite", "archive"}
      BY <1>t DEF Crash, Place, Trigger
    <2> QED BY <2>1, <2>2, <2>3, <1>t, <1>6, <1>7 DEF Crash, TypeOK
  <1> QED BY <1>3, <1>4, <1>5, <1>8 DEF IInv

LEMMA NextIInv == IInv /\ [Next]_vars => IInv'
  <1> SUFFICES ASSUME IInv, [Next]_vars PROVE IInv'
    OBVIOUS
  <1>t. TypeOK
    BY DEF IInv
  <1> USE DEF Place
  <1>1. CASE LoopStart
    <2>1. /\ AddLine("user") /\ UNCHANGED others /\ pc' = "top" /\ "user" \in Kind
      BY <1>1 DEF LoopStart, store_conv_add_user, Kind
    <2> QED BY <2>1, AppendKeeps
  <1>2. CASE Drain
    <2>1. /\ AddLine("user") /\ UNCHANGED others /\ pc' = "top" /\ "user" \in Kind
      BY <1>2 DEF Drain, store_conv_add_user, Kind
    <2> QED BY <2>1, AppendKeeps
  <1>3. CASE DrainAtEnd
    <2>1. /\ AddLine("user") /\ UNCHANGED others /\ pc' \in {"top", "idle"} /\ "user" \in Kind
      BY <1>3 DEF DrainAtEnd, store_conv_add_user, Kind
    <2> QED BY <2>1, AppendKeeps
  <1>4. CASE Save
    <2>1. /\ pc = "save" /\ UNCHANGED others
          /\ pc' = IF answer.ran THEN "results" ELSE "decide"
          /\ AddLine(IF answer.ran THEN "call" ELSE "text")
      BY <1>4 DEF Save, store_conv_add_assistant
    <2>2. conv = <<>> => Headless(Len(log))
      BY <2>1 DEF IInv, EmptyOK, InLoop
    <2> DEFINE kind == IF answer.ran THEN "call" ELSE "text"
    <2>3. kind \in Kind /\ kind # "results" /\ (pc' = "results" => answer.ran /\ kind = "call")
      BY <2>1 DEF Kind
    <2>4. AddLine(kind)
      BY <2>1
    <2>5. pc' \in {"results", "decide"}
      BY <2>1
    <2> HIDE DEF kind
    <2> QED BY <2>1, <2>2, <2>3, <2>4, <2>5, AppendKeeps
  <1>5. CASE SaveResults
    <2>1. /\ pc = "results" /\ UNCHANGED others /\ pc' = "decide"
          /\ AddLine("results") /\ "results" \in Kind
      BY <1>5 DEF SaveResults, store_conv_add_tool_results, Kind
    <2>2. conv = <<>> => Headless(Len(log))
      BY <2>1 DEF IInv, EmptyOK, InLoop
    <2>3. log # <<>> /\ log[Len(log)].kind = "call" /\ (conv = <<>> => Len(log) \in lost)
      BY <2>1 DEF IInv, ResultsOK
    <2> QED BY <2>1, <2>2, <2>3, AppendKeeps
  <1>6. CASE \/ LoopEnds \/ RequestFails \/ \E c \in BOOLEAN, st \in Stop : Answer(c, st)
             \/ RunTools \/ StorePlan \/ Decide \/ NoAutoCompact \/ Restart
    <2>1. TypeOK'
      BY <1>6, LoopTypes
    <2>2. UNCHANGED <<conv, log, lost>>
      BY <1>6 DEF LoopEnds, RequestFails, Answer, RunTools, StorePlan, Decide, NoAutoCompact, Restart,
                  files, history
    <2>3. /\ pc \in InLoop \cup {"idle", "off"}
          /\ pc' \notin {"summary", "summaryWrite", "archive", "truncate", "write", "results"}
          /\ pc' \in InLoop => pc \in InLoop
      <3>1. CASE \E c \in BOOLEAN, st \in Stop : Answer(c, st)
        <4>1. pc = "request" /\ pc' \in {"tools", "save"}
          BY <3>1 DEF Answer
        <4> QED BY <4>1 DEF InLoop
      <3>2. CASE Decide
        <4>1. pc = "decide" /\ pc' \in {"idle", "top", "end"}
          BY <3>2 DEF Decide
        <4> QED BY <4>1 DEF InLoop
      <3>3. CASE LoopEnds \/ RequestFails \/ RunTools \/ StorePlan \/ NoAutoCompact \/ Restart
        BY <3>3 DEF LoopEnds, RequestFails, RunTools, StorePlan, NoAutoCompact, Restart, InLoop
      <3> QED BY <1>6, <3>1, <3>2, <3>3
    <2> QED BY <2>1, <2>2, <2>3, QuietKeeps
  <1>7. CASE store_session_fork
    <2>1. pc = "tools" /\ CopyFiles /\ UNCHANGED <<files, pc, local, crashes, history>>
      BY <1>7 DEF store_session_fork
    <2>2. TypeOK'
      <3>1. child' \in SessionFiles /\ faults' \in Nat /\ crashes + faults' <= MaxTroubles
        BY <2>1, <1>t, CopyType
      <3> QED BY <2>1, <3>1, <1>t DEF TypeOK, files, local, history
    <2>3. /\ UNCHANGED <<conv, log, lost>>
          /\ pc \in InLoop
          /\ pc' \notin {"summary", "summaryWrite", "archive", "truncate", "write", "results"}
      BY <2>1 DEF files, history, InLoop
    <2> QED BY <2>2, <2>3, QuietKeeps
  <1>8. CASE AutoCompact
    <2>1. /\ pc \in InLoop /\ pc' = "summary" /\ UNCHANGED <<conv, log, lost>>
          /\ keep' \in AutoKeeps
      BY <1>8 DEF AutoCompact, InLoop, files, history
    <2> QED BY <1>8, <2>1, CompactTypes, CutKeeps
  <1>9. CASE PlanCompact
    <2>1. /\ pc = "plan" /\ pc \in InLoop /\ UNCHANGED <<conv, log, lost>> /\ TypeOK'
      BY <1>9, CompactTypes DEF PlanCompact, InLoop, files, history
    <2>2. CASE pc' = "planStore"
      BY <2>1, <2>2, QuietKeeps DEF InLoop
    <2>3. CASE pc' = "summary" /\ keep' \in PlanKeeps
      BY <2>1, <2>3, CutKeeps
    <2> QED BY <1>9, <2>2, <2>3 DEF PlanCompact
  <1>10. CASE \/ SummaryFails \/ store_summary_set \/ SummaryWrite \/ TrimFails
    <2>1. TypeOK'
      BY <1>10, CompactTypes
    <2>2. UNCHANGED <<conv, log, lost, torn>>
      BY <1>10 DEF SummaryFails, store_summary_set, SummaryWrite, TrimFails, files, history
    <2>3. /\ pc \in {"summary", "summaryWrite", "archive", "truncate"}
          /\ \/ /\ pc' \in {"summaryWrite", "archive"} /\ keep' = keep /\ pc \in {"summary", "summaryWrite"}
                /\ (pc' = "archive" => keep < Len(conv))
             \/ AfterCompact
      BY <1>10 DEF SummaryFails, store_summary_set, SummaryWrite, TrimFails, Trim
    <2> QED BY <2>1, <2>2, <2>3, CompactKeeps
  <1>11. CASE TrimArchive
    <2>1. TypeOK'
      BY <1>11, CompactTypes
    <2>2. pc = "archive" /\ pc' = "truncate" /\ data' = Kept /\ UNCHANGED <<conv, log, lost, keep>>
      BY <1>11 DEF TrimArchive
    <2>3. Good(conv)' /\ (Headless(Len(log)) <=> Headless(Len(log))')
      BY <2>2, GoodStays DEF IInv
    <2>4. Good(Kept) /\ (Kept = <<>> => Headless(Len(log)))
      BY <2>2, KeptIsGood
    <2>5. Good(data)'
      BY <2>2, <2>4 DEF Good, GoodTail, GoodHead, Headless, Numbers
    <2>6. LogOK' /\ ResultsOK'
      BY <2>2 DEF IInv, LogOK, ResultsOK
    <2>7. EmptyOK'
      <3>1. pc \in InLoop
        BY <2>2 DEF InLoop
      <3> QED BY <3>1, <2>2, <2>3, <2>4 DEF IInv, EmptyOK
    <2>8. Aligned(keep)' /\ (keep < Len(conv))'
      BY <2>2 DEF IInv, CutOK, Aligned
    <2>9. Kept' = Kept
      BY <2>2 DEF Kept
    <2>10. CutOK'
      BY <2>2, <2>5, <2>8, <2>9 DEF CutOK
    <2> QED BY <2>1, <2>3, <2>6, <2>7, <2>10 DEF IInv
  <1>12. CASE TrimTruncate
    BY <1>12, TruncateKeeps
  <1>13. CASE TrimWrite
    BY <1>13, WriteKeeps
  <1>14. CASE Crash
    BY <1>14, CrashKeeps
  <1>15. CASE UNCHANGED vars
    <2>1. UNCHANGED <<conv, log, lost, data, pc, keep, answer>> /\ TypeOK'
      BY <1>15, <1>t DEF vars, files, local, history, TypeOK
    <2>2. Good(conv)' /\ (Headless(Len(log)) <=> Headless(Len(log))') /\ (Good(data) <=> Good(data)')
      BY <2>1, GoodStays DEF IInv
    <2>3. LogOK' /\ ResultsOK' /\ EmptyOK'
      BY <2>1, <2>2 DEF IInv, LogOK, ResultsOK, EmptyOK
    <2>4. CutOK'
      BY <2>1, <2>2 DEF IInv, CutOK, Aligned, Kept
    <2> QED BY <2>1, <2>2, <2>3, <2>4 DEF IInv
  <1> QED
    BY <1>1, <1>2, <1>3, <1>4, <1>5, <1>6, <1>7, <1>8, <1>9, <1>10, <1>11, <1>12, <1>13, <1>14, <1>15
    DEF Next

------------------------------------------------------------------------------
(* The invariant holds of every reachable state. *)
LEMMA SpecIInv == Spec => []IInv
  BY InitIInv, NextIInv, PTL DEF Spec

(* agent_loop and agent_compact_context: at every moment, whatever write      *)
(* fails, is cut short or dies with the process, the conversation is the end  *)
(* of what was said, as far as no broken write took it, and starts with a     *)
(* user message unless that was taken.                                        *)
THEOREM ConversationSafety == Spec => [](TypeOK /\ ConvIsSuffix /\ ConvStartsWithUser)
  <1>1. IInv => TypeOK /\ ConvIsSuffix /\ ConvStartsWithUser
    <2> SUFFICES ASSUME IInv PROVE TypeOK /\ ConvIsSuffix /\ ConvStartsWithUser
      OBVIOUS
    <2>1. ConvIsSuffix
      BY DEF IInv, Good, GoodTail, ConvIsSuffix
    <2>2. ConvStartsWithUser
      BY DEF IInv, Good, GoodHead, ConvStartsWithUser
    <2> QED BY <2>1, <2>2 DEF IInv
  <1> QED BY <1>1, SpecIInv, PTL

(* compact_dp_decision and compact_turn_keep: whatever cut they choose, and   *)
(* for every ratio of turns to keep, a user line is the first one behind it,  *)
(* or the conversation has none and nothing is kept.                          *)
THEOREM CutsBeforeUser ==
    Spec => [](\A k \in AutoKeeps \cup PlanKeeps : Aligned(k))
  <1>1. IInv => \A k \in AutoKeeps \cup PlanKeeps : Aligned(k)
    BY KeepsAreCuts DEF IInv
  <1> QED BY <1>1, SpecIInv, PTL

(* compact_turn_keep, store_conv_add_tool_results: a line of results directly *)
(* follows the line with its calls, across any number of compactions, crashes *)
(* and broken writes, unless the line with the calls was lost in one.         *)
THEOREM NoOrphanResults == Spec => []ResultsFollowCall
  <1>1. IInv => ResultsFollowCall
    <2> SUFFICES ASSUME IInv, NEW i \in 1..Len(conv), conv[i].kind = "results",
                        conv[i].n - 1 \notin lost
                 PROVE  i > 1 /\ conv[i - 1].kind = "call" /\ conv[i - 1].n = conv[i].n - 1
      BY DEF ResultsFollowCall
    <2>1. /\ conv \in Seq(Line) /\ log \in Seq(Line) /\ Len(conv) \in Nat /\ Len(log) \in Nat
          /\ Good(conv) /\ LogOK
      BY DEF IInv, TypeOK
    <2>2. /\ conv[i].n \in 1..Len(log) /\ conv[i] = log[conv[i].n]
          /\ \A a, b \in 1..Len(conv) : a < b => conv[a].n < conv[b].n
          /\ conv # <<>> /\ \A m \in conv[1].n..Len(log) : m \in Numbers(conv) \cup lost
          /\ conv[1].n \in 1..Len(log)
          /\ 1 \in 1..Len(conv)
      BY <2>1 DEF Good, GoodTail
    <2>3. i > 1
      BY <2>1, <2>2 DEF Good, GoodHead
    <2>4. conv[i].n > 1 /\ log[conv[i].n - 1].kind = "call"
      BY <2>1, <2>2 DEF LogOK
    <2>5. conv[i].n - 1 \in conv[1].n..Len(log)
      <3>1. conv[1].n < conv[i].n
        BY <2>2, <2>3
      <3> QED BY <3>1, <2>1, <2>2
    <2>6. PICK j \in 1..Len(conv) : conv[j].n = conv[i].n - 1
      BY <2>2, <2>5 DEF Numbers
    <2>7. j = i - 1
      <3>1. conv[i].n \in Nat /\ conv[j].n < conv[i].n
        BY <2>2, <2>6, <2>1
      <3>2. ~(i <= j)
        <4>1. ASSUME i <= j PROVE FALSE
          <5>1. i = j \/ conv[i].n < conv[j].n
            BY <4>1, <2>2
          <5> QED BY <5>1, <3>1, <2>1, <2>6
        <4> QED BY <4>1
      <3>3. ~(j < i - 1)
        <4>1. ASSUME j < i - 1 PROVE FALSE
          <5>1. i - 1 \in 1..Len(conv) /\ i - 1 < i
            BY <2>3, <2>1
          <5>2. conv[j].n < conv[i - 1].n /\ conv[i - 1].n < conv[i].n
            BY <4>1, <5>1, <2>2
          <5>3. conv[i - 1].n \in 1..Len(log)
            BY <5>1, <2>1 DEF Good, GoodTail
          <5> QED BY <5>2, <5>3, <2>6, <2>1, <2>2
        <4> QED BY <4>1
      <3> QED BY <3>2, <3>3, <2>1
    <2>8. conv[j] = log[conv[j].n] \/ conv[j].n \in lost
      BY <2>1 DEF Good, GoodTail
    <2> QED BY <2>3, <2>4, <2>6, <2>7, <2>8
  <1> QED BY <1>1, SpecIInv, PTL
==============================================================================
