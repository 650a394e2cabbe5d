---------------------------- MODULE BashToolProofs ----------------------------
(***************************************************************************)
(* Proofs about BashTool, for any number of calls that run at once, any    *)
(* number of bytes and any sizes: a command that timed out leaves nothing  *)
(* of its process group running, the output of a command is kept, and the  *)
(* text handed back has whole characters only, with that output in it.     *)
(***************************************************************************)
EXTENDS BashTool, SequenceTheorems, FiniteSetTheorems, WellFoundedInduction, TLAPS

ProcPlace == {"none", "born", "running", "ended", "reaped"}
Holder == Process \cup {Agent(c) : c \in Call}

Types ==
    /\ pc \in [Call -> Place] /\ kind \in [Call -> {"sync", "async"}]
    /\ limit \in [Call -> BOOLEAN] /\ late \in [Call -> BOOLEAN] /\ timedOut \in [Call -> BOOLEAN]
    /\ proc \in [Process -> ProcPlace]
    /\ group \in [Call -> SUBSET Role]
    /\ writers \in [Call -> SUBSET Holder]
    /\ pipe \in [Call -> Seq(ByteClass)] /\ out \in [Call -> Seq(ByteClass)]
    /\ written \in [Call -> Seq(ByteClass)]
    /\ atExit \in [Call -> Nat]

(* From setpgid in the parent on the shell is in its group; a call that has  *)
(* timed out has killed all of it, and a dead shell starts no further job.   *)
Staged(c) ==
    /\ pc[c] \in {"setup", "read", "check", "wait"} => proc[<<c, "shell">>] # "none"
    /\ pc[c] \in {"read", "check", "wait"} => "shell" \in group[c]
    /\ proc[<<c, "shell">>] = "reaped" => pc[c] = "done"
    /\ kind[c] = "async" => pc[c] \notin {"read", "check"}
    /\ timedOut[c] => /\ pc[c] \in {"wait", "done"}
                      /\ proc[<<c, "shell">>] \in {"ended", "reaped"}
                      /\ \A r \in group[c] : ~Running(<<c, r>>)

(* What has been written is what has been read and what is in the pipe; once *)
(* the end of file is read nobody can write any more.                        *)
Prefix(s, t) == Len(s) <= Len(t) /\ \A i \in 1..Len(s) : s[i] = t[i]
Split(w, s, t) ==
    /\ Len(w) = Len(s) + Len(t)
    /\ \A i \in 1..Len(s) : w[i] = s[i]
    /\ \A i \in 1..Len(t) : w[Len(s) + i] = t[i]
Reading(c) == pc[c] \in {"start", "fork", "setup", "read", "check"}
Closing(c) == pc[c] = "wait" \/ Ran(c)
Kept(c) ==
    /\ atExit[c] <= Len(written[c])
    /\ kind[c] = "sync" /\ Reading(c) /\ Clean(written[c]) => Split(written[c], out[c], pipe[c])
    /\ kind[c] = "sync" /\ Closing(c) /\ ~timedOut[c] => writers[c] = {}
    /\ kind[c] = "sync" /\ Closing(c) /\ Clean(written[c]) =>
          Prefix(out[c], written[c]) /\ (~timedOut[c] => out[c] = written[c])
    /\ kind[c] = "async" /\ Ran(c) /\ Clean(written[c]) =>
          Prefix(out[c], written[c]) /\ Len(out[c]) >= atExit[c]

IInv == Types /\ \A c \in Call : Staged(c) /\ Kept(c)

------------------------------------------------------------------------------
(* Facts about sequences. *)

LEMMA PrefixIs == ASSUME NEW S, NEW s \in Seq(S), NEW t \in Seq(S), Prefix(s, t)
                  PROVE  IsPrefix(s, t)
<1>1. Len(s) \in Nat /\ Len(t) \in Nat /\ Len(s) <= Len(t)
    BY DEF Prefix
<1>2. SubSeq(s, 1, Len(s)) = SubSeq(t, 1, Len(s))
    BY <1>1 DEF Prefix
<1> QED
    BY <1>1, <1>2 DEF IsPrefix

LEMMA PrefixAppend == ASSUME NEW S, NEW s \in Seq(S), NEW t \in Seq(S), NEW b \in S, Prefix(s, t)
                      PROVE  Prefix(s, Append(t, b))
BY DEF Prefix

LEMMA CleanAppend == ASSUME NEW s \in Seq(ByteClass), NEW b \in ByteClass, Clean(Append(s, b))
                     PROVE  Clean(s)
<1> SUFFICES ASSUME NEW i \in 1..Len(s) PROVE s[i] # "nul"
    BY DEF Clean
<1>1. i \in 1..Len(Append(s, b)) /\ Append(s, b)[i] = s[i]
    OBVIOUS
<1> QED
    BY <1>1 DEF Clean

LEMMA UpToNulType == ASSUME NEW s \in Seq(ByteClass)
                     PROVE  UpToNul(s) \in Seq(ByteClass) /\ (Clean(s) => UpToNul(s) = s)
<1> DEFINE nuls == {i \in 1..Len(s) : s[i] = "nul"}
           first == CHOOSE i \in nuls : \A j \in nuls : i <= j
<1>1. CASE nuls = {}
    BY <1>1 DEF UpToNul
<1>2. CASE nuls # {}
    <2>1. nuls \subseteq Nat
        OBVIOUS
    <2>2. PICK m \in nuls : \A j \in nuls : ~(<<j, m>> \in OpToRel(<, Nat))
        BY <1>2, <2>1, NatLessThanWellFounded, WFMin
    <2>3. ASSUME NEW j \in nuls PROVE m <= j
        <3>1. j \in Nat /\ m \in Nat /\ <<j, m>> \in Nat \X Nat
            BY <2>1
        <3>2. ~(j < m)
            BY <2>2, <3>1, Zenon DEF OpToRel
        <3> QED
            BY <3>1, <3>2
    <2>4. first \in nuls
        BY <2>3
    <2>5. UpToNul(s) = SubSeq(s, 1, first - 1)
        BY <1>2 DEF UpToNul
    <2>6. ~Clean(s)
        BY <1>2 DEF Clean
    <2> HIDE DEF first
    <2> QED
        BY <2>4, <2>5, <2>6
<1> QED
    BY <1>1, <1>2

(* What is written goes to the end of the pipe. *)
LEMMA SplitAppend ==
    ASSUME NEW w \in Seq(ByteClass), NEW o \in Seq(ByteClass), NEW p \in Seq(ByteClass),
           NEW b \in ByteClass, Split(w, o, p)
    PROVE  Split(Append(w, b), o, Append(p, b))
<1> DEFINE v == Append(w, b)
           q == Append(p, b)
<1>1. Len(w) \in Nat /\ Len(o) \in Nat /\ Len(p) \in Nat /\ Len(w) = Len(o) + Len(p)
    BY DEF Split
<1>2. /\ Len(v) = Len(w) + 1 /\ Len(q) = Len(p) + 1
      /\ \A i \in 1..Len(w) : v[i] = w[i]
      /\ \A i \in 1..Len(p) : q[i] = p[i]
      /\ v[Len(w) + 1] = b /\ q[Len(p) + 1] = b
    OBVIOUS
<1> HIDE DEF v, q
<1>3. \A i \in 1..Len(o) : v[i] = o[i]
    BY <1>1, <1>2 DEF Split
<1>4. ASSUME NEW i \in 1..Len(q) PROVE v[Len(o) + i] = q[i]
    <2>1. CASE i = Len(p) + 1
        BY <1>1, <1>2, <2>1
    <2>2. CASE i \in 1..Len(p)
        <3>1. Len(o) + i \in 1..Len(w)
            BY <1>1, <2>2
        <3> QED
            BY <1>2, <2>2, <3>1 DEF Split
    <2> QED
        BY <1>1, <1>2, <2>1, <2>2
<1>5. Split(v, o, q)
    BY <1>1, <1>2, <1>3, <1>4 DEF Split
<1> QED
    BY <1>5 DEF v, q

(* One read moves the first n bytes of the pipe to the output. *)
LEMMA ReadMoves ==
    ASSUME NEW w \in Seq(ByteClass), NEW o \in Seq(ByteClass), NEW p \in Seq(ByteClass),
           NEW n \in 1..Len(p), Clean(w), Split(w, o, p)
    PROVE  Split(w, o \o UpToNul(SubSeq(p, 1, n)), SubSeq(p, n + 1, Len(p)))
<1> DEFINE h == SubSeq(p, 1, n)
           r == SubSeq(p, n + 1, Len(p))
           x == o \o h
<1>0. /\ Len(w) \in Nat /\ Len(p) \in Nat /\ Len(o) \in Nat /\ n \in Nat /\ n <= Len(p)
      /\ Len(w) = Len(o) + Len(p)
    BY DEF Split
<1>1. h \in Seq(ByteClass) /\ Len(h) = n /\ \A i \in 1..n : h[i] = p[i]
    BY <1>0
<1>2. r \in Seq(ByteClass) /\ Len(r) = Len(p) - n /\ \A i \in 1..(Len(p) - n) : r[i] = p[n + i]
    BY <1>0
<1> HIDE DEF h, r
<1>3. UpToNul(h) = h
    <2> SUFFICES ASSUME NEW i \in 1..n PROVE h[i] # "nul"
        BY <1>1, UpToNulType DEF Clean
    <2>1. Len(o) + i \in 1..Len(w) /\ i \in 1..Len(p)
        BY <1>0
    <2>2. w[Len(o) + i] = p[i]
        BY <2>1 DEF Split
    <2> QED
        BY <1>1, <2>1, <2>2 DEF Clean
<1>4. /\ Len(x) = Len(o) + n
      /\ \A i \in 1..Len(o) : x[i] = o[i]
      /\ \A i \in 1..n : x[Len(o) + i] = h[i]
    <2>0. Len(x) = Len(o) + n
        <3>1. Len(x) = Len(o) + Len(h)
            BY <1>1
        <3> QED
            BY <1>1, <3>1
    <2>1. ASSUME NEW i \in 1..Len(o) PROVE x[i] = o[i]
        <3>1. i \in 1..(Len(o) + Len(h)) /\ i <= Len(o)
            BY <1>0, <1>1
        <3> QED
            BY <1>1, <3>1
    <2>2. ASSUME NEW i \in 1..n PROVE x[Len(o) + i] = h[i]
        <3>1. Len(o) + i \in 1..(Len(o) + Len(h)) /\ ~(Len(o) + i <= Len(o))
            BY <1>0, <1>1
        <3>2. x[Len(o) + i] = h[(Len(o) + i) - Len(o)]
            BY <1>0, <1>1, <3>1
        <3>3. (Len(o) + i) - Len(o) = i
            BY <1>0
        <3> QED
            BY <3>2, <3>3
    <2> QED
        BY <2>0, <2>1, <2>2
<1> HIDE DEF x
<1>5. ASSUME NEW i \in 1..Len(x) PROVE w[i] = x[i]
    <2>1. CASE i \in 1..Len(o)
        BY <1>4, <2>1 DEF Split
    <2>2. CASE i - Len(o) \in 1..n
        <3>1. i - Len(o) \in 1..Len(p) /\ i = Len(o) + (i - Len(o))
            BY <1>0, <2>2
        <3>2. w[i] = p[i - Len(o)]
            BY <3>1 DEF Split
        <3>3. x[i] = h[i - Len(o)]
            BY <1>4, <2>2, <3>1
        <3> QED
            BY <1>1, <2>2, <3>2, <3>3
    <2> QED
        BY <1>0, <1>4, <2>1, <2>2
<1>6. ASSUME NEW i \in 1..(Len(p) - n) PROVE w[Len(x) + i] = r[i]
    <2>1. n + i \in 1..Len(p) /\ Len(x) + i = Len(o) + (n + i)
        BY <1>0, <1>4
    <2>2. w[Len(o) + (n + i)] = p[n + i]
        BY <2>1 DEF Split
    <2> QED
        BY <1>2, <2>1, <2>2
<1>7. Split(w, x, r)
    BY <1>0, <1>2, <1>4, <1>5, <1>6 DEF Split
<1> QED
    BY <1>3, <1>7 DEF h, r, x

(* An empty pipe: all that was written has been read. *)
LEMMA SplitEmpty ==
    ASSUME NEW w \in Seq(ByteClass), NEW o \in Seq(ByteClass), Split(w, o, <<>>)
    PROVE  o = w
<1>1. Len(w) = Len(o)
    BY DEF Split
<1> QED
    BY <1>1 DEF Split

LEMMA SplitPrefix ==
    ASSUME NEW w \in Seq(ByteClass), NEW o \in Seq(ByteClass), NEW p \in Seq(ByteClass),
           Split(w, o, p)
    PROVE  Prefix(o, w)
BY DEF Split, Prefix

------------------------------------------------------------------------------
(* The text of a result.  What a recursive function computes is shown by a   *)
(* least counterexample.                                                     *)

LEMMA LeastOf == ASSUME NEW S, S \subseteq Nat, S # {}
                 PROVE  \E m \in S : \A j \in S : m <= j
<1>1. PICK m \in S : \A j \in S : ~(<<j, m>> \in OpToRel(<, Nat))
    BY NatLessThanWellFounded, WFMin
<1>2. ASSUME NEW j \in S PROVE m <= j
    <2>1. j \in Nat /\ m \in Nat /\ <<j, m>> \in Nat \X Nat
        OBVIOUS
    <2>2. ~(j < m)
        BY <1>1, <2>1, Zenon DEF OpToRel
    <2> QED
        BY <2>1, <2>2
<1> QED
    BY <1>2

(* What holds of a number when it holds of all the larger ones up to N holds *)
(* of every number up to N.                                                  *)
LEMMA Downward ==
    ASSUME NEW N \in Nat, NEW G, \A i \in 1..N : (\A j \in (i + 1)..N : j \in G) => i \in G
    PROVE  \A i \in 1..N : i \in G
<1> DEFINE B == {b \in Nat : \E i \in 1..N : i \notin G /\ b = N - i}
<1> SUFFICES ASSUME NEW k \in 1..N, k \notin G PROVE FALSE
    OBVIOUS
<1>1. N - k \in B
    OBVIOUS
<1>2. PICK b \in B : \A j \in B : b <= j
    <2>1. B \subseteq Nat /\ B # {}
        BY <1>1
    <2> HIDE DEF B
    <2> QED
        BY <2>1, LeastOf
<1>3. PICK i \in 1..N : i \notin G /\ b = N - i
    BY <1>2
<1>4. ASSUME NEW j \in (i + 1)..N PROVE j \in G
    <2>1. j \in 1..N /\ N - j \in Nat /\ ~(N - i <= N - j)
        BY <1>3, <1>4
    <2>2. N - j \notin B
        <3> HIDE DEF B
        <3> QED
            BY <1>2, <1>3, <2>1
    <2> QED
        BY <2>1, <2>2
<1> QED
    BY <1>3, <1>4

(* One step of Sanitized. *)
FromByte(s, f, i) ==
    IF i > Len(s) THEN <<>>
    ELSE IF WholeCharacter(s, i)
           THEN SubSeq(s, i, i + Width(s[i]) - 1) \o f[i + Width(s[i])]
           ELSE Replacement \o f[i + 1]

LEMMA WidthIs == ASSUME NEW b \in ByteClass
                 PROVE  /\ Width(b) \in 0..4
                        /\ Width(b) = 0 <=> b \in Continuation \cup {"bad"}
                        /\ Width(b) = 1 <=> b \in {"nul", "x", "nl"}
<1> USE DEF Width, Continuation
<1>1. CASE b \in {"nul", "x", "nl"}
    BY <1>1
<1>2. CASE b = "l2"
    BY <1>2
<1>3. CASE b \in {"l3", "e0", "ed"}
    BY <1>3
<1>4. CASE b \in {"l4", "f0", "f4"}
    BY <1>4
<1>5. CASE b \in {"c8", "c9", "ca", "bad"}
    BY <1>5
<1> QED
    BY <1>1, <1>2, <1>3, <1>4, <1>5 DEF ByteClass

(* Framed, in terms of the test the code makes. *)
Frames(s) ==
    \A i \in 1..Len(s) :
        /\ s[i] # "bad"
        /\ Width(s[i]) > 1 => WholeCharacter(s, i)
        /\ s[i] \in Continuation => \E j \in 1..3 : i - j >= 1 /\ Width(s[i - j]) > j

LEMMA ReplacementIs == Replacement \in Seq(ByteClass) /\ Len(Replacement) = 6
                       /\ \A i \in 1..6 : Replacement[i] = "x"
<1>1. Len(Replacement) = 6
    BY DEF Replacement
<1>2. Replacement[1] = "x" /\ Replacement[2] = "x" /\ Replacement[3] = "x" /\ Replacement[4] = "x"
      /\ Replacement[5] = "x" /\ Replacement[6] = "x"
    BY DEF Replacement
<1>3. Replacement \in Seq(ByteClass)
    BY DEF Replacement, ByteClass
<1>4. \A i \in 1..6 : i = 1 \/ i = 2 \/ i = 3 \/ i = 4 \/ i = 5 \/ i = 6
    OBVIOUS
<1> HIDE DEF Replacement
<1> QED
    BY <1>1, <1>2, <1>3, <1>4

(* A whole character starts behind the byte it follows. *)
LEMMA FromByteType ==
    ASSUME NEW s \in Seq(ByteClass), NEW f, NEW i \in 1..(Len(s) + 1),
           \A j \in (i + 1)..(Len(s) + 1) : f[j] \in Seq(ByteClass)
    PROVE  FromByte(s, f, i) \in Seq(ByteClass)
<1>0. Len(s) \in Nat /\ <<>> \in Seq(ByteClass)
    OBVIOUS
<1>1. CASE i > Len(s)
    BY <1>0, <1>1 DEF FromByte
<1>2. CASE i <= Len(s) /\ WholeCharacter(s, i)
    <2> DEFINE k == Width(s[i])
    <2>1. k \in 1..4 /\ i + k - 1 <= Len(s)
        <3>1. s[i] \in ByteClass
            BY <1>0, <1>2
        <3> QED
            BY <1>2, <3>1, WidthIs DEF WholeCharacter
    <2>2. FromByte(s, f, i) = SubSeq(s, i, i + k - 1) \o f[i + k]
        <3>1. ~(i > Len(s))
            BY <1>0, <1>2
        <3> QED
            BY <1>2, <3>1, Zenon DEF FromByte
    <2> HIDE DEF k
    <2>3. f[i + k] \in Seq(ByteClass) /\ SubSeq(s, i, i + k - 1) \in Seq(ByteClass)
        BY <1>0, <1>2, <2>1
    <2> QED
        BY <2>2, <2>3
<1>3. CASE i <= Len(s) /\ ~WholeCharacter(s, i)
    <2>1. FromByte(s, f, i) = Replacement \o f[i + 1]
        BY <1>0, <1>3 DEF FromByte
    <2>2. f[i + 1] \in Seq(ByteClass)
        BY <1>0, <1>3
    <2> QED
        BY <2>1, <2>2, ReplacementIs
<1> QED
    BY <1>0, <1>1, <1>2, <1>3

(* FromByte looks at f only behind i. *)
LEMMA FromByteLooksAhead ==
    ASSUME NEW s \in Seq(ByteClass), NEW f, NEW g, NEW i \in 1..(Len(s) + 1),
           \A j \in (i + 1)..(Len(s) + 1) : f[j] = g[j]
    PROVE  FromByte(s, f, i) = FromByte(s, g, i)
<1>0. Len(s) \in Nat
    OBVIOUS
<1>1. CASE i > Len(s)
    BY <1>0, <1>1 DEF FromByte
<1>2. CASE i <= Len(s) /\ WholeCharacter(s, i)
    <2> DEFINE k == Width(s[i])
    <2>1. k \in 1..4 /\ i + k - 1 <= Len(s)
        <3>1. s[i] \in ByteClass
            BY <1>0, <1>2
        <3> QED
            BY <1>2, <3>1, WidthIs DEF WholeCharacter
    <2>2. /\ FromByte(s, f, i) = SubSeq(s, i, i + k - 1) \o f[i + k]
          /\ FromByte(s, g, i) = SubSeq(s, i, i + k - 1) \o g[i + k]
        <3>1. ~(i > Len(s))
            BY <1>0, <1>2
        <3> QED
            BY <1>2, <3>1, Zenon DEF FromByte
    <2> HIDE DEF k
    <2>3. f[i + k] = g[i + k]
        BY <1>0, <1>2, <2>1
    <2> QED
        BY <2>2, <2>3
<1>3. CASE i <= Len(s) /\ ~WholeCharacter(s, i)
    <2>1. FromByte(s, f, i) = Replacement \o f[i + 1] /\ FromByte(s, g, i) = Replacement \o g[i + 1]
        BY <1>0, <1>3 DEF FromByte
    <2>2. f[i + 1] = g[i + 1]
        BY <1>0, <1>3
    <2> QED
        BY <2>1, <2>2
<1> QED
    BY <1>0, <1>1, <1>2, <1>3

(* The function Sanitized is defined by exists: it is built from    *)
(* the end of the text to its start.                                         *)
LEMMA SanitizeUnfolds ==
    ASSUME NEW s \in Seq(ByteClass)
    PROVE  \E f : /\ Sanitized(s) = f[1]
                  /\ \A i \in 1..(Len(s) + 1) : f[i] = FromByte(s, f, i)
<1> DEFINE N == Len(s) + 1
           F == [1..N -> Seq(ByteClass)]
           G == {k \in 1..N : \E g \in F : \A i \in k..N : g[i] = FromByte(s, g, i)}
           the == CHOOSE f : f = [i \in 1..N |-> FromByte(s, f, i)]
<1>0. Len(s) \in Nat /\ N \in Nat \ {0} /\ <<>> \in Seq(ByteClass)
    OBVIOUS
<1>1. ASSUME NEW k \in 1..N, \A j \in (k + 1)..N : j \in G PROVE k \in G
    <2>1. PICK g \in F : \A i \in (k + 1)..N : g[i] = FromByte(s, g, i)
        <3>1. CASE k = N
            <4>1. [i \in 1..N |-> <<>>] \in F /\ (k + 1)..N = {}
                BY <1>0, <3>1
            <4> QED
                BY <4>1
        <3>2. CASE k # N
            <4>1. k + 1 \in (k + 1)..N
                BY <1>0, <3>2
            <4>2. k + 1 \in G
                BY <1>1, <4>1, Zenon
            <4> QED
                BY <4>2
        <3> QED
            BY <3>1, <3>2
    <2> DEFINE h == [g EXCEPT ![k] = FromByte(s, g, k)]
    <2>2. FromByte(s, g, k) \in Seq(ByteClass)
        <3>1. \A j \in (k + 1)..N : g[j] \in Seq(ByteClass)
            BY <1>0
        <3> QED
            BY <3>1, FromByteType
    <2>3. h \in F /\ h[k] = FromByte(s, g, k) /\ \A j \in (k + 1)..N : h[j] = g[j]
        BY <1>0, <2>2
    <2> HIDE DEF h, F, G
    <2>4. ASSUME NEW i \in k..N PROVE h[i] = FromByte(s, h, i)
        <3>1. i \in 1..N /\ \A j \in (i + 1)..N : h[j] = g[j]
            BY <1>0, <2>3
        <3>2. FromByte(s, h, i) = FromByte(s, g, i)
            BY <3>1, FromByteLooksAhead
        <3>3. CASE i = k
            BY <2>3, <3>2, <3>3
        <3>4. CASE i # k
            <4>1. i \in (k + 1)..N
                BY <1>0, <3>4
            <4> QED
                BY <2>1, <2>3, <3>2, <4>1
        <3> QED
            BY <3>3, <3>4
    <2> QED
        BY <2>3, <2>4 DEF G
<1>2. 1 \in G
    <2> HIDE DEF G
    <2>1. \A i \in 1..N : i \in G
        BY <1>0, <1>1, Downward
    <2> QED
        BY <1>0, <2>1
<1>3. PICK g \in F : \A i \in 1..N : g[i] = FromByte(s, g, i)
    BY <1>2
<1>4. g = [i \in 1..N |-> FromByte(s, g, i)]
    BY <1>3
<1>5. the = [i \in 1..N |-> FromByte(s, the, i)]
    BY <1>4
<1>6. Sanitized(s) = the[1]
    BY DEF Sanitized, FromByte
<1> HIDE DEF the
<1>7. \A i \in 1..N : the[i] = FromByte(s, the, i)
    BY <1>5
<1> QED
    BY <1>6, <1>7

LEMMA JoinedAt ==
    ASSUME NEW a \in Seq(ByteClass), NEW b \in Seq(ByteClass)
    PROVE  /\ a \o b \in Seq(ByteClass) /\ Len(a \o b) = Len(a) + Len(b)
           /\ \A i \in 1..Len(a) : (a \o b)[i] = a[i]
           /\ \A i \in 1..Len(b) : (a \o b)[Len(a) + i] = b[i]
<1> DEFINE x == a \o b
<1>0. Len(a) \in Nat /\ Len(b) \in Nat
    OBVIOUS
<1>1. /\ x \in Seq(ByteClass) /\ Len(x) = Len(a) + Len(b)
      /\ \A i \in 1..(Len(a) + Len(b)) : x[i] = IF i <= Len(a) THEN a[i] ELSE b[i - Len(a)]
    BY ConcatProperties
<1> HIDE DEF x
<1>2. ASSUME NEW i \in 1..Len(a) PROVE x[i] = a[i]
    BY <1>0, <1>1
<1>3. ASSUME NEW i \in 1..Len(b) PROVE x[Len(a) + i] = b[i]
    <2>1. /\ Len(a) + i \in 1..(Len(a) + Len(b)) /\ ~(Len(a) + i <= Len(a))
          /\ (Len(a) + i) - Len(a) = i
        BY <1>0
    <2> QED
        BY <1>1, <2>1
<1> QED
    BY <1>1, <1>2, <1>3 DEF x

LEMMA PartAt ==
    ASSUME NEW s \in Seq(ByteClass), NEW i \in 1..(Len(s) + 1), NEW j \in (i - 1)..Len(s)
    PROVE  /\ SubSeq(s, i, j) \in Seq(ByteClass) /\ Len(SubSeq(s, i, j)) = j - i + 1
           /\ \A m \in 1..(j - i + 1) : SubSeq(s, i, j)[m] = s[i + m - 1]
OBVIOUS

(* Two framed texts, one after the other. *)
LEMMA FramesJoined ==
    ASSUME NEW a \in Seq(ByteClass), NEW b \in Seq(ByteClass), Frames(a), Frames(b)
    PROVE  Frames(a \o b)
<1> DEFINE x == a \o b
<1>1. /\ x \in Seq(ByteClass) /\ Len(x) = Len(a) + Len(b)
      /\ \A i \in 1..Len(a) : x[i] = a[i]
      /\ \A i \in 1..Len(b) : x[Len(a) + i] = b[i]
      /\ Len(a) \in Nat /\ Len(b) \in Nat
    BY JoinedAt
<1> HIDE DEF x
<1>2. ASSUME NEW i \in 1..Len(a)
      PROVE  /\ x[i] # "bad"
             /\ Width(x[i]) > 1 => WholeCharacter(x, i)
             /\ x[i] \in Continuation => \E j \in 1..3 : i - j >= 1 /\ Width(x[i - j]) > j
    <2>1. /\ x[i] = a[i] /\ a[i] # "bad" /\ a[i] \in ByteClass
          /\ Width(a[i]) > 1 => WholeCharacter(a, i)
          /\ a[i] \in Continuation => \E j \in 1..3 : i - j >= 1 /\ Width(a[i - j]) > j
        BY <1>1 DEF Frames
    <2>2. ASSUME Width(a[i]) > 1 PROVE WholeCharacter(x, i)
        <3> DEFINE k == Width(a[i])
        <3>1. k \in Nat /\ i + k - 1 <= Len(a) /\ \A j \in (i + 1)..(i + k - 1) : a[j] \in Continuation
            BY <2>1, <2>2, WidthIs DEF WholeCharacter
        <3> HIDE DEF k
        <3>2. i + k - 1 <= Len(x)
            BY <1>1, <3>1
        <3>3. ASSUME NEW j \in (i + 1)..(i + k - 1) PROVE x[j] \in Continuation
            <4>1. j \in 1..Len(a)
                BY <1>1, <3>1
            <4> QED
                BY <1>1, <3>1, <4>1
        <3> QED
            BY <2>1, <2>2, <3>2, <3>3 DEF k, WholeCharacter
    <2>3. ASSUME a[i] \in Continuation PROVE \E j \in 1..3 : i - j >= 1 /\ Width(x[i - j]) > j
        <3>1. PICK j \in 1..3 : i - j >= 1 /\ Width(a[i - j]) > j
            BY <2>1, <2>3
        <3>2. x[i - j] = a[i - j]
            BY <1>1, <3>1
        <3> QED
            BY <3>1, <3>2
    <2> QED
        BY <2>1, <2>2, <2>3
<1>3. ASSUME NEW m \in 1..Len(b), NEW i, i = Len(a) + m
      PROVE  /\ x[i] # "bad"
             /\ Width(x[i]) > 1 => WholeCharacter(x, i)
             /\ x[i] \in Continuation => \E j \in 1..3 : i - j >= 1 /\ Width(x[i - j]) > j
    <2>1. /\ x[i] = b[m] /\ b[m] # "bad" /\ b[m] \in ByteClass
          /\ Width(b[m]) > 1 => WholeCharacter(b, m)
          /\ b[m] \in Continuation => \E j \in 1..3 : m - j >= 1 /\ Width(b[m - j]) > j
        BY <1>1, <1>3 DEF Frames
    <2>2. ASSUME Width(b[m]) > 1 PROVE WholeCharacter(x, i)
        <3> DEFINE k == Width(b[m])
        <3>1. k \in Nat /\ m + k - 1 <= Len(b) /\ \A j \in (m + 1)..(m + k - 1) : b[j] \in Continuation
            BY <2>1, <2>2, WidthIs DEF WholeCharacter
        <3> HIDE DEF k
        <3>2. i + k - 1 <= Len(x)
            BY <1>1, <1>3, <3>1
        <3>3. ASSUME NEW j \in (i + 1)..(i + k - 1) PROVE x[j] \in Continuation
            <4>1. j - Len(a) \in (m + 1)..(m + k - 1) /\ j - Len(a) \in 1..Len(b)
                  /\ j = Len(a) + (j - Len(a))
                BY <1>1, <1>3, <3>1
            <4> QED
                BY <1>1, <3>1, <4>1
        <3> QED
            BY <2>1, <2>2, <3>2, <3>3 DEF k, WholeCharacter
    <2>3. ASSUME b[m] \in Continuation PROVE \E j \in 1..3 : i - j >= 1 /\ Width(x[i - j]) > j
        <3>1. PICK j \in 1..3 : m - j >= 1 /\ Width(b[m - j]) > j
            BY <2>1, <2>3
        <3>2. m - j \in 1..Len(b) /\ i - j = Len(a) + (m - j) /\ i - j >= 1
            BY <1>1, <1>3, <3>1
        <3>3. x[i - j] = b[m - j]
            BY <1>1, <3>2
        <3> QED
            BY <3>1, <3>2, <3>3
    <2> QED
        BY <2>1, <2>2, <2>3
<1>4. ASSUME NEW i \in 1..Len(x), i \notin 1..Len(a) PROVE \E m \in 1..Len(b) : i = Len(a) + m
    <2>1. i - Len(a) \in 1..Len(b) /\ i = Len(a) + (i - Len(a))
        BY <1>1, <1>4
    <2> QED
        BY <2>1
<1>5. Frames(x)
    <2> SUFFICES ASSUME NEW i \in 1..Len(x)
                 PROVE  /\ x[i] # "bad"
                        /\ Width(x[i]) > 1 => WholeCharacter(x, i)
                        /\ x[i] \in Continuation => \E j \in 1..3 : i - j >= 1 /\ Width(x[i - j]) > j
        BY DEF Frames
    <2>1. CASE i \in 1..Len(a)
        BY <1>2, <2>1
    <2>2. CASE i \notin 1..Len(a)
        <3>1. PICK m \in 1..Len(b) : i = Len(a) + m
            BY <1>4, <2>2
        <3> QED
            BY <1>3, <3>1
    <2> QED
        BY <2>1, <2>2
<1> QED
    BY <1>5 DEF x

(* A whole character is framed on its own. *)
LEMMA CharacterFrames ==
    ASSUME NEW s \in Seq(ByteClass), NEW i \in 1..Len(s), WholeCharacter(s, i)
    PROVE  Frames(SubSeq(s, i, i + Width(s[i]) - 1))
<1> DEFINE k == Width(s[i])
           c == SubSeq(s, i, i + k - 1)
<1>1. /\ k \in 1..4 /\ i + k - 1 <= Len(s) /\ Len(s) \in Nat /\ s[i] \in ByteClass
      /\ s[i] \notin Continuation \cup {"bad"} /\ \A j \in (i + 1)..(i + k - 1) : s[j] \in Continuation
    <2>1. s[i] \in ByteClass /\ Len(s) \in Nat
        OBVIOUS
    <2> QED
        BY <2>1, WidthIs DEF WholeCharacter
<1>2. Width(s[i]) = k
    OBVIOUS
<1> HIDE DEF k
<1>3. Len(c) = k /\ \A m \in 1..k : c[m] = s[i + m - 1]
    <2> DEFINE j == i + k - 1
    <2>1. j \in (i - 1)..Len(s) /\ j - i + 1 = k /\ i \in 1..(Len(s) + 1)
        BY <1>1
    <2> HIDE DEF j
    <2>2. /\ Len(SubSeq(s, i, j)) = j - i + 1
          /\ \A m \in 1..(j - i + 1) : SubSeq(s, i, j)[m] = s[i + m - 1]
        BY <2>1, PartAt
    <2> QED
        BY <2>1, <2>2 DEF j
<1> HIDE DEF c
<1>4. c[1] = s[i]
    <2>1. 1 \in 1..k /\ i + 1 - 1 = i
        BY <1>1
    <2> QED
        BY <1>3, <2>1
<1>5. ASSUME NEW m \in 2..k PROVE c[m] \in Continuation
    <2>1. m \in 1..k /\ i + m - 1 \in (i + 1)..(i + k - 1)
        BY <1>1
    <2> QED
        BY <1>1, <1>3, <2>1
<1>6. WholeCharacter(c, 1)
    <2>1. Width(c[1]) = k /\ k > 0 /\ 1 + k - 1 <= Len(c)
        BY <1>1, <1>2, <1>3, <1>4
    <2>2. \A j \in (1 + 1)..(1 + k - 1) : c[j] \in Continuation
        BY <1>1, <1>5
    <2> QED
        BY <2>1, <2>2 DEF WholeCharacter
<1>7. ASSUME NEW m \in 1..Len(c)
      PROVE  /\ c[m] # "bad"
             /\ Width(c[m]) > 1 => WholeCharacter(c, m)
             /\ c[m] \in Continuation => \E j \in 1..3 : m - j >= 1 /\ Width(c[m - j]) > j
    <2>1. CASE m = 1
        BY <1>1, <1>4, <1>6, <2>1
    <2>2. CASE m # 1
        <3>1. c[m] \in Continuation /\ ~(Width(c[m]) > 1)
            <4>1. c[m] \in Continuation
                BY <1>1, <1>3, <1>5, <2>2
            <4>2. Width(c[m]) = 0
                BY <4>1, WidthIs DEF ByteClass
            <4> QED
                BY <4>1, <4>2
        <3>2. m - 1 \in 1..3 /\ m - (m - 1) = 1 /\ Width(c[m - (m - 1)]) > m - 1
            BY <1>1, <1>2, <1>3, <1>4, <2>2
        <3> QED
            BY <3>1, <3>2 DEF Continuation
    <2> QED
        BY <2>1, <2>2
<1>8. Frames(c)
    BY <1>7 DEF Frames
<1> QED
    BY <1>8 DEF c, k

LEMMA ReplacementFrames == Frames(Replacement) /\ Frames(<<>>)
<1>1. Width("x") = 1
    BY DEF Width
<1>2. Frames(Replacement)
    BY <1>1, ReplacementIs DEF Frames, Continuation
<1>3. Len(<<>>) = 0
    OBVIOUS
<1>4. Frames(<<>>)
    BY <1>3 DEF Frames
<1> QED
    BY <1>2, <1>4

(* Framed says the same as Frames. *)
LEMMA FollowedIs ==
    ASSUME NEW s \in Seq(ByteClass), NEW i \in 1..Len(s), Width(s[i]) > 1
    PROVE  Followed(s, i) <=> WholeCharacter(s, i)
<1> DEFINE k == Width(s[i])
<1>1. k \in 2..4 /\ Len(s) \in Nat
    <2>1. s[i] \in ByteClass
        OBVIOUS
    <2> QED
        BY <2>1, WidthIs
<1>2. Followed(s, i) <=> \A j \in 1..(k - 1) : i + j <= Len(s) /\ s[i + j] \in Continuation
    BY Zenon DEF Followed
<1>3. WholeCharacter(s, i) <=> /\ k > 0 /\ i + k - 1 <= Len(s)
                               /\ \A j \in (i + 1)..(i + k - 1) : s[j] \in Continuation
    BY Zenon DEF WholeCharacter
<1> HIDE DEF k
<1>4. ASSUME Followed(s, i) PROVE WholeCharacter(s, i)
    <2>1. k - 1 \in 1..(k - 1) /\ i + (k - 1) = i + k - 1
        BY <1>1
    <2>2. ASSUME NEW j \in (i + 1)..(i + k - 1) PROVE s[j] \in Continuation
        <3>1. j - i \in 1..(k - 1) /\ i + (j - i) = j
            BY <1>1
        <3> QED
            BY <1>2, <1>4, <3>1
    <2>3. i + k - 1 <= Len(s)
        BY <1>2, <1>4, <2>1
    <2> QED
        BY <1>1, <1>3, <2>2, <2>3
<1>5. ASSUME WholeCharacter(s, i) PROVE Followed(s, i)
    <2>1. ASSUME NEW j \in 1..(k - 1) PROVE i + j <= Len(s) /\ s[i + j] \in Continuation
        <3>1. i + j \in (i + 1)..(i + k - 1) /\ i + k - 1 <= Len(s)
            BY <1>1, <1>3, <1>5
        <3> QED
            BY <1>1, <1>3, <1>5, <3>1
    <2> QED
        BY <1>2, <2>1
<1> QED
    BY <1>4, <1>5

LEMMA FramedIs == ASSUME NEW s \in Seq(ByteClass) PROVE Framed(s) <=> Frames(s)
<1>1. ASSUME NEW i \in 1..Len(s) PROVE Followed(s, i) <=> (Width(s[i]) > 1 => WholeCharacter(s, i))
    <2>1. CASE Width(s[i]) > 1
        BY <2>1, FollowedIs
    <2>2. CASE ~(Width(s[i]) > 1)
        <3>1. s[i] \in ByteClass
            OBVIOUS
        <3>2. 1..(Width(s[i]) - 1) = {}
            BY <2>2, <3>1, WidthIs
        <3> QED
            BY <2>2, <3>2 DEF Followed
    <2> QED
        BY <2>1, <2>2
<1> QED
    BY <1>1 DEF Framed, Frames

(* No character whose second byte UTF-8 forbids. *)
Fits(s) == \A i \in 1..Len(s) : ~Misfit(s, i)

LEMMA FitsJoined ==
    ASSUME NEW a \in Seq(ByteClass), NEW b \in Seq(ByteClass), Frames(a), Fits(a), Fits(b)
    PROVE  Fits(a \o b)
<1> DEFINE x == a \o b
<1>1. /\ x \in Seq(ByteClass) /\ Len(x) = Len(a) + Len(b)
      /\ \A i \in 1..Len(a) : x[i] = a[i]
      /\ \A i \in 1..Len(b) : x[Len(a) + i] = b[i]
      /\ Len(a) \in Nat /\ Len(b) \in Nat
    BY JoinedAt
<1> HIDE DEF x
<1>2. ASSUME NEW i \in 1..Len(a), Misfit(x, i) PROVE FALSE
    <2>1. x[i] = a[i] /\ Width(a[i]) > 1 /\ x[i + 1] \notin Second(a[i])
        BY <1>1, <1>2 DEF Misfit
    <2>2. WholeCharacter(a, i) /\ Followed(a, i)
        BY <2>1, FollowedIs DEF Frames
    <2>3. Width(a[i]) \in Nat
        BY <1>1, WidthIs
    <2>4. i + 1 \in 1..Len(a)
        <3>1. 1 \in 1..(Width(a[i]) - 1)
            BY <2>1, <2>3
        <3>2. i + 1 <= Len(a)
            BY <2>2, <3>1 DEF Followed
        <3> QED
            BY <1>1, <3>2
    <2>5. x[i + 1] = a[i + 1]
        BY <1>1, <2>4
    <2>6. Misfit(a, i)
        BY <2>1, <2>2, <2>5 DEF Misfit
    <2> QED
        BY <2>6 DEF Fits
<1>3. ASSUME NEW m \in 1..Len(b), NEW i, i = Len(a) + m, Misfit(x, i) PROVE FALSE
    <2>1. /\ x[i] = b[m] /\ Width(b[m]) > 1 /\ x[i + 1] \notin Second(b[m])
          /\ Followed(x, i)
        BY <1>1, <1>3 DEF Misfit
    <2>2. Width(b[m]) \in Nat
        <3>1. b[m] \in ByteClass
            BY <1>1
        <3> QED
            BY <3>1, WidthIs
    <2>3. ASSUME NEW j \in 1..(Width(b[m]) - 1)
          PROVE  m + j \in 1..Len(b) /\ b[m + j] \in Continuation /\ b[m + j] = x[i + j]
        <3>1. i + j <= Len(x) /\ x[i + j] \in Continuation
            BY <2>1 DEF Followed
        <3>2. m + j \in 1..Len(b) /\ i + j = Len(a) + (m + j)
            BY <1>1, <1>3, <2>2, <3>1
        <3>3. b[m + j] = x[i + j]
            BY <1>1, <3>2
        <3> QED
            BY <3>1, <3>2, <3>3
    <2>4. Followed(b, m)
        BY <2>3 DEF Followed
    <2>5. b[m + 1] = x[i + 1]
        <3>1. 1 \in 1..(Width(b[m]) - 1)
            BY <2>1, <2>2
        <3> QED
            BY <2>3, <3>1
    <2>6. Misfit(b, m)
        BY <2>1, <2>4, <2>5 DEF Misfit
    <2> QED
        BY <2>6 DEF Fits
<1>4. ASSUME NEW i \in 1..Len(x), i \notin 1..Len(a) PROVE \E m \in 1..Len(b) : i = Len(a) + m
    <2>1. i - Len(a) \in 1..Len(b) /\ i = Len(a) + (i - Len(a))
        BY <1>1, <1>4
    <2> QED
        BY <2>1
<1>5. Fits(x)
    BY <1>2, <1>3, <1>4 DEF Fits
<1> QED
    BY <1>5 DEF x

LEMMA CharacterFits ==
    ASSUME NEW s \in Seq(ByteClass), NEW i \in 1..Len(s), WholeCharacter(s, i), ~Misfit(s, i)
    PROVE  Fits(SubSeq(s, i, i + Width(s[i]) - 1))
<1> DEFINE k == Width(s[i])
           c == SubSeq(s, i, i + k - 1)
<1>1. /\ k \in 1..4 /\ i + k - 1 <= Len(s) /\ Len(s) \in Nat
      /\ \A j \in (i + 1)..(i + k - 1) : s[j] \in Continuation
    <2>1. s[i] \in ByteClass /\ Len(s) \in Nat
        OBVIOUS
    <2> QED
        BY <2>1, WidthIs DEF WholeCharacter
<1>2. Width(s[i]) = k
    OBVIOUS
<1> HIDE DEF k
<1>3. Len(c) = k /\ \A m \in 1..k : c[m] = s[i + m - 1]
    <2> DEFINE j == i + k - 1
    <2>1. j \in (i - 1)..Len(s) /\ j - i + 1 = k /\ i \in 1..(Len(s) + 1)
        BY <1>1
    <2> HIDE DEF j
    <2>2. /\ Len(SubSeq(s, i, j)) = j - i + 1
          /\ \A m \in 1..(j - i + 1) : SubSeq(s, i, j)[m] = s[i + m - 1]
        BY <2>1, PartAt
    <2> QED
        BY <2>1, <2>2 DEF j
<1> HIDE DEF c
<1>4. ASSUME NEW m \in 1..Len(c), Misfit(c, m) PROVE FALSE
    <2>1. CASE m = 1
        <3>1. c[1] = s[i]
            <4>1. 1 \in 1..k /\ i + 1 - 1 = i
                BY <1>1
            <4> QED
                BY <1>3, <4>1
        <3>2. k > 1 /\ c[2] \notin Second(s[i])
            <4>1. 1 + 1 = 2
                OBVIOUS
            <4> QED
                BY <1>2, <1>4, <2>1, <3>1, <4>1 DEF Misfit
        <3>3. c[2] = s[i + 1]
            <4>1. 2 \in 1..k /\ i + 2 - 1 = i + 1
                BY <1>1, <3>2
            <4> QED
                BY <1>3, <4>1
        <3>4. Followed(s, i)
            BY <1>2, <3>2, FollowedIs
        <3> QED
            BY <1>2, <3>2, <3>3, <3>4 DEF Misfit
    <2>2. CASE m # 1
        <3>1. m \in 1..k /\ i + m - 1 \in (i + 1)..(i + k - 1)
            BY <1>1, <1>3, <2>2
        <3>2. c[m] \in Continuation
            BY <1>1, <1>3, <3>1
        <3>3. Width(c[m]) = 0
            BY <3>2, WidthIs DEF ByteClass
        <3> QED
            BY <1>4, <3>3 DEF Misfit
    <2> QED
        BY <2>1, <2>2
<1>5. Fits(c)
    BY <1>4 DEF Fits
<1> QED
    BY <1>5 DEF c, k

LEMMA ReplacementFits == Fits(Replacement) /\ Fits(<<>>)
<1>1. Width("x") = 1
    BY DEF Width
<1>2. Fits(Replacement)
    BY <1>1, ReplacementIs DEF Fits, Misfit
<1>3. Len(<<>>) = 0
    OBVIOUS
<1>4. Fits(<<>>)
    BY <1>3 DEF Fits
<1> QED
    BY <1>2, <1>4

(* What Sanitized returns is framed, and a misfit in it was in the text. *)
LEMMA SanitizedFrames ==
    ASSUME NEW s \in Seq(ByteClass)
    PROVE  /\ Sanitized(s) \in Seq(ByteClass) /\ Frames(Sanitized(s))
           /\ Fits(s) => Fits(Sanitized(s))
<1> DEFINE N == Len(s) + 1
<1>0. Len(s) \in Nat /\ N \in Nat \ {0} /\ <<>> \in Seq(ByteClass)
    OBVIOUS
<1>1. PICK f : Sanitized(s) = f[1] /\ \A i \in 1..N : f[i] = FromByte(s, f, i)
    BY SanitizeUnfolds
<1> DEFINE Sound(t) == t \in Seq(ByteClass) /\ Frames(t) /\ (Fits(s) => Fits(t))
           G == {i \in 1..N : Sound(f[i])}
<1>2. ASSUME NEW i \in 1..N, \A j \in (i + 1)..N : j \in G PROVE i \in G
    <2>1. \A j \in (i + 1)..N : Sound(f[j])
        BY <1>2
    <2>2. f[i] \in Seq(ByteClass) /\ f[i] = FromByte(s, f, i)
        BY <1>1, <2>1, FromByteType
    <2>3. CASE i > Len(s)
        BY <2>2, <2>3, ReplacementFrames, ReplacementFits DEF FromByte
    <2>4. CASE ~(i > Len(s)) /\ WholeCharacter(s, i)
        <3> DEFINE k == Width(s[i])
                   c == SubSeq(s, i, i + k - 1)
        <3>1. k \in 1..4 /\ i + k - 1 <= Len(s) /\ i \in 1..Len(s)
            <4>1. s[i] \in ByteClass /\ i \in 1..Len(s)
                BY <1>0, <2>4
            <4> QED
                BY <2>4, <4>1, WidthIs DEF WholeCharacter
        <3>2. f[i] = c \o f[i + k]
            BY <2>2, <2>4, Zenon DEF FromByte
        <3>3. Frames(c) /\ (Fits(s) => Fits(c))
            <4>1. Frames(c)
                BY <2>4, <3>1, CharacterFrames
            <4>2. ASSUME Fits(s) PROVE Fits(c)
                <5>1. ~Misfit(s, i)
                    BY <3>1, <4>2 DEF Fits
                <5> QED
                    BY <2>4, <3>1, <5>1, CharacterFits
            <4> QED
                BY <4>1, <4>2
        <3> HIDE DEF k
        <3>4. c \in Seq(ByteClass) /\ i + k \in (i + 1)..N
            BY <1>0, <3>1
        <3> HIDE DEF c
        <3>5. Frames(f[i]) /\ (Fits(s) => Fits(f[i]))
            BY <2>1, <3>2, <3>3, <3>4, FramesJoined, FitsJoined
        <3> QED
            BY <2>2, <3>5
    <2>5. CASE ~(i > Len(s)) /\ ~WholeCharacter(s, i)
        <3>1. f[i] = Replacement \o f[i + 1]
            BY <2>2, <2>5, Zenon DEF FromByte
        <3>2. i + 1 \in (i + 1)..N
            BY <1>0, <2>5
        <3>3. Frames(f[i]) /\ (Fits(s) => Fits(f[i]))
            BY <2>1, <3>1, <3>2, ReplacementIs, ReplacementFrames, ReplacementFits,
               FramesJoined, FitsJoined
        <3> QED
            BY <2>2, <3>3
    <2> QED
        BY <2>3, <2>4, <2>5
<1>3. \A i \in 1..N : i \in G
    <2> HIDE DEF G
    <2> QED
        BY <1>0, <1>2, Downward
<1> QED
    BY <1>0, <1>1, <1>3

(* In a framed text a whole character follows the end of another one. *)
LEMMA NextCharacter ==
    ASSUME NEW p \in Seq(ByteClass), Frames(p), NEW i \in 1..Len(p), p[i] \notin Continuation
    PROVE  /\ WholeCharacter(p, i)
           /\ i + Width(p[i]) <= Len(p) => p[i + Width(p[i])] \notin Continuation
<1> DEFINE k == Width(p[i])
<1>1. /\ p[i] \in ByteClass /\ p[i] # "bad" /\ Len(p) \in Nat /\ k \in 1..4
      /\ k > 1 => WholeCharacter(p, i)
    <2>1. p[i] \in ByteClass /\ p[i] # "bad" /\ (Width(p[i]) > 1 => WholeCharacter(p, i))
        BY DEF Frames
    <2> QED
        BY <2>1, WidthIs
<1>2. WholeCharacter(p, i)
    <2>1. CASE k = 1
        BY <1>1, <2>1 DEF WholeCharacter
    <2> QED
        BY <1>1, <2>1
<1>3. \A j \in (i + 1)..(i + k - 1) : p[j] \in Continuation
    BY <1>2 DEF WholeCharacter
<1>4. ASSUME i + k <= Len(p), p[i + k] \in Continuation PROVE FALSE
    <2>0. Width(p[i]) = k
        OBVIOUS
    <2> HIDE DEF k
    <2>1. i + k \in 1..Len(p)
        BY <1>1, <1>4
    <2>2. PICK j \in 1..3 : (i + k) - j >= 1 /\ Width(p[(i + k) - j]) > j
        BY <1>4, <2>1 DEF Frames
    <2> DEFINE q == (i + k) - j
    <2>3. q \in 1..Len(p) /\ q < i + k /\ q + j = i + k
        BY <1>1, <2>1, <2>2
    <2>4. Width(p[q]) > j
        BY <2>2
    <2> HIDE DEF q
    <2>5. p[q] \in ByteClass /\ Width(p[q]) \in 0..4 /\ Width(p[q]) > 1 /\ p[q] \notin Continuation
        <3>1. p[q] \in ByteClass
            BY <2>3
        <3> QED
            BY <2>4, <3>1, WidthIs
    <2>6. WholeCharacter(p, q)
        BY <2>3, <2>5 DEF Frames
    <2>7. CASE q < i
        <3>1. i \in (q + 1)..(q + Width(p[q]) - 1)
            BY <1>1, <2>3, <2>4, <2>5, <2>7
        <3> QED
            BY <2>6, <3>1 DEF WholeCharacter
    <2>8. CASE q = i
        BY <1>1, <2>0, <2>3, <2>4, <2>8
    <2>9. CASE q > i
        <3>1. q \in (i + 1)..(i + k - 1)
            BY <1>1, <2>3, <2>9
        <3> QED
            BY <1>3, <2>5, <3>1
    <2> QED
        BY <1>1, <2>3, <2>7, <2>8, <2>9
<1> QED
    BY <1>2, <1>4

(* A text whose start is framed keeps it unchanged. *)
LEMMA SanitizedKeeps ==
    ASSUME NEW s \in Seq(ByteClass), NEW p \in Seq(ByteClass), Prefix(p, s), Frames(p)
    PROVE  Prefix(p, Sanitized(s))
<1> DEFINE N == Len(s) + 1
           n == Len(p)
<1>0. /\ Len(s) \in Nat /\ N \in Nat \ {0} /\ n \in Nat /\ n <= Len(s)
      /\ \A i \in 1..n : p[i] = s[i]
    BY DEF Prefix
<1>1. PICK f : Sanitized(s) = f[1] /\ \A i \in 1..N : f[i] = FromByte(s, f, i)
    BY SanitizeUnfolds
<1>2. ASSUME NEW i \in 1..N, \A j \in (i + 1)..N : f[j] \in Seq(ByteClass)
      PROVE  f[i] \in Seq(ByteClass)
    BY <1>1, <1>2, FromByteType
<1>3. \A i \in 1..N : f[i] \in Seq(ByteClass)
    <2> DEFINE T == {i \in 1..N : f[i] \in Seq(ByteClass)}
    <2>1. ASSUME NEW i \in 1..N, \A j \in (i + 1)..N : j \in T PROVE i \in T
        BY <1>2, <2>1
    <2>2. \A i \in 1..N : i \in T
        <3> HIDE DEF T
        <3> QED
            BY <1>0, <2>1, Downward
    <2> QED
        BY <2>2
<1> DEFINE Copied(i) == /\ Len(f[i]) >= n - i + 1
                        /\ \A m \in 1..(n - i + 1) : f[i][m] = p[i + m - 1]
           G == {i \in 1..(n + 1) : (i = n + 1 \/ p[i] \notin Continuation) => Copied(i)}
<1> HIDE DEF n, N
<1>4. ASSUME NEW i \in 1..(n + 1), \A j \in (i + 1)..(n + 1) : j \in G PROVE i \in G
    <2>0. f[i] \in Seq(ByteClass) /\ Len(f[i]) \in Nat /\ i \in 1..N
        <3>1. i \in 1..N
            BY <1>0 DEF N
        <3> QED
            BY <1>3, <3>1
    <2>1. CASE i = n + 1
        <3>1. n - i + 1 = 0
            BY <1>0, <2>1
        <3> QED
            BY <2>0, <3>1
    <2>2. CASE i # n + 1 /\ p[i] \notin Continuation
        <3> DEFINE k == Width(p[i])
                   c == SubSeq(s, i, i + k - 1)
        <3>1. i \in 1..n /\ p[i] = s[i]
            BY <1>0, <2>2
        <3>2. WholeCharacter(p, i) /\ (i + k <= n => p[i + k] \notin Continuation)
            BY <2>2, <3>1, NextCharacter DEF n
        <3>3. k \in 1..4 /\ i + k - 1 <= n
            <4>1. p[i] \in ByteClass
                BY <3>1 DEF n
            <4> QED
                BY <3>2, <4>1, WidthIs DEF WholeCharacter, n
        <3>4. \A j \in (i + 1)..(i + k - 1) : p[j] \in Continuation
            BY <3>2 DEF WholeCharacter
        <3>5. k = Width(s[i])
            BY <3>1
        <3> HIDE DEF k
        <3>6. WholeCharacter(s, i)
            <4>1. k > 0 /\ i + k - 1 <= Len(s)
                BY <1>0, <3>3
            <4>2. ASSUME NEW j \in (i + 1)..(i + k - 1) PROVE s[j] \in Continuation
                <5>1. j \in 1..n
                    BY <1>0, <3>3
                <5> QED
                    BY <1>0, <3>4, <5>1 DEF n
            <4> QED
                BY <3>5, <4>1, <4>2 DEF WholeCharacter
        <3>7. f[i] = c \o f[i + k]
            <4>1. ~(i > Len(s)) /\ f[i] = FromByte(s, f, i)
                BY <1>0, <1>1, <2>0, <3>1
            <4> QED
                BY <3>5, <3>6, <4>1, Zenon DEF FromByte
        <3>8. c \in Seq(ByteClass) /\ Len(c) = k /\ \A m \in 1..k : c[m] = s[i + m - 1]
            <4> DEFINE j == i + k - 1
            <4>1. /\ j \in (i - 1)..Len(s) /\ j - i + 1 = k /\ i \in 1..(Len(s) + 1)
                BY <1>0, <3>1, <3>3
            <4> HIDE DEF j
            <4>2. /\ SubSeq(s, i, j) \in Seq(ByteClass) /\ Len(SubSeq(s, i, j)) = j - i + 1
                  /\ \A m \in 1..(j - i + 1) : SubSeq(s, i, j)[m] = s[i + m - 1]
                BY <4>1, PartAt
            <4> QED
                BY <4>1, <4>2 DEF j
        <3> HIDE DEF c
        <3> DEFINE g == f[i + k]
        <3>9. i + k \in (i + 1)..(n + 1) /\ i + k \in 1..N
            BY <1>0, <3>1, <3>3 DEF N
        <3>10. Copied(i + k)
            <4>1. i + k \in G
                BY <1>4, <3>9
            <4>2. i + k = n + 1 \/ p[i + k] \notin Continuation
                BY <1>0, <3>2, <3>9
            <4> QED
                BY <4>1, <4>2
        <3>11. /\ g \in Seq(ByteClass) /\ Len(g) \in Nat /\ Len(g) >= n - (i + k) + 1
               /\ \A m \in 1..(n - (i + k) + 1) : g[m] = p[(i + k) + m - 1]
            <4>1. g \in Seq(ByteClass)
                BY <1>3, <3>9
            <4> QED
                BY <3>10, <4>1
        <3> HIDE DEF g
        <3>12. /\ Len(f[i]) = k + Len(g)
               /\ \A m \in 1..k : f[i][m] = c[m]
               /\ \A m \in 1..Len(g) : f[i][k + m] = g[m]
            <4>1. f[i] = c \o g
                BY <3>7 DEF g
            <4>2. c \in Seq(ByteClass) /\ g \in Seq(ByteClass)
                BY <3>8, <3>11
            <4>3. /\ Len(c \o g) = Len(c) + Len(g)
                  /\ \A m \in 1..Len(c) : (c \o g)[m] = c[m]
                  /\ \A m \in 1..Len(g) : (c \o g)[Len(c) + m] = g[m]
                BY <4>2, JoinedAt, Zenon
            <4> QED
                BY <3>8, <4>1, <4>3
        <3>13. Len(f[i]) >= n - i + 1
            BY <1>0, <3>3, <3>11, <3>12
        <3>14. ASSUME NEW m \in 1..(n - i + 1) PROVE f[i][m] = p[i + m - 1]
            <4>1. CASE m <= k
                <5>1. m \in 1..k /\ i + m - 1 \in 1..n
                    BY <1>0, <3>1, <3>3, <4>1
                <5> QED
                    BY <1>0, <3>8, <3>12, <5>1 DEF n
            <4>2. CASE m > k
                <5>0. /\ n \in Nat /\ i \in Nat /\ k \in Nat /\ m \in Nat /\ Len(g) \in Nat
                      /\ m > k /\ m <= n - i + 1 /\ Len(g) >= n - (i + k) + 1
                    BY <1>0, <3>3, <3>11, <4>2
                <5>1. /\ m - k \in 1..(n - (i + k) + 1) /\ m - k \in 1..Len(g)
                      /\ k + (m - k) = m /\ (i + k) + (m - k) - 1 = i + m - 1
                    BY ONLY <5>0
                <5>2. f[i][k + (m - k)] = g[m - k] /\ g[m - k] = p[(i + k) + (m - k) - 1]
                    BY <3>11, <3>12, <5>1
                <5> QED
                    BY <5>1, <5>2
            <4> QED
                BY <3>3, <4>1, <4>2
        <3> QED
            BY <3>13, <3>14
    <2> QED
        BY <2>1, <2>2
<1>5. 1 \in G
    <2> HIDE DEF G
    <2>1. n + 1 \in Nat /\ 1 \in 1..(n + 1)
        BY <1>0 DEF n
    <2>2. \A i \in 1..(n + 1) : i \in G
        BY <1>4, <2>1, Downward
    <2> QED
        BY <2>1, <2>2
<1>6. 1 = n + 1 \/ p[1] \notin Continuation
    <2> SUFFICES ASSUME n # 0, p[1] \in Continuation PROVE FALSE
        BY <1>0 DEF n
    <2>1. 1 \in 1..Len(p)
        BY <1>0 DEF n
    <2>2. PICK j \in 1..3 : 1 - j >= 1
        BY <2>1 DEF Frames
    <2> QED
        BY <2>2
<1>7. Copied(1)
    BY <1>5, <1>6
<1>8. n <= Len(f[1]) /\ \A m \in 1..n : p[m] = f[1][m]
    <2>1. n - 1 + 1 = n /\ \A m \in 1..n : 1 + m - 1 = m
        BY <1>0 DEF n
    <2> QED
        BY <1>7, <2>1
<1> QED
    BY <1>1, <1>8 DEF Prefix, n

(* The tail of a text is a text. *)
LEMMA TailLength == ASSUME NEW s \in Seq(ByteClass)
                    PROVE  TailOf(s) \in Seq(ByteClass)
<1> DEFINE N == Len(s)
           breaks == {i \in 1..N : s[i] = "nl"}
           Behind(i) == {j \in breaks : j >= i}
<1>0. N \in Nat /\ TailLines \in Nat \ {0} /\ breaks \subseteq 1..N
    BY TextAssumption
<1>1. CASE Cardinality(breaks) < TailLines
    BY <1>1 DEF TailOf
<1>2. CASE ~(Cardinality(breaks) < TailLines)
    <2>1. \E i \in breaks : Cardinality(Behind(i)) = TailLines
        <3>1. ASSUME NEW i \in Nat PROVE IsFiniteSet(Behind(i)) /\ Cardinality(Behind(i)) \in Nat
            <4>1. IsFiniteSet(1..N)
                BY <1>0, FS_Interval
            <4>2. Behind(i) \subseteq 1..N
                OBVIOUS
            <4> HIDE DEF Behind
            <4>3. IsFiniteSet(Behind(i))
                BY <4>1, <4>2, FS_Subset
            <4> QED
                BY <4>3, FS_CardinalityType
        <3>2. ASSUME NEW i \in Nat, i \notin breaks PROVE Behind(i) = Behind(i + 1)
            <4> SUFFICES ASSUME NEW j \in breaks PROVE j >= i <=> j >= i + 1
                OBVIOUS
            <4> QED
                BY <1>0, <3>2
        <3>3. ASSUME NEW i \in breaks PROVE Cardinality(Behind(i)) = Cardinality(Behind(i + 1)) + 1
            <4>1. Behind(i) = Behind(i + 1) \cup {i} /\ i \notin Behind(i + 1) /\ i + 1 \in Nat
                <5>1. \A j \in breaks : j >= i <=> j = i \/ j >= i + 1
                    BY <1>0
                <5>2. i \in Nat /\ ~(i >= i + 1)
                    BY <1>0
                <5> QED
                    BY <5>1, <5>2
            <4>2. IsFiniteSet(Behind(i + 1))
                BY <3>1, <4>1
            <4> HIDE DEF Behind
            <4> QED
                BY <4>1, <4>2, FS_AddElement
        <3>4. Cardinality(Behind(1)) >= TailLines /\ Cardinality(Behind(N + 1)) = 0
            <4>1. Behind(1) = breaks
                BY <1>0
            <4>2. Behind(N + 1) = {}
                <5> SUFFICES ASSUME NEW j \in breaks, j >= N + 1 PROVE FALSE
                    OBVIOUS
                <5> QED
                    BY <1>0
            <4>3. Cardinality({}) = 0
                BY FS_EmptySet
            <4>4. Cardinality(Behind(1)) \in Nat
                BY <3>1
            <4>5. Cardinality(Behind(N + 1)) = 0
                BY <4>2, <4>3, Zenon
            <4>6. Cardinality(Behind(1)) = Cardinality(breaks)
                BY <4>1, Zenon
            <4> HIDE DEF Behind, breaks, N
            <4> QED
                BY <1>0, <1>2, <4>4, <4>5, <4>6
        <3> HIDE DEF Behind
        <3> DEFINE Enough == {d \in Nat : d <= N /\ Cardinality(Behind((N + 1) - d)) >= TailLines}
        <3>5. N \in Enough
            <4>1. (N + 1) - N = 1
                BY <1>0
            <4> QED
                BY <1>0, <3>4, <4>1
        <3>6. PICK d \in Enough : \A e \in Enough : d <= e
            <4>1. Enough \subseteq Nat /\ Enough # {}
                BY <3>5
            <4> HIDE DEF Enough
            <4> QED
                BY <4>1, LeastOf
        <3> DEFINE i == (N + 1) - d
        <3>7. i \in Nat /\ Cardinality(Behind(i)) >= TailLines /\ d \in Nat /\ d <= N
            BY <1>0, <3>6
        <3>8. d # 0
            BY <1>0, <3>4, <3>7
        <3>9. Cardinality(Behind(i + 1)) < TailLines
            <4>1. d - 1 \in Nat /\ d - 1 <= N /\ ~(d <= d - 1) /\ (N + 1) - (d - 1) = i + 1
                BY <1>0, <3>7, <3>8
            <4>2. d - 1 \notin Enough
                <5> HIDE DEF Enough
                <5> QED
                    BY <3>6, <4>1
            <4>3. ~(Cardinality(Behind(i + 1)) >= TailLines)
                BY <4>1, <4>2
            <4>4. Cardinality(Behind(i + 1)) \in Nat
                <5>1. i + 1 \in Nat
                    BY <3>7
                <5> QED
                    BY <3>1, <5>1
            <4> HIDE DEF i
            <4> QED
                BY <1>0, <4>3, <4>4
        <3> HIDE DEF i, breaks, Enough
        <3>10. i \in breaks
            <4> SUFFICES ASSUME i \notin breaks PROVE FALSE
                OBVIOUS
            <4>1. Behind(i) = Behind(i + 1)
                BY <3>2, <3>7
            <4>2. Cardinality(Behind(i)) \in Nat
                BY <3>1, <3>7
            <4> QED
                BY <1>0, <3>7, <3>9, <4>1, <4>2
        <3>11. Cardinality(Behind(i)) = TailLines
            <4>1. Cardinality(Behind(i)) = Cardinality(Behind(i + 1)) + 1
                BY <3>3, <3>10
            <4>2. Cardinality(Behind(i + 1)) \in Nat
                <5>1. i + 1 \in Nat
                    BY <3>7
                <5> QED
                    BY <3>1, <5>1
            <4> QED
                BY <1>0, <3>7, <3>9, <4>1, <4>2
        <3> QED
            BY <3>10, <3>11
    <2> DEFINE the == CHOOSE i \in breaks : Cardinality(Behind(i)) = TailLines
    <2>2. the \in breaks
        BY <2>1
    <2>3. TailOf(s) = SubSeq(s, 1 + the, N)
        BY <1>2, Zenon DEF TailOf
    <2> HIDE DEF the
    <2>4. the \in 1..N
        BY <2>2
    <2> QED
        BY <1>0, <2>3, <2>4
<1> QED
    BY <1>1, <1>2

(* A cut text is no longer than allowed, if its marker and tail are not.     *)
LEMMA CutLength ==
    ASSUME NEW s \in Seq(ByteClass), Len(s) > MaxResult,
           MarkerLen + Len(TailOf(s)) <= MaxResult
    PROVE  Len(tool_format_result(s)) <= MaxResult
<1> DEFINE t == TailOf(s)
           d == MaxResult - MarkerLen - Len(t)
           h == d % SizeRange
<1>1. /\ t \in Seq(ByteClass) /\ Len(t) \in Nat /\ Len(s) \in Nat
      /\ MarkerLen \in Nat /\ MaxResult \in Nat /\ SizeRange \in Nat \ {0}
    BY TailLength, TextAssumption
<1>2. d \in Nat /\ d = MaxResult - MarkerLen - Len(t) /\ d <= MaxResult
    BY <1>1
<1>3. HeadLen(s) = IF h > Len(s) THEN Len(s) \div 2 ELSE h
    BY DEF HeadLen
<1>4. tool_format_result(s) = SubSeq(s, 1, HeadLen(s)) \o Marker \o t
    <2>1. ~(Len(s) <= MaxResult)
        BY <1>1
    <2> QED
        BY <2>1, Zenon DEF tool_format_result
<1>5. Marker \in Seq(ByteClass) /\ Len(Marker) = MarkerLen
    BY <1>1 DEF Marker, ByteClass
<1> HIDE DEF t, d
<1>6. h \in Nat /\ h <= d
    BY <1>1, <1>2
<1> HIDE DEF h
<1>7. HeadLen(s) = h /\ h <= Len(s)
    BY <1>1, <1>2, <1>3, <1>6
<1> DEFINE p == SubSeq(s, 1, HeadLen(s))
<1>8. p \in Seq(ByteClass) /\ Len(p) = h
    BY <1>1, <1>6, <1>7
<1> HIDE DEF p
<1>9. p \o Marker \in Seq(ByteClass) /\ Len(p \o Marker) = h + MarkerLen
    <2>1. Len(p \o Marker) = Len(p) + Len(Marker)
        BY <1>5, <1>8, JoinedAt
    <2> QED
        BY <1>5, <1>8, <2>1
<1> DEFINE q == p \o Marker
<1>10. q \in Seq(ByteClass) /\ Len(q) = h + MarkerLen
    BY <1>9
<1>11. tool_format_result(s) = q \o t
    BY <1>4 DEF p
<1> HIDE DEF q
<1>12. Len(q \o t) = Len(q) + Len(t)
    BY <1>1, <1>10, JoinedAt
<1> QED
    BY <1>1, <1>2, <1>6, <1>10, <1>11, <1>12

------------------------------------------------------------------------------
LEMMA InitIInv == Init => IInv
<1> SUFFICES ASSUME Init PROVE IInv
    OBVIOUS
<1>1. Types
    BY DEF Init, Types, Place, ProcPlace, Process, Role
<1>2. ASSUME NEW c \in Call PROVE Staged(c) /\ Kept(c)
    <2>1. /\ pc[c] = "start" /\ kind[c] = "sync" /\ ~timedOut[c] /\ written[c] = <<>>
          /\ out[c] = <<>> /\ pipe[c] = <<>> /\ atExit[c] = 0 /\ proc[<<c, "shell">>] = "none"
        BY DEF Init, Process, Role
    <2>2. Split(<<>>, <<>>, <<>>) /\ Len(<<>>) = 0
        BY DEF Split
    <2> QED
        BY <2>1, <2>2 DEF Staged, Kept, Reading, Closing, Ran
<1> QED
    BY <1>1, <1>2 DEF IInv

------------------------------------------------------------------------------
(* Steps keep the types. *)

LEMMA CallTypes ==
    ASSUME Types, NEW c \in Call, Refused(c) \/ tool_bash(c) \/ async_bash_thread_fn(c)
           \/ Fork(c) \/ Setup(c) \/ ReadNothing(c) \/ Deadline(c)
    PROVE  Types'
<1>0. Agent(c) \in Holder /\ <<c, "shell">> \in Process
    BY DEF Holder, Process, Role
<1> USE <1>0 DEF Types, command, Goto, Place, ProcPlace
<1>1. CASE Refused(c)
    BY <1>1 DEF Refused
<1>2. CASE tool_bash(c)
    BY <1>2 DEF tool_bash
<1>3. CASE async_bash_thread_fn(c)
    BY <1>3 DEF async_bash_thread_fn
<1>4. CASE Fork(c)
    <2>1. writers' \in [Call -> SUBSET Holder]
        BY <1>4 DEF Fork, Holder
    <2> QED
        BY <1>4, <2>1 DEF Fork
<1>5. CASE Setup(c)
    BY <1>5 DEF Setup, Role
<1>6. CASE ReadNothing(c)
    BY <1>6 DEF ReadNothing
<1>7. CASE Deadline(c)
    BY <1>7 DEF Deadline
<1> QED
    BY <1>1, <1>2, <1>3, <1>4, <1>5, <1>6, <1>7

LEMMA ReadTypes == ASSUME Types, NEW c \in Call, NEW n, Read(c, n) PROVE Types'
<1>0. out[c] \in Seq(ByteClass) /\ pipe[c] \in Seq(ByteClass) /\ n \in 1..Len(pipe[c])
    BY DEF Types, Read
<1>1. SubSeq(pipe[c], 1, n) \in Seq(ByteClass) /\ SubSeq(pipe[c], n + 1, Len(pipe[c])) \in Seq(ByteClass)
    BY <1>0
<1>2. UpToNul(SubSeq(pipe[c], 1, n)) \in Seq(ByteClass)
    BY <1>1, UpToNulType
<1>3. out[c] \o UpToNul(SubSeq(pipe[c], 1, n)) \in Seq(ByteClass)
    BY <1>0, <1>2
<1> QED
    BY <1>1, <1>3 DEF Read, Types, Goto, Place

LEMMA EndsTypes ==
    ASSUME Types, NEW ps, Ends(ps)
    PROVE  /\ proc' \in [Process -> ProcPlace] /\ atExit' \in [Call -> Nat]
           /\ writers' \in [Call -> SUBSET Holder]
           /\ \A d \in Call : writers'[d] = writers[d] \ ps
BY DEF Ends, Close, Types, ProcPlace

LEMMA CommandTypes ==
    ASSUME Types, CommandStep PROVE Types'
<1> USE DEF Types, call, ProcPlace
<1>1. ASSUME NEW c \in Call, Exec(c) \/ Spawn(c) \/ Leave(c) PROVE Types'
    <2>0. <<c, "shell">> \in Process /\ <<c, "job">> \in Process /\ <<c, "job">> \in Holder
        BY DEF Process, Role, Holder
    <2>1. CASE Exec(c)
        BY <2>0, <2>1 DEF Exec, Role
    <2>2. CASE Spawn(c)
        <3>1. writers' \in [Call -> SUBSET Holder]
            BY <2>0, <2>2 DEF Spawn
        <3> QED
            BY <2>0, <2>2, <3>1 DEF Spawn, Role
    <2>3. CASE Leave(c)
        BY <2>0, <2>3 DEF Leave, Role
    <2> QED
        BY <1>1, <2>1, <2>2, <2>3
<1>2. ASSUME NEW p \in Process, Exit(p) PROVE Types'
    BY <1>2, EndsTypes DEF Exit
<1>3. ASSUME NEW p \in Process, CloseOutput(p) PROVE Types'
    BY <1>3 DEF CloseOutput
<1>4. ASSUME NEW p \in Process, NEW b \in Byte, Write(p, b) PROVE Types'
    <2>1. p[1] \in Call /\ b \in ByteClass
        BY ByteAssumption DEF Process
    <2> QED
        BY <1>4, <2>1 DEF Write
<1> QED
    BY <1>1, <1>2, <1>3, <1>4 DEF CommandStep

LEMMA NextTypes == Types /\ [Next]_vars => Types'
<1> SUFFICES ASSUME Types, [Next]_vars PROVE Types'
    OBVIOUS
<1>1. CASE UNCHANGED vars
    BY <1>1 DEF vars, Types
<1>2. ASSUME NEW c \in Call, CheckDeadline(c) PROVE Types'
    <2>1. CASE limit[c] /\ late[c]
        <3>1. PICK ps : Ends(ps)
            BY <1>2, <2>1 DEF CheckDeadline, KillGroup
        <3> QED
            BY <1>2, <2>1, <3>1, EndsTypes DEF CheckDeadline, Types, Goto, Place
    <2>2. CASE ~(limit[c] /\ late[c])
        BY <1>2, <2>2 DEF CheckDeadline, Types, Goto, Place
    <2> QED
        BY <2>1, <2>2
<1>3. ASSUME NEW c \in Call, Waitpid(c) PROVE Types'
    <2>1. UpToNul(written[c]) \in Seq(ByteClass)
        BY UpToNulType DEF Types
    <2> QED
        BY <1>3, <2>1 DEF Waitpid, Types, Goto, Place, ProcPlace
<1> QED
    BY <1>1, <1>2, <1>3, CallTypes, ReadTypes, CommandTypes DEF Next, CallStep

------------------------------------------------------------------------------
(* What a step leaves of another call alone keeps the call's invariant; the  *)
(* pipe of a call whose end of file was read is inherited by nobody.         *)
Untouched(d) ==
    /\ pc'[d] = pc[d] /\ kind'[d] = kind[d] /\ timedOut'[d] = timedOut[d]
    /\ out'[d] = out[d] /\ pipe'[d] = pipe[d] /\ written'[d] = written[d]
    /\ atExit'[d] = atExit[d] /\ group'[d] = group[d]
    /\ \A r \in Role : proc'[<<d, r>>] = proc[<<d, r>>]
    /\ writers[d] = {} => writers'[d] = {}

LEMMA UntouchedKeeps ==
    ASSUME Types, NEW d \in Call, Staged(d), Kept(d), Untouched(d)
    PROVE  Staged(d)' /\ Kept(d)'
<1>1. "shell" \in Role /\ group[d] \subseteq Role
    BY DEF Role, Types
<1>2. Staged(d)'
    BY <1>1 DEF Staged, Untouched, Running
<1>3. Kept(d)'
    BY <1>1 DEF Kept, Untouched, Reading, Closing, Ran
<1> QED
    BY <1>2, <1>3

(* The steps of a calling thread leave the other calls alone. *)
LEMMA OthersUntouched ==
    ASSUME Types, NEW c \in Call, NEW d \in Call, d # c,
           \/ Refused(c) \/ tool_bash(c) \/ async_bash_thread_fn(c) \/ Fork(c) \/ Setup(c)
           \/ (\E n \in 1..MaxBytes : Read(c, n)) \/ ReadNothing(c) \/ Deadline(c)
           \/ CheckDeadline(c) \/ Waitpid(c) \/ Exec(c) \/ Spawn(c) \/ Leave(c)
    PROVE  Untouched(d)
<1>0. \A r \in Role : <<d, r>> \in Process /\ \A q \in Role : <<d, r>> # <<c, q>>
    BY DEF Process
<1>1. "shell" \in Role /\ "job" \in Role /\ group[c] \subseteq Role
    BY DEF Role, Types
<1> USE <1>0, <1>1 DEF Untouched, Types, command, call, Goto
<1>2. CASE Refused(c) \/ tool_bash(c) \/ async_bash_thread_fn(c)
    BY <1>2 DEF Refused, tool_bash, async_bash_thread_fn
<1>3. CASE Fork(c)
    BY <1>3 DEF Fork
<1>4. CASE Setup(c) \/ ReadNothing(c) \/ Deadline(c) \/ (\E n \in 1..MaxBytes : Read(c, n))
    BY <1>4 DEF Setup, ReadNothing, Deadline, Read
<1>5. CASE CheckDeadline(c)
    <2>1. CASE limit[c] /\ late[c]
        <3> DEFINE ps == {p \in {c} \X group[c] : proc[p] \in {"born", "running"}}
        <3>1. Ends(ps)
            BY <1>5, <2>1 DEF CheckDeadline, KillGroup
        <3>2. \A r \in Role : <<d, r>> \notin ps
            OBVIOUS
        <3> HIDE DEF ps
        <3>3. /\ \A r \in Role : proc'[<<d, r>>] = proc[<<d, r>>]
              /\ atExit'[d] = atExit[d] /\ writers'[d] = writers[d] \ ps
            BY <3>1, <3>2 DEF Ends, Close
        <3> QED
            BY <1>5, <2>1, <3>3 DEF CheckDeadline
    <2>2. CASE ~(limit[c] /\ late[c])
        BY <1>5, <2>2 DEF CheckDeadline
    <2> QED
        BY <2>1, <2>2
<1>6. CASE Waitpid(c)
    BY <1>6 DEF Waitpid
<1>7. CASE Exec(c) \/ Leave(c)
    BY <1>7 DEF Exec, Leave
<1>8. CASE Spawn(c)
    BY <1>8 DEF Spawn
<1> QED
    BY <1>2, <1>3, <1>4, <1>5, <1>6, <1>7, <1>8

------------------------------------------------------------------------------
(* A step of the calling thread. *)
LEMMA OwnStaged ==
    ASSUME Types, NEW c \in Call, Staged(c),
           \/ Refused(c) \/ tool_bash(c) \/ async_bash_thread_fn(c) \/ Fork(c) \/ Setup(c)
           \/ (\E n \in 1..MaxBytes : Read(c, n)) \/ ReadNothing(c) \/ Deadline(c)
           \/ CheckDeadline(c) \/ Waitpid(c)
    PROVE  Staged(c)'
<1>0. /\ <<c, "shell">> \in Process /\ \A r \in Role : <<c, r>> \in Process
      /\ "shell" \in Role /\ group[c] \subseteq Role
    BY DEF Process, Role, Types
<1> USE <1>0 DEF Types, Staged, Running, command, Goto
<1>1. CASE Refused(c)
    BY <1>1 DEF Refused
<1>2. CASE tool_bash(c)
    BY <1>2 DEF tool_bash
<1>3. CASE async_bash_thread_fn(c)
    BY <1>3 DEF async_bash_thread_fn
<1>4. CASE Fork(c)
    BY <1>4 DEF Fork
<1>5. CASE Setup(c)
    BY <1>5 DEF Setup
<1>6. CASE \E n \in 1..MaxBytes : Read(c, n)
    BY <1>6 DEF Read
<1>7. CASE ReadNothing(c) \/ Deadline(c)
    BY <1>7 DEF ReadNothing, Deadline
<1>8. CASE CheckDeadline(c)
    <2>1. CASE limit[c] /\ late[c]
        <3> DEFINE ps == {p \in {c} \X group[c] : proc[p] \in {"born", "running"}}
        <3>1. /\ Ends(ps) /\ pc'[c] = "wait" /\ pc[c] = "check" /\ group' = group /\ kind' = kind
            BY <1>8, <2>1 DEF CheckDeadline, KillGroup
        <3>2. \A r \in group[c] : <<c, r>> \in ps <=> proc[<<c, r>>] \in {"born", "running"}
            OBVIOUS
        <3> HIDE DEF ps
        <3>3. \A p \in Process : proc'[p] = IF p \in ps THEN "ended" ELSE proc[p]
            BY <3>1 DEF Ends
        <3>4. \A r \in group[c] : proc'[<<c, r>>] \notin {"born", "running"}
            BY <3>2, <3>3
        <3>5. "shell" \in group[c] /\ proc[<<c, "shell">>] \in {"born", "running", "ended"}
            BY <3>1 DEF ProcPlace
        <3>6. proc'[<<c, "shell">>] = "ended"
            BY <3>2, <3>3, <3>5
        <3> QED
            BY <3>1, <3>4, <3>5, <3>6
    <2>2. CASE ~(limit[c] /\ late[c])
        BY <1>8, <2>2 DEF CheckDeadline
    <2> QED
        BY <2>1, <2>2
<1>9. CASE Waitpid(c)
    BY <1>9 DEF Waitpid
<1> QED
    BY <1>1, <1>2, <1>3, <1>4, <1>5, <1>6, <1>7, <1>8, <1>9

LEMMA OwnKept ==
    ASSUME Types, NEW c \in Call, Staged(c), Kept(c),
           \/ Refused(c) \/ tool_bash(c) \/ async_bash_thread_fn(c) \/ Fork(c) \/ Setup(c)
           \/ (\E n \in 1..MaxBytes : Read(c, n)) \/ ReadNothing(c) \/ Deadline(c)
           \/ CheckDeadline(c) \/ Waitpid(c)
    PROVE  Kept(c)'
<1>0. /\ <<c, "shell">> \in Process
      /\ out[c] \in Seq(ByteClass) /\ pipe[c] \in Seq(ByteClass) /\ written[c] \in Seq(ByteClass)
      /\ Len(written[c]) \in Nat
    BY DEF Process, Role, Types
<1> USE <1>0 DEF Types, Goto, command
<1>1. CASE Refused(c)
    <2>1. pc'[c] = "done" /\ proc'[<<c, "shell">>] # "reaped" /\ atExit' = atExit /\ written' = written
        BY <1>1 DEF Refused, Staged
    <2> QED
        BY <2>1 DEF Kept, Reading, Closing, Ran
<1>2. CASE tool_bash(c) \/ Fork(c) \/ Deadline(c)
    BY <1>2 DEF tool_bash, Fork, Deadline, Kept, Reading, Closing, Ran
<1>3. CASE async_bash_thread_fn(c)
    BY <1>3 DEF async_bash_thread_fn, Kept, Reading, Closing, Ran
<1>4. CASE Setup(c)
    BY <1>4 DEF Setup, Kept, Reading, Closing, Ran
<1>5. ASSUME NEW n \in 1..MaxBytes, Read(c, n) PROVE Kept(c)'
    <2>1. /\ pc[c] = "read" /\ pc'[c] = "check" /\ n \in 1..Len(pipe[c]) /\ kind' = kind
          /\ out'[c] = out[c] \o UpToNul(SubSeq(pipe[c], 1, n))
          /\ pipe'[c] = SubSeq(pipe[c], n + 1, Len(pipe[c]))
          /\ written' = written /\ atExit' = atExit
        BY <1>5 DEF Read
    <2>2. kind[c] = "sync" /\ Clean(written[c]) => Split(written[c], out'[c], pipe'[c])
        BY <2>1, ReadMoves DEF Kept, Reading
    <2> QED
        BY <2>1, <2>2 DEF Kept, Reading, Closing, Ran
<1>6. CASE ReadNothing(c)
    <2>1. /\ pc[c] = "read" /\ pc'[c] \in {"wait", "check"} /\ (pc'[c] = "wait" => writers[c] = {})
          /\ UNCHANGED <<out, pipe, written, atExit, writers, kind, timedOut>> /\ pipe[c] = <<>>
        BY <1>6 DEF ReadNothing
    <2>2. kind[c] = "sync" /\ Clean(written[c]) =>
             /\ Split(written[c], out[c], pipe[c]) /\ out[c] = written[c]
             /\ Prefix(out[c], written[c])
        BY <2>1, SplitEmpty, SplitPrefix DEF Kept, Reading
    <2>3. kind[c] = "sync"
        BY <2>1 DEF Staged
    <2> QED
        BY <2>1, <2>2, <2>3 DEF Kept, Reading, Closing, Ran
<1>7. CASE CheckDeadline(c)
    <2>3. kind[c] = "sync" /\ pc[c] = "check"
        BY <1>7 DEF Staged, CheckDeadline
    <2>1. CASE limit[c] /\ late[c]
        <3>1. /\ pc'[c] = "wait" /\ timedOut'[c] /\ UNCHANGED <<out, pipe, written, kind>>
            BY <1>7, <2>1 DEF CheckDeadline
        <3>2. PICK ps : Ends(ps)
            BY <1>7, <2>1 DEF CheckDeadline, KillGroup
        <3>3. atExit'[c] \in {atExit[c], Len(written[c])}
            BY <3>2 DEF Ends
        <3>4. Clean(written[c]) => Prefix(out[c], written[c])
            BY <2>3, SplitPrefix DEF Kept, Reading
        <3> QED
            BY <2>3, <3>1, <3>3, <3>4 DEF Kept, Reading, Closing, Ran
    <2>2. CASE ~(limit[c] /\ late[c])
        BY <1>7, <2>2, <2>3 DEF CheckDeadline, Kept, Reading, Closing, Ran
    <2> QED
        BY <2>1, <2>2
<1>8. CASE Waitpid(c)
    <2>1. /\ pc[c] = "wait" /\ pc'[c] = "done" /\ proc'[<<c, "shell">>] = "reaped"
          /\ UNCHANGED <<pipe, written, atExit, writers, kind, timedOut>>
          /\ out'[c] = IF kind[c] = "sync" THEN out[c] ELSE UpToNul(written[c])
        BY <1>8 DEF Waitpid
    <2>2. CASE kind[c] = "sync"
        BY <2>1, <2>2 DEF Kept, Reading, Closing, Ran
    <2>3. CASE kind[c] # "sync"
        <3>1. Clean(written[c]) => out'[c] = written[c]
            BY <2>1, <2>3, UpToNulType
        <3>2. Clean(written[c]) => Prefix(out'[c], written[c]) /\ Len(out'[c]) >= atExit[c]
            BY <3>1 DEF Prefix, Kept
        <3> QED
            BY <2>1, <2>3, <3>2 DEF Kept, Reading, Closing, Ran
    <2> QED
        BY <2>2, <2>3
<1> QED
    BY <1>1, <1>2, <1>3, <1>4, <1>5, <1>6, <1>7, <1>8

------------------------------------------------------------------------------
(* A step of a command. *)
LEMMA CommandKeeps ==
    ASSUME IInv, CommandStep, NEW d \in Call
    PROVE  Staged(d)' /\ Kept(d)'
<1>0. /\ Types /\ Staged(d) /\ Kept(d)
      /\ <<d, "shell">> \in Process /\ "shell" \in Role /\ "job" \in Role
      /\ \A r \in Role : <<d, r>> \in Process
      /\ group[d] \subseteq Role
      /\ out[d] \in Seq(ByteClass) /\ pipe[d] \in Seq(ByteClass) /\ written[d] \in Seq(ByteClass)
      /\ Len(written[d]) \in Nat
    BY DEF IInv, Types, Process, Role
<1>1. ASSUME NEW c \in Call, Exec(c) \/ Spawn(c) \/ Leave(c) PROVE Staged(d)' /\ Kept(d)'
    <2>1. CASE c # d
        BY <1>0, <1>1, <2>1, OthersUntouched, UntouchedKeeps
    <2>2. CASE c = d
        <3>1. /\ UNCHANGED <<pc, kind, timedOut, out, pipe, written, atExit>>
              /\ writers[d] = {} => writers'[d] = {}
            BY <1>0, <1>1, <2>2 DEF Exec, Spawn, Leave, call, Types
        <3>2. CASE Exec(d)
            <4>1. proc[<<d, "shell">>] = "born" /\ proc'[<<d, "shell">>] = "running"
                BY <1>0, <3>2 DEF Exec, Types
            <4>2. ~timedOut[d] /\ ("shell" \in group[d] => "shell" \in group'[d])
                BY <1>0, <3>2, <4>1 DEF Staged, Exec, Types
            <4> QED
                BY <1>0, <3>1, <4>1, <4>2 DEF Staged, Kept, Reading, Closing, Ran
        <3>3. CASE Spawn(d)
            <4>1. proc[<<d, "shell">>] = "running" /\ proc'[<<d, "shell">>] = "running"
                BY <1>0, <3>3 DEF Spawn, Types, Running
            <4>2. ~timedOut[d] /\ ("shell" \in group[d] => "shell" \in group'[d])
                BY <1>0, <3>3, <4>1 DEF Staged, Spawn, Types
            <4> QED
                BY <1>0, <3>1, <4>1, <4>2 DEF Staged, Kept, Reading, Closing, Ran
        <3>4. CASE Leave(d)
            <4>1. /\ proc' = proc /\ group'[d] \subseteq group[d]
                  /\ "shell" \in group[d] => "shell" \in group'[d]
                BY <1>0, <3>4 DEF Leave, Types
            <4> QED
                BY <1>0, <3>1, <4>1 DEF Staged, Kept, Reading, Closing, Ran, Running
        <3> QED
            BY <1>1, <2>2, <3>2, <3>3, <3>4
    <2> QED
        BY <2>1, <2>2
<1>2. ASSUME NEW p \in Process, Exit(p) PROVE Staged(d)' /\ Kept(d)'
    <2>1. /\ UNCHANGED <<pc, kind, timedOut, out, pipe, written, group>>
          /\ proc[p] \in {"born", "running"}
          /\ \A q \in Process : proc'[q] = IF q = p THEN "ended" ELSE proc[q]
          /\ writers[d] = {} => writers'[d] = {}
          /\ atExit'[d] = IF <<d, "shell">> = p THEN Len(written[d]) ELSE atExit[d]
        BY <1>2 DEF Exit, Ends, Close, call
    <2>2. Staged(d)'
        BY <1>0, <2>1 DEF Staged, Running
    <2>3. Kept(d)'
        <3>1. CASE <<d, "shell">> = p
            <4>1. proc[<<d, "shell">>] # "reaped" /\ proc'[<<d, "shell">>] = "ended"
                BY <1>0, <2>1, <3>1
            <4> QED
                BY <1>0, <2>1, <3>1, <4>1 DEF Kept, Reading, Closing, Ran
        <3>2. CASE <<d, "shell">> # p
            BY <1>0, <2>1, <3>2 DEF Kept, Reading, Closing, Ran
        <3> QED
            BY <3>1, <3>2
    <2> QED
        BY <2>2, <2>3
<1>3. ASSUME NEW p \in Process, CloseOutput(p) PROVE Staged(d)' /\ Kept(d)'
    <2>1. Untouched(d)
        BY <1>0, <1>3 DEF CloseOutput, Untouched, call, Types
    <2> QED
        BY <1>0, <2>1, UntouchedKeeps
<1>4. ASSUME NEW p \in Process, NEW b \in Byte, Write(p, b) PROVE Staged(d)' /\ Kept(d)'
    <2>0. p[1] \in Call /\ b \in ByteClass
        BY ByteAssumption DEF Process
    <2>1. CASE p[1] # d
        <3>1. Untouched(d)
            BY <1>0, <1>4, <2>0, <2>1 DEF Write, Untouched, call, Types
        <3> QED
            BY <1>0, <3>1, UntouchedKeeps
    <2>2. CASE p[1] = d
        <3>1. /\ UNCHANGED <<pc, kind, timedOut, out, proc, group, writers, atExit>>
              /\ written'[d] = Append(written[d], b)
              /\ kind[d] = "sync" => p \in writers[d]
              /\ kind[d] = "sync" /\ Reading(d) => pipe'[d] = Append(pipe[d], b)
            BY <1>0, <1>4, <2>0, <2>2 DEF Write, Connected, Reading, call, Types
        <3>2. Staged(d)'
            BY <1>0, <3>1 DEF Staged, Running
        <3>3. Clean(written'[d]) => Clean(written[d])
            BY <1>0, <2>0, <3>1, CleanAppend
        <3>4. atExit[d] <= Len(written'[d])
            <4>1. Len(written'[d]) = Len(written[d]) + 1 /\ atExit[d] \in Nat
                BY <1>0, <2>0, <3>1 DEF Types
            <4> QED
                BY <1>0, <4>1 DEF Kept
        <3>5. kind[d] = "sync" /\ Reading(d) /\ Clean(written'[d]) =>
                 Split(written'[d], out[d], pipe'[d])
            BY <1>0, <2>0, <3>1, <3>3, SplitAppend DEF Kept
        <3>6. Prefix(out[d], written[d]) => Prefix(out[d], written'[d])
            BY <1>0, <2>0, <3>1, PrefixAppend
        <3>7. kind[d] = "sync" /\ Closing(d) => timedOut[d]
            BY <1>0, <3>1 DEF Kept
        <3> QED
            BY <1>0, <3>1, <3>2, <3>3, <3>4, <3>5, <3>6, <3>7 DEF Kept, Reading, Closing, Ran
    <2> QED
        BY <2>1, <2>2
<1> QED
    BY <1>1, <1>2, <1>3, <1>4 DEF CommandStep

LEMMA NextIInv == IInv /\ [Next]_vars => IInv'
<1> SUFFICES ASSUME IInv, [Next]_vars PROVE IInv'
    OBVIOUS
<1>1. Types'
    BY NextTypes DEF IInv
<1>2. ASSUME NEW d \in Call PROVE Staged(d)' /\ Kept(d)'
    <2>0. Types /\ Staged(d) /\ Kept(d)
        BY DEF IInv
    <2>1. CASE UNCHANGED vars
        BY <2>0, <2>1, UntouchedKeeps DEF vars, Untouched
    <2>2. CASE CommandStep
        BY <2>2, CommandKeeps
    <2>3. ASSUME NEW c \in Call, Refused(c) \/ tool_bash(c) \/ async_bash_thread_fn(c)
                                 \/ CallStep(c) \/ Deadline(c)
          PROVE  Staged(d)' /\ Kept(d)'
        <3>1. CASE c = d
            BY <2>0, <2>3, <3>1, OwnStaged, OwnKept DEF CallStep
        <3>2. CASE c # d
            <4>1. Untouched(d)
                BY <2>0, <2>3, <3>2, OthersUntouched DEF CallStep
            <4> QED
                BY <2>0, <4>1, UntouchedKeeps
        <3> QED
            BY <3>1, <3>2
    <2> QED
        BY <2>1, <2>2, <2>3 DEF Next
<1> QED
    BY <1>1, <1>2 DEF IInv

(* A command that timed out leaves nothing of its process group running:     *)
(* setpgid in the parent comes before the first look at the deadline, so     *)
(* kill(-pid) reaches the shell, and a dead shell starts no further job.     *)
THEOREM TimeoutKillsAll == Spec => []TimeoutKillsGroup
<1>1. IInv => TimeoutKillsGroup
    BY DEF IInv, Staged, TimeoutKillsGroup
<1> QED
    BY <1>1, InitIInv, NextIInv, PTL DEF Spec

(* The output of a command is kept, for any number of concurrent calls that  *)
(* inherit each other's pipes: read returns end of file only when nobody can *)
(* write any more, and a background command is waited for before its file is *)
(* read.                                                                     *)
THEOREM NoOutputLost == Spec => []OutputKept
<1>1. IInv => OutputKept
    <2> SUFFICES ASSUME IInv, NEW c \in Call, Ran(c), Clean(written[c])
                 PROVE  /\ IsPrefix(out[c], written[c])
                        /\ kind[c] = "sync" /\ ~timedOut[c] => out[c] = written[c]
                        /\ kind[c] = "async" => Len(out[c]) >= atExit[c]
        BY DEF OutputKept
    <2>1. /\ out[c] \in Seq(ByteClass) /\ written[c] \in Seq(ByteClass)
          /\ kind[c] \in {"sync", "async"} /\ Kept(c)
        BY DEF IInv, Types
    <2>2. Prefix(out[c], written[c])
        BY <2>1 DEF Kept, Closing
    <2>3. IsPrefix(out[c], written[c])
        BY <2>1, <2>2, PrefixIs
    <2> QED
        BY <2>1, <2>3 DEF Kept, Closing
<1> QED
    BY <1>1, InitIInv, NextIInv, PTL DEF Spec

(* The text of a call that ran is what was made of its output, which does not *)
(* change any more; only a foreground call times out.                        *)
Told(c) ==
    /\ kind[c] = "async" => ~timedOut[c]
    /\ Ran(c) /\ kind[c] = "sync" => result[c] = tool_format_result(Sanitized(Output(c)))
    /\ Ran(c) /\ kind[c] = "async" /\ out[c] # <<>> => result[c] = Sanitized(out[c])
AllTold == result \in [Call -> Seq(ByteClass)] /\ \A c \in Call : Told(c)

LEMMA InitTold == Init => AllTold
<1> SUFFICES ASSUME Init PROVE AllTold
    OBVIOUS
<1>1. result \in [Call -> Seq(ByteClass)]
    BY DEF Init
<1>2. \A c \in Call : Told(c)
    BY DEF Init, Told, Ran
<1> QED
    BY <1>1, <1>2 DEF AllTold

LEMMA UntouchedTold ==
    ASSUME NEW d \in Call, Told(d), Untouched(d), result'[d] = result[d]
    PROVE  Told(d)'
<1>1. proc'[<<d, "shell">>] = proc[<<d, "shell">>]
    BY DEF Untouched, Role
<1>2. Output(d)' = Output(d)
    BY DEF Untouched, Output
<1>3. Ran(d)' <=> Ran(d)
    BY <1>1 DEF Untouched, Ran
<1> QED
    BY <1>2, <1>3 DEF Untouched, Told

LEMMA NothingSanitized == tool_format_result(Sanitized(<<>>)) = <<>>
<1>1. Len(<<>>) = 0 /\ <<>> \in Seq(ByteClass)
    OBVIOUS
<1>2. PICK f : Sanitized(<<>>) = f[1] /\ \A i \in 1..(Len(<<>>) + 1) : f[i] = FromByte(<<>>, f, i)
    BY <1>1, SanitizeUnfolds
<1>3. f[1] = FromByte(<<>>, f, 1)
    BY <1>1, <1>2
<1>4. Sanitized(<<>>) = <<>>
    BY <1>1, <1>2, <1>3 DEF FromByte
<1>5. MaxResult \in Nat \ {0}
    BY TextAssumption
<1> QED
    BY <1>1, <1>4, <1>5 DEF tool_format_result

LEMMA OwnTold ==
    ASSUME Types, result \in [Call -> Seq(ByteClass)], NEW c \in Call, Staged(c), Told(c),
           \/ Refused(c) \/ tool_bash(c) \/ async_bash_thread_fn(c) \/ Fork(c) \/ Setup(c)
           \/ (\E n \in 1..MaxBytes : Read(c, n)) \/ ReadNothing(c) \/ Deadline(c)
           \/ CheckDeadline(c) \/ Waitpid(c)
    PROVE  Told(c)'
<1>0. <<c, "shell">> \in Process
    BY DEF Process, Role
<1> USE <1>0 DEF Types, Goto, command
<1>1. CASE Refused(c)
    <2>1. ~Ran(c)' /\ timedOut' = timedOut /\ kind' = kind
        BY <1>1 DEF Refused, Staged, Ran
    <2> QED
        BY <2>1 DEF Told
<1>2. CASE tool_bash(c) \/ Fork(c) \/ Setup(c) \/ ReadNothing(c) \/ Deadline(c)
           \/ (\E n \in 1..MaxBytes : Read(c, n))
    <2>1. pc'[c] # "done" /\ timedOut' = timedOut /\ kind' = kind
        BY <1>2 DEF tool_bash, Fork, Setup, ReadNothing, Deadline, Read
    <2> QED
        BY <2>1 DEF Told, Ran
<1>3. CASE async_bash_thread_fn(c)
    <2>1. pc'[c] # "done" /\ timedOut' = timedOut /\ ~timedOut[c]
        BY <1>3 DEF async_bash_thread_fn, Staged
    <2> QED
        BY <2>1 DEF Told, Ran
<1>4. CASE CheckDeadline(c)
    <2>1. pc'[c] # "done" /\ kind' = kind /\ kind[c] # "async"
        BY <1>4 DEF CheckDeadline, Staged
    <2> QED
        BY <2>1 DEF Told, Ran
<1>5. CASE Waitpid(c)
    <2>1. /\ timedOut' = timedOut /\ kind' = kind /\ result'[c] \in Texts(c)
          /\ out'[c] = IF kind[c] = "sync" THEN out[c] ELSE UpToNul(written[c])
          /\ kind[c] \in {"sync", "async"} /\ timedOut[c] \in BOOLEAN
        <3>1. PICK t \in Texts(c) : result' = [result EXCEPT ![c] = t]
            BY <1>5 DEF Waitpid
        <3> QED
            BY <1>5, <3>1 DEF Waitpid
    <2>2. ASSUME kind[c] = "sync" PROVE result'[c] = tool_format_result(Sanitized(Output(c)))
        <3>1. CASE Output(c) = <<>>
            <4>1. result'[c] = <<>>
                BY <2>1, <2>2, <3>1 DEF Texts
            <4> QED
                BY <3>1, <4>1, NothingSanitized
        <3>2. CASE Output(c) # <<>>
            <4>1. result'[c] \in {tool_format_result(t) : t \in util_sanitize_utf8(Output(c))}
                BY <2>1, <2>2, <3>2 DEF Texts
            <4>2. util_sanitize_utf8(Output(c)) = {Sanitized(Output(c))}
                BY <3>2 DEF util_sanitize_utf8
            <4> QED
                BY <4>1, <4>2
        <3> QED
            BY <3>1, <3>2
    <2>3. ASSUME kind[c] = "async", out'[c] # <<>> PROVE result'[c] = Sanitized(out'[c])
        <3>1. out'[c] = UpToNul(written[c]) /\ result'[c] \in util_sanitize_utf8(UpToNul(written[c]))
            BY <2>1, <2>3 DEF Texts
        <3> QED
            BY <2>3, <3>1 DEF util_sanitize_utf8
    <2>4. kind[c] = "sync" => Output(c)' = Output(c)
        BY <2>1 DEF Output
    <2> QED
        BY <2>1, <2>2, <2>3, <2>4 DEF Told
<1> QED
    BY <1>1, <1>2, <1>3, <1>4, <1>5

LEMMA FormattedType == ASSUME NEW s \in Seq(ByteClass)
                       PROVE  tool_format_result(s) \in Seq(ByteClass)
<1> DEFINE h == (MaxResult - MarkerLen - Len(TailOf(s))) % SizeRange
           p == SubSeq(s, 1, HeadLen(s))
<1>1. CASE Len(s) <= MaxResult
    BY <1>1 DEF tool_format_result
<1>2. CASE ~(Len(s) <= MaxResult)
    <2>1. /\ TailOf(s) \in Seq(ByteClass) /\ Len(TailOf(s)) \in Nat /\ Len(s) \in Nat
          /\ MarkerLen \in Nat /\ MaxResult \in Nat /\ SizeRange \in Nat \ {0}
        BY TailLength, TextAssumption
    <2>2. h \in Nat
        BY <2>1
    <2>3. HeadLen(s) = IF h > Len(s) THEN Len(s) \div 2 ELSE h
        BY DEF HeadLen
    <2> HIDE DEF h
    <2>4. HeadLen(s) \in 0..Len(s)
        BY <2>1, <2>2, <2>3
    <2>5. p \in Seq(ByteClass)
        BY <2>1, <2>4
    <2>6. Marker \in Seq(ByteClass)
        BY <2>1 DEF Marker, ByteClass
    <2>7. tool_format_result(s) = p \o Marker \o TailOf(s)
        BY <1>2, Zenon DEF tool_format_result
    <2> HIDE DEF p
    <2>8. (p \o Marker) \o TailOf(s) \in Seq(ByteClass)
        BY <2>1, <2>5, <2>6
    <2> QED
        BY <2>7, <2>8
<1> QED
    BY <1>1, <1>2

LEMMA TimeoutTextIs == TimeoutText \in Seq(ByteClass)
BY DEF TimeoutText, ByteClass

LEMMA TextsType == ASSUME Types, NEW c \in Call PROVE Texts(c) \subseteq Seq(ByteClass)
<1>1. out[c] \in Seq(ByteClass) /\ written[c] \in Seq(ByteClass)
    BY DEF Types
<1>2. Output(c) \in Seq(ByteClass)
    BY <1>1, TimeoutTextIs DEF Output
<1>3. UpToNul(written[c]) \in Seq(ByteClass)
    BY <1>1, UpToNulType
<1>4. ASSUME NEW s \in Seq(ByteClass) PROVE util_sanitize_utf8(s) \subseteq Seq(ByteClass)
    BY SanitizedFrames, GarbageAssumption DEF util_sanitize_utf8
<1>5. {tool_format_result(t) : t \in util_sanitize_utf8(Output(c))} \subseteq Seq(ByteClass)
    BY <1>2, <1>4, FormattedType
<1>6. util_sanitize_utf8(UpToNul(written[c])) \subseteq Seq(ByteClass)
    BY <1>3, <1>4
<1>7. {<<>>} \subseteq Seq(ByteClass)
    OBVIOUS
<1> QED
    BY <1>5, <1>6, <1>7, Zenon DEF Texts

(* Only the end of a call sets its text. *)
LEMMA CallResult ==
    ASSUME Types, result \in [Call -> Seq(ByteClass)], NEW c \in Call,
           Refused(c) \/ tool_bash(c) \/ async_bash_thread_fn(c) \/ CallStep(c) \/ Deadline(c)
    PROVE  /\ result' \in [Call -> Seq(ByteClass)]
           /\ \A d \in Call : d # c => result'[d] = result[d]
<1>1. CASE Refused(c)
    <2>1. result' = [result EXCEPT ![c] = Refusal] /\ Refusal \in Seq(ByteClass)
        BY <1>1 DEF Refused, Refusal, ByteClass
    <2> QED
        BY <2>1
<1>2. CASE Waitpid(c)
    <2>1. PICK t \in Texts(c) : result' = [result EXCEPT ![c] = t]
        BY <1>2 DEF Waitpid
    <2>2. t \in Seq(ByteClass)
        BY TextsType
    <2> QED
        BY <2>1, <2>2
<1>3. CASE ~Refused(c) /\ ~Waitpid(c)
    <2>1. result' = result
        BY <1>3 DEF tool_bash, async_bash_thread_fn, CallStep, Deadline, Fork, Setup, Read,
                    ReadNothing, CheckDeadline
    <2> QED
        BY <2>1
<1> QED
    BY <1>1, <1>2, <1>3

LEMMA CommandTold ==
    ASSUME Types, CommandStep, NEW d \in Call, Told(d)
    PROVE  Told(d)' /\ result' = result
<1>0. <<d, "shell">> \in Process
    BY DEF Process, Role
<1>1. pc' = pc /\ kind' = kind /\ timedOut' = timedOut /\ out' = out /\ result' = result
    BY DEF CommandStep, Exec, Spawn, Leave, Exit, CloseOutput, Write, call
<1>2. proc'[<<d, "shell">>] = "reaped" <=> proc[<<d, "shell">>] = "reaped"
    <2>1. CASE \E c \in Call : Exec(c) \/ Spawn(c) \/ Leave(c)
        BY <1>0, <2>1 DEF Exec, Spawn, Leave, Types
    <2>2. CASE \E p \in Process : CloseOutput(p) \/ \E b \in Byte : Write(p, b)
        BY <2>2 DEF CloseOutput, Write
    <2>3. CASE \E p \in Process : Exit(p)
        <3>1. PICK p \in Process : Exit(p)
            BY <2>3
        <3>2. /\ proc[p] \in {"born", "running"}
              /\ \A q \in Process : proc'[q] = IF q = p THEN "ended" ELSE proc[q]
            BY <3>1 DEF Exit, Ends
        <3> QED
            BY <1>0, <3>2
    <2> QED
        BY <2>1, <2>2, <2>3 DEF CommandStep
<1>3. Output(d)' = Output(d) /\ (Ran(d)' <=> Ran(d))
    BY <1>1, <1>2 DEF Output, Ran
<1> QED
    BY <1>1, <1>3 DEF Told

LEMMA NextTold == IInv /\ AllTold /\ [Next]_vars => AllTold'
<1> SUFFICES ASSUME IInv, AllTold, [Next]_vars PROVE AllTold'
    OBVIOUS
<1>0. Types /\ result \in [Call -> Seq(ByteClass)]
    BY DEF IInv, AllTold
<1>1. ASSUME NEW d \in Call
      PROVE  Told(d)' /\ result' \in [Call -> Seq(ByteClass)]
    <2>0. Staged(d) /\ Told(d)
        BY DEF IInv, AllTold
    <2>1. CASE UNCHANGED vars
        BY <1>0, <2>0, <2>1, UntouchedTold DEF vars, Untouched
    <2>2. CASE CommandStep
        BY <1>0, <2>0, <2>2, CommandTold
    <2>3. ASSUME NEW c \in Call, Refused(c) \/ tool_bash(c) \/ async_bash_thread_fn(c)
                                 \/ CallStep(c) \/ Deadline(c)
          PROVE  Told(d)' /\ result' \in [Call -> Seq(ByteClass)]
        <3>0. /\ result' \in [Call -> Seq(ByteClass)]
              /\ \A b \in Call : b # c => result'[b] = result[b]
            BY <1>0, <2>3, CallResult
        <3>1. CASE c = d
            BY <1>0, <2>0, <2>3, <3>0, <3>1, OwnTold DEF CallStep
        <3>2. CASE c # d
            <4>1. Untouched(d)
                BY <1>0, <2>3, <3>2, OthersUntouched DEF CallStep
            <4> QED
                BY <2>0, <3>0, <3>2, <4>1, UntouchedTold
        <3> QED
            BY <3>1, <3>2
    <2> QED
        BY <2>1, <2>2, <2>3 DEF Next
<1>2. result' \in [Call -> Seq(ByteClass)]
    <2>1. CASE Call = {}
        <3>1. ~ (\E c \in Call : TRUE) /\ Process = {}
            BY <2>1 DEF Process
        <3>2. result' = result
            BY <2>1, <3>1 DEF Next, CommandStep, vars
        <3> QED
            BY <1>0, <3>2
    <2>2. CASE Call # {}
        BY <1>1, <2>2
    <2> QED
        BY <2>1, <2>2
<1> QED
    BY <1>1, <1>2 DEF AllTold

(* In the text of a command's result every character is whole, whatever bytes *)
(* the command wrote, of any number and in reads of any size, output that was *)
(* so is in it unchanged, and it is UTF-8 but for what the command wrote of   *)
(* overlong forms, surrogates and numbers above U+10FFFF; a text that had to  *)
(* be cut is no longer than allowed, if its last lines alone are not.  The    *)
(* text of a background command without output is left open.                  *)
THEOREM ResultIsSound == Spec => []ResultSound
<1>1. IInv /\ AllTold => ResultSound
    <2> SUFFICES ASSUME IInv, AllTold, NEW c \in Call, Ran(c), ~(kind[c] = "async" /\ out[c] = <<>>)
                 PROVE  LET full == Sanitized(Output(c))
                            cut == kind[c] = "sync" /\ Len(full) > MaxResult
                        IN  /\ ~cut => /\ Framed(result[c])
                                       /\ \/ Utf8(result[c])
                                          \/ \E i \in 1..Len(Output(c)) : Misfit(Output(c), i)
                                       /\ Framed(out[c]) => IsPrefix(out[c], result[c])
                            /\ cut => \/ Len(result[c]) <= MaxResult
                                      \/ MarkerLen + Len(TailOf(full)) > MaxResult
        BY Zenon DEF ResultSound
    <2> DEFINE full == Sanitized(Output(c))
               cut == kind[c] = "sync" /\ Len(full) > MaxResult
    <2>1. /\ out[c] \in Seq(ByteClass) /\ kind[c] \in {"sync", "async"}
          /\ kind[c] = "sync" => result[c] = tool_format_result(full)
          /\ kind[c] = "async" => result[c] = full
        <3>1. kind[c] = "async" => Output(c) = out[c]
            BY DEF AllTold, Told, Output
        <3> QED
            BY <3>1 DEF IInv, Types, AllTold, Told
    <2>2. Output(c) \in Seq(ByteClass) /\ Prefix(out[c], Output(c))
        <3>1. CASE timedOut[c]
            <4>1. Output(c) = out[c] \o TimeoutText
                BY <3>1 DEF Output
            <4>2. /\ out[c] \o TimeoutText \in Seq(ByteClass)
                  /\ Len(out[c] \o TimeoutText) = Len(out[c]) + Len(TimeoutText)
                  /\ \A i \in 1..Len(out[c]) : (out[c] \o TimeoutText)[i] = out[c][i]
                  /\ Len(out[c]) \in Nat /\ Len(TimeoutText) \in Nat
                BY <2>1, TimeoutTextIs, JoinedAt
            <4> QED
                BY <4>1, <4>2 DEF Prefix
        <3>2. CASE ~timedOut[c]
            BY <2>1, <3>2 DEF Output, Prefix
        <3> QED
            BY <3>1, <3>2
    <2>3. full \in Seq(ByteClass) /\ Framed(full)
        BY <2>2, SanitizedFrames, FramedIs
    <2>4. Utf8(full) \/ \E i \in 1..Len(Output(c)) : Misfit(Output(c), i)
        <3>1. Fits(Output(c)) => Fits(full)
            BY <2>2, SanitizedFrames
        <3> QED
            BY <2>3, <3>1 DEF Fits, Utf8
    <2>5. Framed(out[c]) => IsPrefix(out[c], full)
        <3>1. Framed(out[c]) => Prefix(out[c], full)
            BY <2>1, <2>2, SanitizedKeeps, FramedIs
        <3> QED
            BY <2>1, <2>3, <3>1, PrefixIs
    <2> HIDE DEF full
    <2>6. ASSUME ~cut PROVE result[c] = full
        <3>1. kind[c] = "sync" => Len(full) <= MaxResult
            <4>1. Len(full) \in Nat /\ MaxResult \in Nat
                BY <2>3, TextAssumption
            <4> QED
                BY <2>6, <4>1
        <3> QED
            BY <2>1, <3>1 DEF tool_format_result
    <2>7. ASSUME cut, ~(MarkerLen + Len(TailOf(full)) > MaxResult)
          PROVE  Len(result[c]) <= MaxResult
        <3>1. MarkerLen + Len(TailOf(full)) <= MaxResult
            <4>1. MarkerLen \in Nat /\ MaxResult \in Nat /\ Len(TailOf(full)) \in Nat
                BY <2>3, TailLength, TextAssumption
            <4> QED
                BY <2>7, <4>1
        <3> QED
            BY <2>1, <2>3, <2>7, <3>1, CutLength
    <2>8. Sanitized(Output(c)) = full
        BY DEF full
    <2> QED
        BY <2>3, <2>4, <2>5, <2>6, <2>7, <2>8
<1> QED
    BY <1>1, InitIInv, NextIInv, InitTold, NextTold, PTL DEF Spec
==============================================================================
