---------------------------- MODULE ServerProofs ---------------------------
(* What Server guarantees over any number of starts, ends and crashes, for  *)
(* any threads, key pairs, trades and triggered runs.                       *)
EXTENDS Server, FiniteSetTheorems, WellFoundedInduction, TLAPS

-----------------------------------------------------------------------------
(* Signing keys.  As long as no two requests make key pairs side by side,   *)
(* the key files go through three stages: no pair is there, one request     *)
(* writes one, the pair is kept for good.                                   *)

Locals ==
    [pc : {"idle", "memory", "files", "load", "load_public", "generate", "private",
           "fill_private", "public", "fill_public", "keep", "keep_public", "use",
           "accepted", "refused"},
     token : Pair \cup {None},
     private : Pair \cup {None, Torn}, public : Pair \cup {None, Torn}]

Maker(t) == Signing!MakesPair(t)

\* Nobody has a key before the second file is written, but the one request
\* that writes it.
BeforePair ==
    /\ privateKey = None /\ publicKey = None /\ tokens = {}
    /\ \A t \in Thread :
           /\ thread[t].pc \in {"idle", "memory", "files"} \/ Maker(t)
           /\ thread[t].token = None
           /\ thread[t].pc \in {"private", "fill_private", "public", "fill_public"} =>
                  thread[t].private \in Pair /\ thread[t].public = thread[t].private
           /\ thread[t].pc \in {"public", "fill_public"} => privateFile = thread[t].private
    /\ \A s, t \in Thread : Maker(s) /\ Maker(t) => s = t
    /\ publicFile = Torn <=> \E t \in Thread : thread[t].pc = "fill_public"

\* From then on there is one pair, and everybody's is it.
AfterPair ==
    /\ privateFile = publicFile
    /\ {privateKey, publicKey} \subseteq {publicFile, None}
    /\ tokens \subseteq {publicFile}
    /\ \A t \in Thread :
           /\ ~Maker(t) /\ thread[t].pc # "refused"
           /\ thread[t].token \in {publicFile, None}
           /\ thread[t].pc \in {"load_public", "keep", "keep_public", "use"} =>
                  thread[t].private = publicFile
           /\ thread[t].pc \in {"keep", "keep_public", "use"} => thread[t].public = publicFile

OnePair == ~raced => IF publicFile \in Pair THEN AfterPair ELSE BeforePair

SigningInv == Signing!TypeOK /\ OnePair

LEMMA SigningStarts == ASSUME Signing!Init PROVE SigningInv
  <1>1. \A t \in Thread : thread[t] = Signing!Idle
    BY DEF Signing!Init
  <1>2. Signing!TypeOK
    BY DEF Signing!Init, Signing!Idle, Signing!TypeOK
  <1>3. publicFile \notin Pair /\ BeforePair
    BY <1>1, TornAssumption DEF Signing!Init, Signing!Idle, BeforePair, Maker, Signing!MakesPair
  <1> QED
    BY <1>2, <1>3 DEF SigningInv, OnePair

LEMMA SigningTyped ==
  ASSUME Signing!TypeOK,
         \/ \E t \in Thread : Signing!Arrives(t) \/ Signing!Handle(t)
         \/ \E pair \in Pair : Signing!Expire(pair)
         \/ Signing!End
  PROVE  Signing!TypeOK'
  <1>1. ASSUME NEW t \in Thread, Signing!Arrives(t) PROVE Signing!TypeOK'
    BY <1>1 DEF Signing!Arrives, Signing!Arrive, Signing!TypeOK, Signing!files, Signing!attributes
  <1>2. ASSUME NEW t \in Thread, Signing!Handle(t) PROVE Signing!TypeOK'
    <2>1. CASE Signing!LookInMemory(t)
      <3> DEFINE x == IF privateKey # None /\ publicKey # None
                      THEN [thread[t] EXCEPT !.pc = "use", !.private = privateKey,
                                             !.public = publicKey]
                      ELSE [thread[t] EXCEPT !.pc = "files"]
      <3>1. thread[t] \in Locals
        BY DEF Signing!TypeOK, Locals
      <3>2. x \in Locals
        BY <3>1 DEF Signing!TypeOK, Locals
      <3>3. thread' = [thread EXCEPT ![t] = x]
        BY <2>1 DEF Signing!LookInMemory
      <3> HIDE DEF x
      <3>4. thread' \in [Thread -> Locals]
        BY <3>2, <3>3 DEF Signing!TypeOK, Locals
      <3> QED
        BY <2>1, <3>4 DEF Signing!LookInMemory, Signing!TypeOK, Locals, Signing!files,
           Signing!attributes
    <2>2. CASE Signing!LookForFiles(t)
      BY <2>2 DEF Signing!LookForFiles, Signing!TypeOK, Signing!files, Signing!attributes
    <2>3. CASE Signing!LoadPrivate(t) \/ Signing!LoadPublic(t)
      BY <2>3 DEF Signing!LoadPrivate, Signing!LoadPublic, Signing!TypeOK, Signing!files,
         Signing!attributes
    <2>4. CASE \E pair \in Pair : Signing!Generate(t, pair)
      <3>1. PICK pair \in Pair : Signing!Generate(t, pair)
        BY <2>4
      <3> DEFINE x == [thread[t] EXCEPT !.pc = "private", !.private = pair, !.public = pair]
      <3>2. thread[t] \in Locals
        BY DEF Signing!TypeOK, Locals
      <3>3. x \in Locals
        BY <3>2 DEF Locals
      <3>4. thread' = [thread EXCEPT ![t] = x]
        BY <3>1 DEF Signing!Generate
      <3> HIDE DEF x
      <3>5. thread' \in [Thread -> Locals]
        BY <3>3, <3>4 DEF Signing!TypeOK, Locals
      <3> QED
        BY <3>1, <3>5 DEF Signing!Generate, Signing!TypeOK, Locals, Signing!files,
           Signing!attributes
    <2>5. CASE Signing!WritePrivate(t)
      BY <2>5 DEF Signing!WritePrivate, Signing!TypeOK, Signing!attributes
    <2>6. CASE Signing!WritePublic(t)
      BY <2>6 DEF Signing!WritePublic, Signing!TypeOK, Signing!attributes
    <2>7. CASE Signing!Keep(t)
      BY <2>7 DEF Signing!Keep, Signing!TypeOK, Signing!files
    <2>8. CASE Signing!Sign(t) \/ Signing!Return(t)
      BY <2>8 DEF Signing!Sign, Signing!Return, Signing!Idle, Signing!TypeOK,
         Signing!files, Signing!attributes
    <2>9. CASE Signing!Verify(t)
      <3>1. [Signing!Idle EXCEPT !.pc = IF thread[t].public = thread[t].token
                                        THEN "accepted" ELSE "refused"]
              \in [pc : {"accepted", "refused"}, token : {None}, private : {None}, public : {None}]
        BY DEF Signing!Idle
      <3> QED
        BY <2>9, <3>1 DEF Signing!Verify, Signing!TypeOK, Signing!files, Signing!attributes
    <2> QED
      BY <1>2, <2>1, <2>2, <2>3, <2>4, <2>5, <2>6, <2>7, <2>8, <2>9 DEF Signing!Handle
  <1>3. ASSUME NEW pair \in Pair, Signing!Expire(pair) PROVE Signing!TypeOK'
    BY <1>3 DEF Signing!Expire, Signing!TypeOK, Signing!files, Signing!attributes
  <1>4. ASSUME Signing!End PROVE Signing!TypeOK'
    BY <1>4 DEF Signing!End, Signing!Idle, Signing!TypeOK, Signing!files
  <1> QED
    BY <1>1, <1>2, <1>3, <1>4

\* While no pair is there, only the one that makes it goes on.
LEMMA BeforePairSteps ==
  ASSUME Signing!TypeOK, BeforePair, publicFile \notin Pair, ~raced',
         NEW t \in Thread, Signing!Arrives(t) \/ Signing!Handle(t)
  PROVE  IF publicFile' \in Pair THEN AfterPair' ELSE BeforePair'
  <1> USE TornAssumption DEF BeforePair, AfterPair, Maker, Signing!MakesPair, Signing!files,
          Signing!attributes
  <1>1. CASE Signing!Arrives(t)
    <2>1. PICK token \in Pair \cup {None} : Signing!Arrive(t, token)
      BY <1>1 DEF Signing!Arrives
    <2>2. token = None
      BY <2>1 DEF Signing!Arrive
    <2> QED
      BY <2>1, <2>2 DEF Signing!Arrive, Signing!TypeOK
  <1>2. CASE Signing!LookInMemory(t)
    <2>1. thread' = [thread EXCEPT ![t].pc = "files"]
      BY <1>2 DEF Signing!LookInMemory
    <2> QED
      BY <1>2, <2>1 DEF Signing!LookInMemory, Signing!TypeOK
  <1>3. CASE Signing!LookForFiles(t)
    <2>1. \A s \in Thread : ~Maker(s)
      BY <1>3 DEF Signing!LookForFiles, Signing!TypeOK
    <2>2. publicFile = None
      BY <2>1 DEF Signing!TypeOK
    <2>3. thread' = [thread EXCEPT ![t].pc = "generate"]
      BY <1>3, <2>2 DEF Signing!LookForFiles
    <2> QED
      BY <1>3, <2>1, <2>2, <2>3 DEF Signing!LookForFiles, Signing!TypeOK
  <1>4. ASSUME NEW pair \in Pair, Signing!Generate(t, pair)
        PROVE  publicFile' \notin Pair /\ BeforePair'
    BY <1>4 DEF Signing!Generate, Signing!TypeOK
  <1>5. CASE Signing!WritePrivate(t)
    BY <1>5 DEF Signing!WritePrivate, Signing!TypeOK
  <1>6. CASE Signing!WritePublic(t)
    <2>1. CASE thread[t].pc = "public"
      BY <1>6, <2>1 DEF Signing!WritePublic, Signing!TypeOK
    <2>2. CASE thread[t].pc = "fill_public"
      BY <1>6, <2>2 DEF Signing!WritePublic, Signing!TypeOK
    <2> QED
      BY <1>6, <2>1, <2>2 DEF Signing!WritePublic
  <1>7. ~Signing!LoadPrivate(t) /\ ~Signing!LoadPublic(t) /\ ~Signing!Keep(t)
          /\ ~Signing!Sign(t) /\ ~Signing!Verify(t) /\ ~Signing!Return(t)
    BY DEF Signing!LoadPrivate, Signing!LoadPublic, Signing!Keep, Signing!Sign, Signing!Verify,
       Signing!Return
  <1> QED
    BY <1>1, <1>2, <1>3, <1>4, <1>5, <1>6, <1>7 DEF Signing!Handle

\* Once it is there, nobody makes another.
LEMMA AfterPairSteps ==
  ASSUME Signing!TypeOK, AfterPair, publicFile \in Pair,
         NEW t \in Thread, Signing!Arrives(t) \/ Signing!Handle(t)
  PROVE  publicFile' \in Pair /\ AfterPair'
  <1> USE TornAssumption DEF AfterPair, Maker, Signing!MakesPair, Signing!files,
          Signing!attributes
  <1>1. CASE Signing!Arrives(t)
    <2>1. PICK token \in Pair \cup {None} : Signing!Arrive(t, token)
      BY <1>1 DEF Signing!Arrives
    <2>2. token \in {publicFile, None}
      BY <2>1 DEF Signing!Arrive
    <2> QED
      BY <2>1, <2>2 DEF Signing!Arrive, Signing!TypeOK
  <1>2. CASE Signing!LookInMemory(t)
    <2>1. CASE privateKey # None /\ publicKey # None
      BY <1>2, <2>1 DEF Signing!LookInMemory, Signing!TypeOK
    <2>2. CASE ~(privateKey # None /\ publicKey # None)
      BY <1>2, <2>2 DEF Signing!LookInMemory, Signing!TypeOK
    <2> QED
      BY <2>1, <2>2
  <1>3. CASE Signing!LookForFiles(t)
    <2>1. thread' = [thread EXCEPT ![t].pc = "load"]
      BY <1>3 DEF Signing!LookForFiles
    <2> QED
      BY <1>3, <2>1 DEF Signing!LookForFiles, Signing!TypeOK
  <1>4. CASE Signing!LoadPrivate(t)
    BY <1>4 DEF Signing!LoadPrivate, Signing!TypeOK
  <1>5. CASE Signing!LoadPublic(t)
    BY <1>5 DEF Signing!LoadPublic, Signing!TypeOK
  <1>6. CASE Signing!Keep(t)
    <2>1. CASE thread[t].pc = "keep"
      BY <1>6, <2>1 DEF Signing!Keep, Signing!TypeOK
    <2>2. CASE thread[t].pc = "keep_public"
      BY <1>6, <2>2 DEF Signing!Keep, Signing!TypeOK
    <2> QED
      BY <1>6, <2>1, <2>2 DEF Signing!Keep
  <1>7. CASE Signing!Sign(t)
    BY <1>7 DEF Signing!Sign, Signing!Idle, Signing!TypeOK
  <1>8. CASE Signing!Verify(t)
    <2>1. thread' = [thread EXCEPT ![t] = [Signing!Idle EXCEPT !.pc = "accepted"]]
      BY <1>8 DEF Signing!Verify
    <2> QED
      BY <1>8, <2>1 DEF Signing!Verify, Signing!Idle, Signing!TypeOK
  <1>9. CASE Signing!Return(t)
    BY <1>9 DEF Signing!Return, Signing!Idle, Signing!TypeOK
  <1>10. /\ \A pair \in Pair : ~Signing!Generate(t, pair)
         /\ ~Signing!WritePrivate(t) /\ ~Signing!WritePublic(t)
    BY DEF Signing!Generate, Signing!WritePrivate, Signing!WritePublic
  <1> QED
    BY <1>1, <1>2, <1>3, <1>4, <1>5, <1>6, <1>7, <1>8, <1>9, <1>10 DEF Signing!Handle

LEMMA SigningSteps ==
  ASSUME SigningInv,
         \/ \E t \in Thread : Signing!Arrives(t) \/ Signing!Handle(t)
         \/ \E pair \in Pair : Signing!Expire(pair)
         \/ Signing!End
  PROVE  SigningInv'
  <1>1. Signing!TypeOK'
    BY SigningTyped DEF SigningInv
  <1>2. ASSUME NEW t \in Thread, Signing!Arrives(t) \/ Signing!Handle(t) PROVE OnePair'
    <2>1. raced => raced'
      <3>1. CASE Signing!LookForFiles(t)
        BY <3>1 DEF Signing!LookForFiles
      <3>2. CASE ~Signing!LookForFiles(t)
        <4>1. UNCHANGED raced
          BY <1>2, <3>2, Zenon DEF Signing!Arrives, Signing!Arrive, Signing!Handle,
             Signing!LookInMemory, Signing!LoadPrivate, Signing!LoadPublic, Signing!Generate,
             Signing!WritePrivate, Signing!WritePublic, Signing!Keep, Signing!Sign,
             Signing!Verify, Signing!Return
        <4> QED
          BY <4>1
      <3> QED
        BY <3>1, <3>2
    <2>2. ASSUME ~raced' PROVE IF publicFile' \in Pair THEN AfterPair' ELSE BeforePair'
      <3>1. IF publicFile \in Pair THEN AfterPair ELSE BeforePair
        BY <2>1, <2>2 DEF SigningInv, OnePair
      <3>2. CASE publicFile \in Pair
        BY <1>2, <3>1, <3>2, AfterPairSteps DEF SigningInv
      <3>3. CASE publicFile \notin Pair
        BY <1>2, <2>2, <3>1, <3>3, BeforePairSteps DEF SigningInv
      <3> QED
        BY <3>2, <3>3
    <2> QED
      BY <2>2 DEF OnePair
  <1>3. ASSUME NEW pair \in Pair, Signing!Expire(pair) PROVE OnePair'
    BY <1>3 DEF Signing!Expire, Signing!files, Signing!attributes, SigningInv, OnePair,
       BeforePair, AfterPair, Maker, Signing!MakesPair
  <1>4. ASSUME Signing!End PROVE OnePair'
    <2>1. \A t \in Thread : thread'[t] = Signing!Idle
      BY <1>4 DEF Signing!End
    <2>2. CASE publicFile \in Pair /\ ~raced
      BY <1>4, <2>1, <2>2 DEF Signing!End, Signing!Idle, Signing!files, SigningInv, OnePair,
         AfterPair, Maker, Signing!MakesPair
    <2>3. CASE publicFile \notin Pair /\ ~raced'
      BY <1>4, <2>1, <2>3, TornAssumption DEF Signing!End, Signing!Idle, Signing!files,
         SigningInv, OnePair, BeforePair, Maker, Signing!MakesPair
    <2> QED
      BY <1>4, <2>2, <2>3 DEF Signing!End, Signing!files, OnePair
  <1> QED
    BY <1>1, <1>2, <1>3, <1>4 DEF SigningInv

-----------------------------------------------------------------------------
(* Sequences and numbers.                                                  *)

\* Sequences without repetitions.
Injective(s, S) == s \in Seq(S) /\ Scheduler!IsInjective(s)

LEMMA Elements ==
  ASSUME NEW S, NEW s \in Seq(S)
  PROVE  /\ \A j \in 1 .. Len(s) : s[j] \in Scheduler!ToSet(s)
         /\ \A x \in Scheduler!ToSet(s) : x \in S /\ \E j \in 1 .. Len(s) : s[j] = x
  BY DEF Scheduler!ToSet

LEMMA Distinct ==
  ASSUME NEW S, NEW s \in Seq(S)
  PROVE  Injective(s, S) <=> \A i, j \in 1 .. Len(s) : s[i] = s[j] => i = j
  BY DEF Scheduler!IsInjective, Injective

\* One appended.
LEMMA Appended ==
  ASSUME NEW S, NEW s, Injective(s, S), NEW x \in S, x \notin Scheduler!ToSet(s)
  PROVE  /\ Injective(Append(s, x), S)
         /\ Scheduler!ToSet(Append(s, x)) = Scheduler!ToSet(s) \cup {x}
  <1> DEFINE a == Append(s, x)
  <1>1. s \in Seq(S) /\ Len(s) \in Nat
    BY DEF Injective
  <1>2. /\ a \in Seq(S) /\ Len(a) = Len(s) + 1
        /\ \A j \in 1 .. Len(s) : j \in 1 .. Len(a) /\ a[j] = s[j]
        /\ Len(a) \in 1 .. Len(a) /\ a[Len(a)] = x
        /\ \A j \in 1 .. Len(a) : j \in 1 .. Len(s) \/ j = Len(a)
    BY <1>1
  <1> HIDE DEF a
  <1>3. Scheduler!ToSet(a) = Scheduler!ToSet(s) \cup {x}
    <2>1. ASSUME NEW y \in Scheduler!ToSet(a) PROVE y \in Scheduler!ToSet(s) \cup {x}
      BY <1>1, <1>2, Elements
    <2>2. ASSUME NEW y \in Scheduler!ToSet(s) PROVE y \in Scheduler!ToSet(a)
      BY <1>1, <1>2, Elements
    <2> QED
      BY <1>2, <2>1, <2>2, Elements
  <1>4. Injective(a, S)
    <2>1. ASSUME NEW i \in 1 .. Len(a), NEW j \in 1 .. Len(a), a[i] = a[j] PROVE i = j
      <3>1. \A l \in 1 .. Len(s) : s[l] # x
        BY <1>1, Elements
      <3> QED
        BY <1>1, <1>2, <2>1, <3>1, Distinct
    <2> QED
      BY <1>2, <2>1, Distinct
  <1> QED
    BY <1>3, <1>4 DEF a

\* The first and the others.
LEMMA HeadAndTail ==
  ASSUME NEW S, NEW s, Injective(s, S), s # <<>>
  PROVE  /\ Injective(Tail(s), S)
         /\ Head(s) \in Scheduler!ToSet(s)
         /\ Scheduler!ToSet(Tail(s)) = Scheduler!ToSet(s) \ {Head(s)}
  <1> DEFINE a == Tail(s)
  <1>1. s \in Seq(S) /\ Len(s) \in Nat /\ Len(s) > 0 /\ 1 \in 1 .. Len(s) /\ Head(s) = s[1]
    BY DEF Injective
  <1>2. /\ a \in Seq(S) /\ Len(a) = Len(s) - 1
        /\ \A j \in 1 .. Len(a) : j + 1 \in 1 .. Len(s) /\ a[j] = s[j + 1]
    BY <1>1
  <1> HIDE DEF a
  <1>3. Injective(a, S)
    <2>1. ASSUME NEW i \in 1 .. Len(a), NEW j \in 1 .. Len(a), a[i] = a[j] PROVE i = j
      <3>1. i + 1 \in 1 .. Len(s) /\ j + 1 \in 1 .. Len(s) /\ s[i + 1] = s[j + 1]
        BY <1>2, <2>1
      <3>2. i + 1 = j + 1
        BY <1>1, <3>1, Distinct
      <3> QED
        BY <1>1, <1>2, <3>2
    <2> QED
      BY <1>2, <2>1, Distinct
  <1>4. ASSUME NEW y \in Scheduler!ToSet(a) PROVE y \in Scheduler!ToSet(s) \ {s[1]}
    <2>1. PICK j \in 1 .. Len(a) : a[j] = y
      BY <1>2, Elements
    <2>2. j + 1 \in 1 .. Len(s) /\ s[j + 1] = y /\ j + 1 # 1
      BY <1>1, <1>2, <2>1
    <2> QED
      BY <1>1, <2>2, Elements, Distinct
  <1>5. ASSUME NEW y \in Scheduler!ToSet(s), y # s[1] PROVE y \in Scheduler!ToSet(a)
    <2>1. PICK j \in 1 .. Len(s) : s[j] = y
      BY <1>1, Elements
    <2>2. j - 1 \in 1 .. Len(a) /\ (j - 1) + 1 = j
      BY <1>1, <1>2, <1>5, <2>1
    <2>3. a[j - 1] = y
      BY <1>2, <2>1, <2>2
    <2> QED
      BY <1>2, <2>2, <2>3, Elements
  <1> QED
    BY <1>1, <1>3, <1>4, <1>5, Elements DEF a

LEMMA Joined ==
  ASSUME NEW S, NEW s, Injective(s, S), NEW t, Injective(t, S),
         Scheduler!ToSet(s) \cap Scheduler!ToSet(t) = {}
  PROVE  /\ Injective(s \o t, S)
         /\ Scheduler!ToSet(s \o t) = Scheduler!ToSet(s) \cup Scheduler!ToSet(t)
  <1> DEFINE a == s \o t
  <1>1. s \in Seq(S) /\ t \in Seq(S) /\ Len(s) \in Nat /\ Len(t) \in Nat
    BY DEF Injective
  <1>2. /\ a \in Seq(S) /\ Len(a) = Len(s) + Len(t)
        /\ \A j \in 1 .. Len(s) : a[j] = s[j]
        /\ \A j \in Len(s) + 1 .. Len(s) + Len(t) : a[j] = t[j - Len(s)]
    BY <1>1
  <1> HIDE DEF a
  <1>3. ASSUME NEW j \in 1 .. Len(a), j \notin 1 .. Len(s)
        PROVE  j - Len(s) \in 1 .. Len(t) /\ a[j] = t[j - Len(s)]
    BY <1>1, <1>2, <1>3
  <1>4. ASSUME NEW j \in 1 .. Len(t) PROVE Len(s) + j \in 1 .. Len(a) /\ a[Len(s) + j] = t[j]
    <2>1. Len(s) + j \in Len(s) + 1 .. Len(s) + Len(t) /\ (Len(s) + j) - Len(s) = j
      BY <1>1
    <2> QED
      BY <1>1, <1>2, <2>1, SMTT(30)
  <1>5. 1 .. Len(s) \subseteq 1 .. Len(a)
    BY <1>1, <1>2
  <1>6. ASSUME NEW y \in Scheduler!ToSet(a) PROVE y \in Scheduler!ToSet(s) \cup Scheduler!ToSet(t)
    <2>1. PICK j \in 1 .. Len(a) : a[j] = y
      BY <1>2, Elements
    <2> QED
      BY <1>1, <1>2, <1>3, <2>1, Elements
  <1>7. ASSUME NEW y \in Scheduler!ToSet(s) PROVE y \in Scheduler!ToSet(a)
    BY <1>1, <1>2, <1>5, Elements
  <1>8. ASSUME NEW y \in Scheduler!ToSet(t) PROVE y \in Scheduler!ToSet(a)
    <2>1. PICK j \in 1 .. Len(t) : t[j] = y
      BY <1>1, Elements
    <2> QED
      BY <1>2, <1>4, <2>1, Elements
  <1>9. \A i \in 1 .. Len(s) : \A j \in 1 .. Len(t) : s[i] # t[j]
    <2>1. /\ \A i \in 1 .. Len(s) : s[i] \in Scheduler!ToSet(s)
          /\ \A j \in 1 .. Len(t) : t[j] \in Scheduler!ToSet(t)
      BY <1>1, Elements
    <2> QED
      BY <2>1
  <1>10. ASSUME NEW i \in 1 .. Len(a), NEW j \in 1 .. Len(a), a[i] = a[j] PROVE i = j
    <2>1. CASE i \in 1 .. Len(s) /\ j \in 1 .. Len(s)
      BY <1>1, <1>2, <1>10, <2>1, Distinct
    <2>2. CASE i \notin 1 .. Len(s) /\ j \notin 1 .. Len(s)
      <3>1. /\ i - Len(s) \in 1 .. Len(t) /\ j - Len(s) \in 1 .. Len(t)
            /\ t[i - Len(s)] = t[j - Len(s)]
        BY <1>3, <1>10, <2>2
      <3>2. i - Len(s) = j - Len(s)
        BY <1>1, <3>1, Distinct
      <3> QED
        BY <1>1, <1>2, <3>2
    <2>3. CASE i \in 1 .. Len(s) /\ j \notin 1 .. Len(s)
      BY <1>2, <1>3, <1>9, <1>10, <2>3
    <2>4. CASE i \notin 1 .. Len(s) /\ j \in 1 .. Len(s)
      BY <1>2, <1>3, <1>9, <1>10, <2>4
    <2> QED
      BY <2>1, <2>2, <2>3, <2>4
  <1> QED
    BY <1>2, <1>6, <1>7, <1>8, <1>10, Distinct DEF a

\* One taken out.
LEMMA RemovedAt ==
  ASSUME NEW S, NEW s, Injective(s, S), NEW i \in DOMAIN s
  PROVE  /\ Injective(Scheduler!RemoveAt(s, i), S)
         /\ Scheduler!ToSet(Scheduler!RemoveAt(s, i)) = Scheduler!ToSet(s) \ {s[i]}
  <1> DEFINE a == SubSeq(s, 1, i - 1)
             b == SubSeq(s, i + 1, Len(s))
  <1>1. s \in Seq(S) /\ i \in 1 .. Len(s) /\ Len(s) \in Nat
    BY DEF Injective
  <1>2. a \in Seq(S) /\ Len(a) = i - 1 /\ \A j \in 1 .. i - 1 : j \in 1 .. Len(s) /\ a[j] = s[j]
    BY <1>1
  <1>3. /\ b \in Seq(S) /\ Len(b) = Len(s) - i
        /\ \A j \in 1 .. Len(s) - i : i + j \in 1 .. Len(s) /\ b[j] = s[i + j]
    BY <1>1
  <1>4. Scheduler!RemoveAt(s, i) = a \o b
    BY DEF Scheduler!RemoveAt
  <1> HIDE DEF a, b
  <1>5. Injective(a, S)
    BY <1>1, <1>2, Distinct
  <1>6. Injective(b, S)
    <2>1. ASSUME NEW j \in 1 .. Len(b), NEW l \in 1 .. Len(b), b[j] = b[l] PROVE j = l
      <3>1. i + j = i + l
        BY <1>1, <1>3, <2>1, Distinct, ZenonT(30)
      <3> QED
        BY <1>1, <1>3, <3>1
    <2> QED
      BY <1>3, <2>1, Distinct
  <1>7. ASSUME NEW x \in Scheduler!ToSet(a)
        PROVE  x \in Scheduler!ToSet(s) /\ x # s[i] /\ x \notin Scheduler!ToSet(b)
    <2>1. PICK j \in 1 .. i - 1 : s[j] = x /\ j \in 1 .. Len(s)
      BY <1>2, Elements
    <2>2. j # i /\ \A l \in 1 .. Len(s) - i : j # i + l
      BY <1>1, <2>1
    <2>3. ASSUME NEW l \in 1 .. Len(b) PROVE b[l] # x
      <3>1. l \in 1 .. Len(s) - i /\ i + l \in 1 .. Len(s) /\ b[l] = s[i + l]
        BY <1>3
      <3>2. s[i + l] # s[j]
        BY <1>1, <2>1, <2>2, <3>1, Distinct
      <3> QED
        BY <2>1, <3>1, <3>2
    <2> QED
      BY <1>1, <1>3, <2>1, <2>2, <2>3, Elements, Distinct
  <1>8. ASSUME NEW x \in Scheduler!ToSet(b) PROVE x \in Scheduler!ToSet(s) /\ x # s[i]
    <2>1. PICK j \in 1 .. Len(s) - i : s[i + j] = x /\ i + j \in 1 .. Len(s)
      BY <1>3, Elements, ZenonT(30)
    <2>2. i + j # i
      BY <1>1, <2>1
    <2> QED
      BY <1>1, <2>1, <2>2, Elements, Distinct
  <1>9. ASSUME NEW x \in Scheduler!ToSet(s), x # s[i]
        PROVE  x \in Scheduler!ToSet(a) \cup Scheduler!ToSet(b)
    <2>1. PICK j \in 1 .. Len(s) : s[j] = x
      BY <1>1, Elements
    <2>2. CASE j < i
      BY <1>1, <1>2, <2>1, <2>2, Elements
    <2>3. CASE j > i
      <3>1. j - i \in 1 .. Len(s) - i /\ i + (j - i) = j
        BY <1>1, <2>1, <2>3
      <3>2. b[j - i] = x
        BY <1>3, <2>1, <3>1
      <3> QED
        BY <1>3, <3>1, <3>2, Elements
    <2> QED
      BY <1>1, <1>9, <2>1, <2>2, <2>3
  <1>10. Scheduler!ToSet(a) \cap Scheduler!ToSet(b) = {}
    BY <1>7
  <1> QED
    BY <1>4, <1>5, <1>6, <1>7, <1>8, <1>9, <1>10, Joined


\* One alone, and none.
LEMMA Alone ==
  ASSUME NEW S, NEW x \in S
  PROVE  Injective(<<x>>, S) /\ Scheduler!ToSet(<<x>>) = {x}
  <1> DEFINE a == <<x>>
  <1>1. a \in Seq(S) /\ 1 .. Len(a) = {1} /\ a[1] = x
    OBVIOUS
  <1> HIDE DEF a
  <1>2. Injective(a, S) /\ Scheduler!ToSet(a) = {x}
    BY <1>1, Distinct, Elements
  <1> QED
    BY <1>2 DEF a

LEMMA Nothing ==
  ASSUME NEW S
  PROVE  Injective(<<>>, S) /\ Scheduler!ToSet(<<>>) = {}
  <1> DEFINE a == <<>>
  <1>1. a \in Seq(S) /\ 1 .. Len(a) = {}
    OBVIOUS
  <1> HIDE DEF a
  <1>2. Injective(a, S) /\ Scheduler!ToSet(a) = {}
    BY <1>1, Distinct, Elements
  <1> QED
    BY <1>2 DEF a

\* Any set of numbers has a least one.
LEMMA HasLeast ==
  ASSUME NEW S, S \subseteq Nat, S # {}
  PROVE  \E m \in S : \A n \in S : m <= n
  <1> DEFINE less == {ss \in Nat \X Nat : ss[1] < ss[2]}
  <1>1. IsWellFoundedOn(less, Nat)
    BY NatLessThanWellFounded DEF OpToRel
  <1> HIDE DEF less
  <1>2. PICK m \in S : \A n \in S : ~(<<n, m>> \in less)
    BY <1>1, WFMin, Zenon
  <1>3. ASSUME NEW n \in S PROVE m <= n
    <2>1. <<n, m>> \notin less /\ n \in Nat /\ m \in Nat
      BY <1>2
    <2>2. ~(n < m)
      BY <2>1 DEF less
    <2> QED
      BY <2>1, <2>2
  <1> QED
    BY <1>3

-----------------------------------------------------------------------------
(* The scheduler.                                                          *)

Stopped == stop.pc \in {"waits", "over", "raised"}

Kinds ==
    [what : {"step", "pop"}, task : Scheduler!Task] \cup {Scheduler!Shutdown, Scheduler!Resume}

Pending == Scheduler!ToSet(ready)

\* Why a callback is there: its task has something to do; it has ended; stop
\* has not begun; the task it awaits has ended.
InLoop ==
    /\ \A k \in Scheduler!Task : Scheduler!Step(k) \in Pending =>
           \/ task[k] \in {"created", "ran", "failed", "woken"}
           \/ k \in cancelled /\ task[k] \in {"thread", "sleep"}
    /\ \A k \in Scheduler!Task : Scheduler!Pop(k) \in Pending => task[k] = "done"
    /\ Scheduler!Shutdown \in Pending => stop.pc = "requested"
    /\ Scheduler!Resume \in Pending =>
           stop.awaits \in Scheduler!Task /\ task[stop.awaits] \in {"none", "done"}

\* Before stop, a task that may still run the job is in the table.
InTable ==
    /\ cancelled = {}
    /\ \A k \in Scheduler!Task : task[k] \notin {"none", "done"} => k \in Scheduler!ToSet(table)

\* After it, such a task is cancelled.
AllCancelled ==
    \A k \in Scheduler!Task : task[k] \notin {"none", "done"} => k \in cancelled

NoTasks == cancelled = {} /\ ready = <<>> /\ \A k \in Scheduler!Task : task[k] = "none"

SchedulerInv ==
    /\ Scheduler!TypeOK
    /\ InLoop
    /\ \A k \in Scheduler!ToSet(table) : task[k] # "none"
    /\ stop.awaits # None => stop.pc = "waits"
    /\ stop.pc = "down" => NoTasks
    /\ stop.pc \in {"no", "requested"} => InTable
    /\ Stopped => AllCancelled

LEMMA CallbacksDiffer ==
  /\ \A k \in Scheduler!Task : Scheduler!Step(k) \in Kinds /\ Scheduler!Pop(k) \in Kinds
  /\ Scheduler!Shutdown \in Kinds /\ Scheduler!Resume \in Kinds /\ Scheduler!Shutdown # Scheduler!Resume
  /\ \A k, l : /\ Scheduler!Step(k) = Scheduler!Step(l) => k = l
               /\ Scheduler!Pop(k) = Scheduler!Pop(l) => k = l
               /\ Scheduler!Step(k) # Scheduler!Pop(l)
               /\ Scheduler!Step(k) \notin {Scheduler!Shutdown, Scheduler!Resume}
               /\ Scheduler!Pop(k) \notin {Scheduler!Shutdown, Scheduler!Resume}
  BY DEF Kinds, Scheduler!Step, Scheduler!Pop, Scheduler!Shutdown, Scheduler!Resume

\* What TypeOK says, by its parts.
LEMMA TypedParts ==
  Scheduler!TypeOK <=>
    /\ enabled \in BOOLEAN /\ cancelled \subseteq Scheduler!Task /\ running \subseteq Scheduler!Task
    /\ task \in [Scheduler!Task -> Scheduler!Waits]
    /\ Injective(table, Scheduler!Task) /\ Injective(ready, Kinds)
    /\ stop \in [pc : {"down", "no", "requested", "waits", "over", "raised"},
                 awaits : Scheduler!Task \cup {None}, at : Nat, size : Nat]
  BY DEF Scheduler!TypeOK, Injective, Kinds

LEMMA SchedulerStarts == ASSUME Scheduler!Init PROVE SchedulerInv
  <1>1. Injective(table, Scheduler!Task) /\ Injective(ready, Kinds) /\ Pending = {}
        /\ Scheduler!ToSet(table) = {}
    BY Nothing DEF Scheduler!Init, Pending
  <1>2. Scheduler!TypeOK
    BY <1>1, TypedParts DEF Scheduler!Init, Scheduler!NotStopped, Scheduler!Waits
  <1> QED
    BY <1>1, <1>2 DEF Scheduler!Init, Scheduler!NotStopped, SchedulerInv, InLoop, NoTasks, Stopped

\* stop awaits a task of the table that has not ended, or is over.
LEMMA Awaits ==
  ASSUME Injective(table, Scheduler!Task), NEW n \in Nat \ {0}, Scheduler!AwaitFrom(n)
  PROVE  /\ stop' \in [pc : {"waits", "over"}, awaits : Scheduler!Task \cup {None}, at : Nat, size : Nat]
         /\ stop'.awaits # None => stop'.pc = "waits"
         /\ Injective(table', Scheduler!Task)
         /\ Scheduler!ToSet(table') \subseteq Scheduler!ToSet(table)
  <1> DEFINE open == {i \in n .. Len(table) : task[table[i]] # "done"}
             at == CHOOSE i \in open : \A j \in open : i <= j
  <1>1. table \in Seq(Scheduler!Task) /\ Len(table) \in Nat
    BY DEF Injective
  <1>2. CASE open # {}
    <2>1. /\ stop' = [pc |-> "waits", awaits |-> table[at], at |-> at, size |-> Len(table)]
          /\ UNCHANGED table
      BY <1>2, Zenon DEF Scheduler!AwaitFrom
    <2>2. open \subseteq Nat
      BY <1>1
    <2>3. at \in open
      <3> HIDE DEF open
      <3> QED
        BY <1>2, <2>2, HasLeast
    <2>4. at \in 1 .. Len(table) /\ at \in Nat
      BY <1>1, <2>3
    <2> HIDE DEF at
    <2>5. table[at] \in Scheduler!Task
      BY <1>1, <2>4
    <2> QED
      BY <1>1, <2>1, <2>4, <2>5
  <1>3. CASE open = {}
    <2>1. stop' = [Scheduler!NotStopped EXCEPT !.pc = "over"] /\ table' = <<>>
      BY <1>3, Zenon DEF Scheduler!AwaitFrom
    <2> QED
      BY <2>1, Nothing DEF Scheduler!NotStopped
  <1> QED
    BY <1>2, <1>3

\* The steps that stop makes ready: one of each task that waits.
LEMMA MadeReady ==
  ASSUME Injective(table, Scheduler!Task), NEW places \in Scheduler!Waiting
  PROVE  LET made == [a \in DOMAIN places |-> Scheduler!Step(table[places[a]])]
         IN  /\ Injective(made, Kinds)
             /\ \A x \in Scheduler!ToSet(made) : \E k \in Scheduler!ToSet(table) :
                    x = Scheduler!Step(k) /\ task[k] \in {"thread", "sleep"}
  <1> DEFINE waiting == {i \in DOMAIN table : task[table[i]] \in {"thread", "sleep"}}
             made == [a \in DOMAIN places |-> Scheduler!Step(table[places[a]])]
  <1>1. table \in Seq(Scheduler!Task) /\ Len(table) \in Nat /\ DOMAIN table = 1 .. Len(table)
    BY DEF Injective
  <1>2. Cardinality(waiting) \in Nat
    <2>1. IsFiniteSet(1 .. Len(table)) /\ waiting \in SUBSET (1 .. Len(table))
      BY <1>1, FS_Interval
    <2> HIDE DEF waiting
    <2> QED
      BY <2>1, FS_Subset, FS_CardinalityType
  <1>3. /\ places \in [1 .. Cardinality(waiting) -> waiting]
        /\ \A i, j \in 1 .. Cardinality(waiting) : i # j => places[i] # places[j]
    <2>1. Scheduler!Cardinality(waiting) = Cardinality(waiting)
      BY DEF Scheduler!Cardinality, Cardinality
    <2>2. places \in Scheduler!SetToSeqs(waiting)
      BY DEF Scheduler!Waiting
    <2> HIDE DEF waiting
    <2> QED
      BY <2>1, <2>2 DEF Scheduler!SetToSeqs
  <1> DEFINE n == Cardinality(waiting)
  <1> HIDE DEF n
  <1>4. n \in Nat /\ places \in [1 .. n -> waiting] /\ \A i, j \in 1 .. n : i # j => places[i] # places[j]
    BY <1>2, <1>3 DEF n
  <1>5. \A a \in 1 .. n : /\ places[a] \in 1 .. Len(table) /\ table[places[a]] \in Scheduler!ToSet(table)
                          /\ task[table[places[a]]] \in {"thread", "sleep"}
                          /\ table[places[a]] \in Scheduler!Task
    BY <1>1, <1>4, Elements
  <1>6. /\ DOMAIN made = 1 .. n
        /\ \A a \in 1 .. n : made[a] = Scheduler!Step(table[places[a]]) /\ made[a] \in Kinds
    BY <1>4, <1>5, CallbacksDiffer
  <1> HIDE DEF waiting
  <1>7. made \in Seq(Kinds) /\ Len(made) = n
    <2>1. made \in [1 .. n -> Kinds]
      BY <1>4, <1>6
    <2> HIDE DEF made
    <2> QED
      BY <1>4, <2>1
  <1> HIDE DEF made
  <1>8. Injective(made, Kinds)
    <2>1. ASSUME NEW a \in 1 .. n, NEW b \in 1 .. n, made[a] = made[b] PROVE a = b
      <3>1. table[places[a]] = table[places[b]]
        BY <1>6, <2>1, CallbacksDiffer
      <3>2. places[a] = places[b]
        BY <1>1, <1>5, <3>1, Distinct
      <3> QED
        BY <1>4, <3>2
    <2> QED
      BY <1>7, <2>1, Distinct
  <1>9. ASSUME NEW x \in Scheduler!ToSet(made)
        PROVE  \E k \in Scheduler!ToSet(table) :
                   x = Scheduler!Step(k) /\ task[k] \in {"thread", "sleep"}
    <2>1. PICK a \in 1 .. n : made[a] = x
      BY <1>7, Elements
    <2> QED
      BY <1>5, <1>6, <2>1
  <1> QED
    BY <1>8, <1>9 DEF made

\* A step of a task.  Once stop has cancelled the tasks none begins a run.
LEMMA TaskSteps ==
  ASSUME SchedulerInv, NEW k \in Scheduler!Task, Scheduler!TaskSteps(k)
  PROVE  SchedulerInv' /\ (Stopped => running' = running)
  <1>1. /\ ready # <<>> /\ Head(ready) = Scheduler!Step(k) /\ Scheduler!Steps(k)
        /\ UNCHANGED <<enabled, cancelled, table, stop>>
    BY DEF Scheduler!TaskSteps, Scheduler!IsNext
  <1>2. stop.pc # "down"
    BY <1>1 DEF SchedulerInv, NoTasks
  <1>3. PICK where \in {"thread", "sleep", "done"} :
            /\ task' = [task EXCEPT ![k] = where]
            /\ where = "thread" => k \notin cancelled /\ running' = running \cup {k}
            /\ where = "sleep" => k \notin cancelled
            /\ where # "thread" => running' = running
            /\ ready' = IF where = "done" THEN Tail(ready) \o Scheduler!Callbacks(k) ELSE Tail(ready)
    BY <1>1 DEF Scheduler!Steps, Scheduler!Ends, Scheduler!BeginsRun, Scheduler!GoesToSleep
  <1>4. /\ task' \in [Scheduler!Task -> Scheduler!Waits]
        /\ task'[k] = where /\ \A l \in Scheduler!Task \ {k} : task'[l] = task[l]
    BY <1>3, TypedParts DEF SchedulerInv, Scheduler!Waits
  <1>5. /\ Injective(Tail(ready), Kinds) /\ Scheduler!Step(k) \in Pending
        /\ Scheduler!ToSet(Tail(ready)) = Pending \ {Scheduler!Step(k)}
    BY <1>1, TypedParts, HeadAndTail DEF SchedulerInv, Pending
  <1>6. task[k] \notin {"none", "done"}
    BY <1>5 DEF SchedulerInv, InLoop
  <1>7. PICK new : /\ Injective(ready', Kinds)
                   /\ Pending' = (Pending \ {Scheduler!Step(k)}) \cup new
                   /\ new \subseteq {Scheduler!Pop(k), Scheduler!Resume}
                   /\ new # {} => where = "done"
                   /\ Scheduler!Resume \in new => stop.awaits = k
    <2>1. CASE where = "done"
      <3> DEFINE pop == IF k \in Triggered THEN <<Scheduler!Pop(k)>> ELSE <<>>
                 resume == IF stop.awaits = k THEN <<Scheduler!Resume>> ELSE <<>>
      <3>1. /\ Injective(pop, Kinds) /\ Injective(resume, Kinds)
            /\ Scheduler!ToSet(pop) \subseteq {Scheduler!Pop(k)}
            /\ Scheduler!ToSet(resume) \subseteq {Scheduler!Resume}
            /\ Scheduler!Resume \in Scheduler!ToSet(resume) => stop.awaits = k
        BY CallbacksDiffer, Alone, Nothing
      <3>2. Scheduler!Callbacks(k) = pop \o resume
        BY DEF Scheduler!Callbacks
      <3> HIDE DEF pop, resume
      <3>3. /\ Injective(pop \o resume, Kinds)
            /\ Scheduler!ToSet(pop \o resume) = Scheduler!ToSet(pop) \cup Scheduler!ToSet(resume)
        BY <3>1, CallbacksDiffer, Joined
      <3>4. Scheduler!Pop(k) \notin Pending /\ (stop.awaits = k => Scheduler!Resume \notin Pending)
        BY <1>6 DEF SchedulerInv, InLoop
      <3>5. Scheduler!ToSet(Tail(ready)) \cap Scheduler!ToSet(pop \o resume) = {}
        BY <1>5, <3>1, <3>3, <3>4
      <3>6. ready' = Tail(ready) \o (pop \o resume)
        BY <1>3, <2>1, <3>2
      <3>7. /\ Injective(ready', Kinds)
            /\ Scheduler!ToSet(ready') = Scheduler!ToSet(Tail(ready)) \cup Scheduler!ToSet(pop \o resume)
        BY <1>5, <3>3, <3>5, <3>6, Joined
      <3> WITNESS Scheduler!ToSet(pop \o resume)
      <3> QED
        BY <1>5, <2>1, <3>1, <3>3, <3>7, CallbacksDiffer DEF Pending
    <2>2. CASE where # "done"
      <3> DEFINE new == {}
      <3>1. /\ Injective(ready', Kinds)
            /\ Pending' = (Pending \ {Scheduler!Step(k)}) \cup new
            /\ new = {}
        BY <1>3, <1>5, <2>2 DEF Pending
      <3> HIDE DEF new
      <3> QED
        BY <3>1
    <2> QED
      BY <2>1, <2>2
  <1>8. Scheduler!TypeOK'
    <2>1. running' \subseteq Scheduler!Task
      BY <1>3, TypedParts DEF SchedulerInv
    <2> QED
      BY <1>1, <1>4, <1>7, <2>1 DEF SchedulerInv, Scheduler!TypeOK, Injective, Kinds
  <1>9. InLoop'
    BY <1>1, <1>4, <1>6, <1>7, CallbacksDiffer DEF SchedulerInv, InLoop
  <1>10. \A l \in Scheduler!ToSet(table)' : task'[l] # "none"
    BY <1>1, <1>4, TypedParts, Elements DEF SchedulerInv, Injective
  <1>11. CASE Stopped
    <2>1. task[k] \notin {"none", "done"} => k \in cancelled
      BY <1>11 DEF SchedulerInv, AllCancelled
    <2>2. where = "done"
      BY <1>3, <1>6, <2>1
    <2> QED
      BY <1>1, <1>3, <1>4, <1>8, <1>9, <1>10, <1>11, <2>2 DEF SchedulerInv, AllCancelled, Stopped
  <1>12. CASE ~Stopped
    <2>1. InTable
      BY <1>2, <1>12, TypedParts DEF SchedulerInv, Stopped
    <2>2. InTable'
      BY <1>1, <1>4, <1>6, <2>1 DEF InTable
    <2> QED
      BY <1>1, <1>2, <1>8, <1>9, <1>10, <1>12, <2>2 DEF SchedulerInv, Stopped
  <1> QED
    BY <1>11, <1>12

LEMMA TaskIsPopped ==
  ASSUME SchedulerInv, NEW k \in Scheduler!Task, Scheduler!TaskIsPopped(k)
  PROVE  SchedulerInv' /\ running' = running
  <1>1. /\ ready # <<>> /\ Head(ready) = Scheduler!Pop(k) /\ ready' = Tail(ready)
        /\ task' = [task EXCEPT ![k] = "none"] /\ cancelled' = cancelled \ {k}
        /\ UNCHANGED <<enabled, running, stop>>
    BY DEF Scheduler!TaskIsPopped, Scheduler!IsNext
  <1>2. /\ Injective(table', Scheduler!Task)
        /\ Scheduler!ToSet(table') = Scheduler!ToSet(table) \ {k}
    <2>1. ASSUME NEW i \in DOMAIN table, table[i] = k, table' = Scheduler!RemoveAt(table, i)
          PROVE  /\ Injective(table', Scheduler!Task)
                 /\ Scheduler!ToSet(table') = Scheduler!ToSet(table) \ {k}
      BY <2>1, RemovedAt, TypedParts DEF SchedulerInv
    <2>2. \/ \E i \in DOMAIN table : table[i] = k /\ table' = Scheduler!RemoveAt(table, i)
          \/ k \notin Scheduler!ToSet(table) /\ table' = table
      BY DEF Scheduler!TaskIsPopped
    <2> QED
      BY <2>1, <2>2, TypedParts DEF SchedulerInv
  <1>3. /\ task' \in [Scheduler!Task -> Scheduler!Waits]
        /\ task'[k] = "none" /\ \A l \in Scheduler!Task \ {k} : task'[l] = task[l]
    BY <1>1, TypedParts DEF SchedulerInv, Scheduler!Waits
  <1>4. stop.pc # "down"
    BY <1>1 DEF SchedulerInv, NoTasks
  <1>5. /\ Injective(ready', Kinds) /\ Scheduler!Pop(k) \in Pending
        /\ Pending' = Pending \ {Scheduler!Pop(k)}
    BY <1>1, TypedParts, HeadAndTail DEF SchedulerInv, Pending
  <1>6. task[k] = "done"
    BY <1>5 DEF SchedulerInv, InLoop
  <1>7. Scheduler!TypeOK'
    BY <1>1, <1>2, <1>3, <1>5 DEF SchedulerInv, Scheduler!TypeOK, Injective, Kinds
  <1>8. InLoop'
    <2>1. \A l \in Scheduler!Task : Scheduler!Step(l) \in Pending' =>
              \/ task'[l] \in {"created", "ran", "failed", "woken"}
              \/ l \in cancelled' /\ task'[l] \in {"thread", "sleep"}
      BY <1>1, <1>3, <1>5, <1>6 DEF SchedulerInv, InLoop
    <2>2. \A l \in Scheduler!Task : Scheduler!Pop(l) \in Pending' => task'[l] = "done"
      BY <1>3, <1>5 DEF SchedulerInv, InLoop
    <2>3. /\ Scheduler!Shutdown \in Pending' => stop'.pc = "requested"
          /\ Scheduler!Resume \in Pending' =>
                 stop'.awaits \in Scheduler!Task /\ task'[stop'.awaits] \in {"none", "done"}
      BY <1>1, <1>3, <1>5 DEF SchedulerInv, InLoop
    <2> QED
      BY <2>1, <2>2, <2>3 DEF InLoop
  <1>9. \A l \in Scheduler!ToSet(table)' : task'[l] # "none"
    BY <1>2, <1>3, TypedParts, Elements DEF SchedulerInv, Injective
  <1>10. Stopped => AllCancelled'
    BY <1>1, <1>3 DEF SchedulerInv, AllCancelled
  <1>11. ASSUME ~Stopped PROVE InTable'
    <2>1. InTable
      BY <1>4, <1>11, TypedParts DEF SchedulerInv, Stopped
    <2> QED
      BY <1>1, <1>2, <1>3, <2>1 DEF InTable
  <1> QED
    BY <1>1, <1>4, <1>7, <1>8, <1>9, <1>10, <1>11 DEF SchedulerInv, Stopped

LEMMA StopSteps ==
  ASSUME SchedulerInv, Scheduler!StopCancels \/ Scheduler!StopResumes
  PROVE  SchedulerInv' /\ running' = running /\ stop.pc # "down" /\ stop'.pc # "down"
  <1>1. ready # <<>> /\ UNCHANGED <<enabled, task, running>>
    BY DEF Scheduler!StopCancels, Scheduler!StopResumes, Scheduler!IsNext
  <1>2. stop.pc # "down"
    BY <1>1 DEF SchedulerInv, NoTasks
  <1>3. /\ Head(ready) \in Pending /\ Injective(Tail(ready), Kinds)
        /\ Scheduler!ToSet(Tail(ready)) = Pending \ {Head(ready)}
    BY <1>1, TypedParts, HeadAndTail DEF SchedulerInv, Pending
  <1>4. CASE Scheduler!StopCancels
    <2>1. /\ Head(ready) = Scheduler!Shutdown /\ Scheduler!AwaitFrom(1)
          /\ cancelled' = cancelled \cup {k \in Scheduler!ToSet(table) : task[k] # "done"}
      BY <1>4, Zenon DEF Scheduler!StopCancels, Scheduler!IsNext
    <2>2. PICK places \in Scheduler!Waiting :
              ready' = Tail(ready) \o [a \in DOMAIN places |-> Scheduler!Step(table[places[a]])]
      BY <1>4 DEF Scheduler!StopCancels
    <2>3. stop.pc = "requested" /\ InTable
      BY <1>3, <2>1 DEF SchedulerInv, InLoop
    <2>4. /\ stop' \in [pc : {"waits", "over"}, awaits : Scheduler!Task \cup {None}, at : Nat, size : Nat]
          /\ stop'.awaits # None => stop'.pc = "waits"
          /\ Injective(table', Scheduler!Task)
          /\ Scheduler!ToSet(table') \subseteq Scheduler!ToSet(table)
      BY <2>1, Awaits, TypedParts DEF SchedulerInv
    <2> DEFINE made == [a \in DOMAIN places |-> Scheduler!Step(table[places[a]])]
    <2>5. /\ Injective(made, Kinds)
          /\ \A x \in Scheduler!ToSet(made) : \E k \in Scheduler!ToSet(table) :
                 x = Scheduler!Step(k) /\ task[k] \in {"thread", "sleep"}
      BY MadeReady, TypedParts DEF SchedulerInv
    <2> HIDE DEF made
    <2>6. Scheduler!ToSet(table) \subseteq Scheduler!Task
      BY TypedParts, Elements DEF SchedulerInv, Injective
    <2>7. Scheduler!ToSet(Tail(ready)) \cap Scheduler!ToSet(made) = {}
      <3>1. ASSUME NEW k \in Scheduler!Task, task[k] \in {"thread", "sleep"}
            PROVE  Scheduler!Step(k) \notin Pending
        BY <2>3, <3>1 DEF SchedulerInv, InLoop, InTable
      <3> QED
        BY <1>3, <2>5, <2>6, <3>1
    <2>8. Injective(ready', Kinds) /\ Pending' = (Pending \ {Scheduler!Shutdown}) \cup Scheduler!ToSet(made)
      <3>1. ready' = Tail(ready) \o made
        BY <2>2 DEF made
      <3> QED
        BY <1>3, <2>1, <2>5, <2>7, <3>1, Joined DEF Pending
    <2>9. cancelled' \subseteq Scheduler!Task /\ \A k \in Scheduler!ToSet(table) : task[k] # "done" => k \in cancelled'
      BY <2>1, <2>6, TypedParts DEF SchedulerInv
    <2>10. Scheduler!TypeOK'
      BY <1>1, <2>4, <2>8, <2>9 DEF SchedulerInv, Scheduler!TypeOK, Injective, Kinds
    <2>11. InLoop'
      <3>1. Scheduler!Resume \notin Pending'
        <4>1. Scheduler!Resume \notin Pending
          BY <2>3, PeriodicAssumption DEF SchedulerInv, InLoop, Scheduler!Task
        <4> QED
          BY <2>5, <2>8, <4>1, CallbacksDiffer
      <3>2. Scheduler!Shutdown \notin Pending'
        BY <2>5, <2>8, CallbacksDiffer
      <3>3. \A k \in Scheduler!Task : Scheduler!Pop(k) \in Pending' => task'[k] = "done"
        BY <1>1, <2>5, <2>8, CallbacksDiffer DEF SchedulerInv, InLoop
      <3>4. ASSUME NEW k \in Scheduler!Task, Scheduler!Step(k) \in Pending'
            PROVE  \/ task'[k] \in {"created", "ran", "failed", "woken"}
                   \/ k \in cancelled' /\ task'[k] \in {"thread", "sleep"}
        <4>1. CASE Scheduler!Step(k) \in Pending
          BY <1>1, <2>1, <4>1 DEF SchedulerInv, InLoop
        <4>2. CASE Scheduler!Step(k) \in Scheduler!ToSet(made)
          <5>1. k \in Scheduler!ToSet(table) /\ task[k] \in {"thread", "sleep"}
            BY <2>5, <4>2, CallbacksDiffer
          <5> QED
            BY <1>1, <2>9, <5>1
        <4> QED
          BY <2>8, <3>4, <4>1, <4>2
      <3> QED
        BY <3>1, <3>2, <3>3, <3>4 DEF InLoop
    <2>12. \A k \in Scheduler!ToSet(table)' : task'[k] # "none"
      BY <1>1, <2>4 DEF SchedulerInv
    <2>13. AllCancelled'
      BY <1>1, <2>3, <2>9 DEF InTable, AllCancelled
    <2> QED
      BY <1>1, <1>2, <2>4, <2>10, <2>11, <2>12, <2>13 DEF SchedulerInv, Stopped
  <1>5. CASE Scheduler!StopResumes
    <2>1. /\ Head(ready) = Scheduler!Resume /\ cancelled' = cancelled /\ ready' = Tail(ready)
          /\ IF Len(table) = stop.size THEN Scheduler!AwaitFrom(stop.at + 1)
             ELSE stop' = [Scheduler!NotStopped EXCEPT !.pc = "raised"] /\ UNCHANGED table
      BY <1>5 DEF Scheduler!StopResumes, Scheduler!IsNext
    <2>2. stop.pc = "waits" /\ AllCancelled
      BY <1>3, <2>1, PeriodicAssumption DEF SchedulerInv, InLoop, Scheduler!Task, Stopped
    <2>3. /\ stop' \in [pc : {"waits", "over", "raised"}, awaits : Scheduler!Task \cup {None}, at : Nat, size : Nat]
          /\ stop'.awaits # None => stop'.pc = "waits"
          /\ Injective(table', Scheduler!Task)
          /\ Scheduler!ToSet(table') \subseteq Scheduler!ToSet(table)
      <3>1. CASE Len(table) = stop.size
        <4>1. stop.at + 1 \in Nat \ {0} /\ Injective(table, Scheduler!Task)
          BY TypedParts DEF SchedulerInv
        <4> QED
          BY <2>1, <3>1, <4>1, Awaits
      <3>2. CASE Len(table) # stop.size
        BY <2>1, <3>2, TypedParts DEF Scheduler!NotStopped, SchedulerInv
      <3> QED
        BY <3>1, <3>2
    <2>4. Injective(ready', Kinds) /\ Pending' = Pending \ {Scheduler!Resume}
      BY <1>3, <2>1 DEF Pending
    <2>5. Scheduler!TypeOK'
      BY <1>1, <2>1, <2>3, <2>4 DEF SchedulerInv, Scheduler!TypeOK, Injective, Kinds
    <2>6. InLoop'
      BY <1>1, <2>1, <2>2, <2>4 DEF SchedulerInv, InLoop
    <2>7. \A k \in Scheduler!ToSet(table)' : task'[k] # "none"
      BY <1>1, <2>3 DEF SchedulerInv
    <2> QED
      BY <1>1, <1>2, <2>1, <2>2, <2>3, <2>5, <2>6, <2>7 DEF SchedulerInv, Stopped, AllCancelled
  <1> QED
    BY <1>1, <1>2, <1>4, <1>5

\* start and stop, trigger_job, and what ends a wait.
LEMMA OutsideSteps ==
  ASSUME SchedulerInv,
         \/ Scheduler!Start \/ Scheduler!RequestStop \/ Scheduler!End
         \/ \E k \in Triggered : Scheduler!Trigger(k)
         \/ Scheduler!Outside
  PROVE  SchedulerInv' /\ (Stopped => running' \subseteq running)
  <1>1. CASE Scheduler!Start
    <2>1. stop.pc = "down" /\ stop' = Scheduler!NotStopped /\ UNCHANGED <<cancelled, running>>
      BY <1>1 DEF Scheduler!Start
    <2>2. PICK e \in BOOLEAN :
              /\ enabled' = e
              /\ task' = [task EXCEPT ![Periodic] = IF e THEN "created" ELSE "none"]
              /\ table' = IF e THEN <<Periodic>> ELSE <<>>
              /\ ready' = IF e THEN <<Scheduler!Step(Periodic)>> ELSE <<>>
      BY <1>1 DEF Scheduler!Start
    <2>3. Periodic \in Scheduler!Task /\ NoTasks
      BY <2>1 DEF SchedulerInv, Scheduler!Task
    <2>4. /\ task' \in [Scheduler!Task -> Scheduler!Waits]
          /\ task'[Periodic] = IF e THEN "created" ELSE "none"
          /\ \A k \in Scheduler!Task \ {Periodic} : task'[k] = "none"
      BY <2>2, <2>3, TypedParts DEF SchedulerInv, Scheduler!Waits, NoTasks
    <2>5. /\ Injective(table', Scheduler!Task)
          /\ Scheduler!ToSet(table') = IF e THEN {Periodic} ELSE {}
      BY <2>2, <2>3, Alone, Nothing
    <2>6. /\ Injective(ready', Kinds)
          /\ Pending' = IF e THEN {Scheduler!Step(Periodic)} ELSE {}
      BY <2>2, <2>3, Alone, Nothing, CallbacksDiffer DEF Pending
    <2>7. Scheduler!TypeOK'
      BY <2>1, <2>2, <2>4, <2>5, <2>6
      DEF SchedulerInv, Scheduler!TypeOK, Injective, Kinds, Scheduler!NotStopped
    <2>8. InLoop'
      BY <2>2, <2>4, <2>6, CallbacksDiffer DEF InLoop
    <2>9. InTable' /\ \A k \in Scheduler!ToSet(table') : task'[k] # "none"
      BY <2>1, <2>3, <2>4, <2>5 DEF InTable, NoTasks
    <2> QED
      BY <2>1, <2>7, <2>8, <2>9 DEF SchedulerInv, Stopped, Scheduler!NotStopped
  <1>2. CASE Scheduler!RequestStop
    <2>1. /\ stop.pc = "no" /\ stop' = [stop EXCEPT !.pc = "requested"]
          /\ ready' = Append(ready, Scheduler!Shutdown)
          /\ UNCHANGED <<enabled, task, cancelled, table, running>>
      BY <1>2 DEF Scheduler!RequestStop
    <2>2. Injective(ready', Kinds) /\ Pending' = Pending \cup {Scheduler!Shutdown}
      BY <2>1, TypedParts, Appended, CallbacksDiffer DEF SchedulerInv, InLoop, Pending
    <2>3. /\ stop' \in [pc : {"down", "no", "requested", "waits", "over", "raised"},
                        awaits : Scheduler!Task \cup {None}, at : Nat, size : Nat]
          /\ stop'.pc = "requested" /\ stop'.awaits = stop.awaits
      BY <2>1, TypedParts DEF SchedulerInv
    <2>4. Scheduler!TypeOK'
      BY <2>1, <2>2, <2>3 DEF SchedulerInv, Scheduler!TypeOK, Injective, Kinds
    <2>5. InLoop'
      BY <2>1, <2>2, <2>3, CallbacksDiffer DEF SchedulerInv, InLoop
    <2> QED
      BY <2>1, <2>3, <2>4, <2>5 DEF SchedulerInv, InTable, Stopped
  <1>3. CASE Scheduler!End
    <2>1. /\ stop' = [Scheduler!NotStopped EXCEPT !.pc = "down"]
          /\ task' = [k \in Scheduler!Task |-> "none"]
          /\ cancelled' = {} /\ table' = <<>> /\ ready' = <<>> /\ running' = {}
          /\ UNCHANGED enabled
      BY <1>3 DEF Scheduler!End
    <2>2. /\ Injective(table', Scheduler!Task) /\ Injective(ready', Kinds)
          /\ Pending' = {} /\ Scheduler!ToSet(table') = {}
      BY <2>1, Nothing DEF Pending
    <2>3. Scheduler!TypeOK'
      BY <2>1, <2>2
      DEF SchedulerInv, Scheduler!TypeOK, Injective, Kinds, Scheduler!NotStopped, Scheduler!Waits
    <2> QED
      BY <2>1, <2>2, <2>3 DEF SchedulerInv, InLoop, NoTasks, Stopped, Scheduler!NotStopped
  <1>4. ASSUME NEW k \in Triggered, Scheduler!Trigger(k)
        PROVE  SchedulerInv' /\ running' = running
    <2>1. /\ stop.pc = "no" /\ task[k] = "none" /\ task' = [task EXCEPT ![k] = "created"]
          /\ table' = Append(table, k) /\ ready' = Append(ready, Scheduler!Step(k))
          /\ UNCHANGED <<enabled, cancelled, running, stop>>
      BY <1>4 DEF Scheduler!Trigger
    <2>2. k \in Scheduler!Task /\ InTable
      BY <2>1 DEF Scheduler!Task, SchedulerInv
    <2>3. /\ Injective(table', Scheduler!Task)
          /\ Scheduler!ToSet(table') = Scheduler!ToSet(table) \cup {k}
      BY <2>1, <2>2, TypedParts, Appended DEF SchedulerInv
    <2>4. /\ Injective(ready', Kinds) /\ Scheduler!Step(k) \notin Pending
          /\ Pending' = Pending \cup {Scheduler!Step(k)}
      BY <2>1, <2>2, TypedParts, Appended, CallbacksDiffer DEF SchedulerInv, InLoop, Pending
    <2>5. /\ task' \in [Scheduler!Task -> Scheduler!Waits] /\ task'[k] = "created"
          /\ \A l \in Scheduler!Task \ {k} : task'[l] = task[l]
      BY <2>1, <2>2, TypedParts DEF SchedulerInv, Scheduler!Waits
    <2>6. Scheduler!TypeOK'
      BY <2>1, <2>3, <2>4, <2>5 DEF SchedulerInv, Scheduler!TypeOK, Injective, Kinds
    <2>7. InLoop'
      <3>1. Scheduler!Resume \notin Pending
        BY <2>1, PeriodicAssumption DEF SchedulerInv, InLoop, Scheduler!Task
      <3> QED
        BY <2>1, <2>2, <2>4, <2>5, <3>1, CallbacksDiffer DEF SchedulerInv, InLoop
    <2>8. InTable'
      BY <2>1, <2>2, <2>3, <2>5 DEF InTable
    <2>9. \A l \in Scheduler!ToSet(table') : task'[l] # "none"
      BY <2>2, <2>3, <2>5, TypedParts, Elements DEF SchedulerInv, Injective
    <2> QED
      BY <2>1, <2>6, <2>7, <2>8, <2>9 DEF SchedulerInv, Stopped
  <1>5. ASSUME Scheduler!Outside PROVE SchedulerInv' /\ running' \subseteq running
    <2>1. PICK k \in Scheduler!Task, how \in {"ran", "failed", "woken"} :
              /\ UNCHANGED <<enabled, cancelled, table, stop>> /\ running' \subseteq running
              /\ \/ UNCHANGED <<task, ready>>
                 \/ /\ task[k] \in {"thread", "sleep"} /\ k \notin cancelled
                    /\ task' = [task EXCEPT ![k] = how]
                    /\ ready' = Append(ready, Scheduler!Step(k))
      <3>1. PICK k \in Scheduler!Task : \/ Scheduler!ThreadEnds(k, "ran")
                                         \/ Scheduler!ThreadEnds(k, "failed")
                                         \/ Scheduler!TimerExpires(k)
        BY <1>5 DEF Scheduler!Outside
      <3>2. CASE Scheduler!ThreadEnds(k, "ran")
        BY <3>2 DEF Scheduler!ThreadEnds
      <3>3. CASE Scheduler!ThreadEnds(k, "failed")
        BY <3>3 DEF Scheduler!ThreadEnds
      <3>4. CASE Scheduler!TimerExpires(k)
        BY <3>4 DEF Scheduler!TimerExpires
      <3> QED
        BY <3>1, <3>2, <3>3, <3>4
    <2>2. running' \subseteq Scheduler!Task
      BY <2>1, TypedParts DEF SchedulerInv
    <2>3. CASE UNCHANGED <<task, ready>>
      <3>1. Scheduler!TypeOK'
        BY <2>1, <2>2, <2>3 DEF SchedulerInv, Scheduler!TypeOK
      <3>2. Pending' = Pending
        BY <2>3 DEF Pending
      <3> QED
        BY <2>1, <2>3, <3>1, <3>2 DEF SchedulerInv, InLoop, NoTasks, InTable, AllCancelled, Stopped
    <2>4. CASE ~UNCHANGED <<task, ready>>
      <3>1. /\ task[k] \in {"thread", "sleep"} /\ k \notin cancelled
            /\ task' = [task EXCEPT ![k] = how]
            /\ ready' = Append(ready, Scheduler!Step(k))
        BY <2>1, <2>4
      <3>2. stop.pc # "down" /\ ~Stopped
        BY <3>1 DEF SchedulerInv, NoTasks, AllCancelled
      <3>3. InTable
        BY <3>2, TypedParts DEF SchedulerInv, Stopped
      <3>4. /\ Injective(ready', Kinds) /\ Pending' = Pending \cup {Scheduler!Step(k)}
        BY <3>1, TypedParts, Appended, CallbacksDiffer DEF SchedulerInv, InLoop, Pending
      <3>5. /\ task' \in [Scheduler!Task -> Scheduler!Waits] /\ task'[k] = how
            /\ \A l \in Scheduler!Task \ {k} : task'[l] = task[l]
        BY <3>1, TypedParts DEF SchedulerInv, Scheduler!Waits
      <3>6. Scheduler!TypeOK'
        BY <2>1, <2>2, <3>4, <3>5 DEF SchedulerInv, Scheduler!TypeOK, Injective, Kinds
      <3>7. InLoop'
        BY <2>1, <3>1, <3>4, <3>5, CallbacksDiffer DEF SchedulerInv, InLoop
      <3>8. InTable'
        BY <2>1, <3>1, <3>3, <3>5 DEF InTable
      <3>9. \A l \in Scheduler!ToSet(table') : task'[l] # "none"
        BY <2>1, <3>5, TypedParts, Elements DEF SchedulerInv, Injective
      <3> QED
        BY <2>1, <3>2, <3>6, <3>7, <3>8, <3>9 DEF SchedulerInv, Stopped
    <2> QED
      BY <2>1, <2>3, <2>4
  <1>6. Stopped => running' \subseteq running
    BY <1>1, <1>2, <1>3, <1>4, <1>5 DEF Scheduler!Start, Scheduler!RequestStop, Scheduler!End
  <1> QED
    BY <1>1, <1>2, <1>3, <1>4, <1>5, <1>6

-----------------------------------------------------------------------------
(* Migrations.  Of the scripts, those that build the trade tables again are *)
(* m0007 and m0008; no later one touches them.                              *)

Rebuilding == runner.pc = "script" /\ runner.version \in {7, 8}

\* What each statement of such a script finds in the tables.
AtStatement ==
    Rebuilding =>
        /\ runner.at = 3 => rows["active_trades"] \subseteq rows["active_trades_new"]
        /\ runner.at = 4 => rows["active_trades"] = {}
        /\ runner.at = 7 => rows["historical_trades"] \subseteq rows["historical_trades_new"]
        /\ runner.at = 8 => rows["historical_trades"] = {}

MigrationInv ==
    /\ version \in 0 .. 11
    /\ DOMAIN rows = {"active_trades", "historical_trades",
                      "active_trades_new", "historical_trades_new"}
    /\ runner \in [pc : {"down", "next", "script", "failed", "done"}, version : 0 .. 11, at : Nat]
    /\ runner.pc = "script" => /\ runner.version = version + 1
                               /\ runner.at \in 1 .. Len(Migration!Scripts[runner.version])
    /\ runner.pc = "next" => runner.version \in {version, version + 1}
    /\ AtStatement

LEMMA TradeTableNames ==
  /\ Migration!Trades = {"active_trades", "historical_trades"}
  /\ Migration!Replacement["active_trades"] = "active_trades_new"
  /\ Migration!Replacement["historical_trades"] = "historical_trades_new"
  /\ Migration!TradeTables = {"active_trades", "historical_trades",
                              "active_trades_new", "historical_trades_new"}
  BY DEF Migration!Trades, Migration!Replacement, Migration!TradeTables

LEMMA ElevenScripts == Migration!Latest = 11
  BY DEF Migration!Latest, Migration!Scripts

LEMMA RebuildStatements ==
  ASSUME NEW s, s = Migration!RebuildTrades
  PROVE  /\ Len(s) = 8
         /\ s[1] = Migration!Create("active_trades_new")
         /\ s[2] = Migration!Copy("active_trades", "active_trades_new")
         /\ s[3] = Migration!Drop("active_trades")
         /\ s[4] = Migration!Rename("active_trades_new", "active_trades")
         /\ s[5] = Migration!Create("historical_trades_new")
         /\ s[6] = Migration!Copy("historical_trades", "historical_trades_new")
         /\ s[7] = Migration!Drop("historical_trades")
         /\ s[8] = Migration!Rename("historical_trades_new", "historical_trades")
  BY DEF Migration!RebuildTrades, Migration!Rebuild

LEMMA ScriptsOfTrades ==
  /\ Migration!Scripts[7] = Migration!RebuildTrades
  /\ Migration!Scripts[8] = Migration!RebuildTrades
  BY DEF Migration!Scripts, Migration!m0007, Migration!m0008

\* The other scripts since version 4 leave the trade tables alone.
LEMMA OtherScripts ==
  ASSUME NEW v \in {5, 6, 9, 10, 11}, NEW i \in 1 .. Len(Migration!Scripts[v])
  PROVE  Migration!Scripts[v][i].table \notin Migration!TradeTables
  <1>1. CASE v = 5
    BY <1>1, TradeTableNames DEF Migration!Scripts, Migration!m0005, Migration!Create
  <1>2. CASE v = 6
    BY <1>2, TradeTableNames DEF Migration!Scripts, Migration!m0006, Migration!Create
  <1>3. CASE v = 9
    BY <1>3, TradeTableNames DEF Migration!Scripts, Migration!m0009, Migration!Create
  <1>4. CASE v = 10
    BY <1>4, TradeTableNames DEF Migration!Scripts, Migration!m0010, Migration!Create
  <1>5. CASE v = 11
    BY <1>5, TradeTableNames DEF Migration!Scripts, Migration!m0011, Migration!Create
  <1> QED
    BY <1>1, <1>2, <1>3, <1>4, <1>5

LEMMA RebuildOps ==
  /\ Len(Migration!RebuildTrades) \in Nat /\ Len(Migration!RebuildTrades) >= 1
  /\ \A i \in 1 .. Len(Migration!RebuildTrades) :
         Migration!RebuildTrades[i].op \in {"create", "drop", "copy", "rename"}
  <1> DEFINE s == Migration!RebuildTrades
  <1>1. /\ Len(s) = 8
        /\ s[1].op = "create" /\ s[2].op = "copy" /\ s[3].op = "drop" /\ s[4].op = "rename"
        /\ s[5].op = "create" /\ s[6].op = "copy" /\ s[7].op = "drop" /\ s[8].op = "rename"
    BY RebuildStatements DEF Migration!Create, Migration!Copy, Migration!Drop, Migration!Rename
  <1> HIDE DEF s
  <1>2. ASSUME NEW i \in 1 .. 8 PROVE s[i].op \in {"create", "drop", "copy", "rename"}
    <2>1. i \in {1, 2, 3, 4, 5, 6, 7, 8}
      OBVIOUS
    <2> QED
      BY <1>1, <2>1
  <1> QED
    BY <1>1, <1>2 DEF s

\* No script is empty.
LEMMA AllScripts ==
  ASSUME NEW v \in 1 .. 11
  PROVE  /\ Len(Migration!Scripts[v]) \in Nat /\ Len(Migration!Scripts[v]) >= 1
         /\ \A i \in 1 .. Len(Migration!Scripts[v]) :
                Migration!Scripts[v][i].op \in {"create", "drop", "copy", "rename"}
  <1>1. CASE v = 1
    BY <1>1
       DEF Migration!Scripts, Migration!m0001, Migration!Create, Migration!Drop
  <1>2. CASE v = 2
    BY <1>2
       DEF Migration!Scripts, Migration!m0002, Migration!Create, Migration!Drop
  <1>3. CASE v = 3
    BY <1>3
       DEF Migration!Scripts, Migration!m0003, Migration!Create, Migration!Drop
  <1>4. CASE v = 4
    BY <1>4
       DEF Migration!Scripts, Migration!m0004, Migration!Create, Migration!Drop
  <1>5. CASE v = 5
    BY <1>5
       DEF Migration!Scripts, Migration!m0005, Migration!Create, Migration!Drop
  <1>6. CASE v = 6
    BY <1>6
       DEF Migration!Scripts, Migration!m0006, Migration!Create, Migration!Drop
  <1>7. CASE v = 7
    BY <1>7, RebuildOps, ScriptsOfTrades
  <1>8. CASE v = 8
    BY <1>8, RebuildOps, ScriptsOfTrades
  <1>9. CASE v = 9
    BY <1>9
       DEF Migration!Scripts, Migration!m0009, Migration!Create, Migration!Drop
  <1>10. CASE v = 10
    BY <1>10
       DEF Migration!Scripts, Migration!m0010, Migration!Create, Migration!Drop
  <1>11. CASE v = 11
    BY <1>11
       DEF Migration!Scripts, Migration!m0011, Migration!Create, Migration!Drop
  <1> QED
    BY <1>1, <1>2, <1>3, <1>4, <1>5, <1>6, <1>7, <1>8, <1>9, <1>10, <1>11

\* RowsAfter, statement by statement.
LEMMA Copied ==
  ASSUME NEW a, NEW b, a \in Migration!TradeTables
  PROVE  Migration!RowsAfter(Migration!Copy(a, b), rows) = [rows EXCEPT ![b] = rows[b] \cup rows[a]]
  BY DEF Migration!RowsAfter, Migration!Copy

LEMMA Dropped ==
  ASSUME NEW a, a \in Migration!TradeTables
  PROVE  Migration!RowsAfter(Migration!Drop(a), rows) = [rows EXCEPT ![a] = {}]
  BY DEF Migration!RowsAfter, Migration!Drop

LEMMA Renamed ==
  ASSUME NEW a, NEW b, a \in Migration!TradeTables
  PROVE  Migration!RowsAfter(Migration!Rename(a, b), rows)
           = [rows EXCEPT ![b] = rows[a], ![a] = {}]
  BY DEF Migration!RowsAfter, Migration!Rename

\* A statement of a script that builds the trade tables again.
LEMMA RebuildExecutes ==
  ASSUME MigrationInv, Migration!Execute, runner.version \in {7, 8}
  PROVE  /\ DOMAIN rows' = DOMAIN rows
         /\ \A t \in Migration!Trades : Migration!Kept(t) \subseteq Migration!Kept(t)'
         /\ runner.at = 2 => rows'["active_trades"] \subseteq rows'["active_trades_new"]
         /\ runner.at = 3 => rows'["active_trades"] = {}
         /\ runner.at = 6 => rows'["historical_trades"] \subseteq rows'["historical_trades_new"]
         /\ runner.at = 7 => rows'["historical_trades"] = {}
  <1> DEFINE s == Migration!RebuildTrades
             A == "active_trades"
             AN == "active_trades_new"
             H == "historical_trades"
             HN == "historical_trades_new"
  <1>1. Migration!Statement = s[runner.at] /\ runner.at \in 1 .. 8 /\ Rebuilding
    BY ScriptsOfTrades, RebuildStatements
       DEF MigrationInv, Migration!Execute, Migration!Statement, Rebuilding
  <1>2. rows' = Migration!RowsAfter(s[runner.at], rows)
    BY <1>1 DEF Migration!Execute
  <1>3. DOMAIN rows = {A, AN, H, HN}
    BY DEF MigrationInv
  <1>4. /\ Migration!Kept(A) = rows[A] \cup rows[AN] /\ Migration!Kept(H) = rows[H] \cup rows[HN]
        /\ Migration!Kept(A)' = rows'[A] \cup rows'[AN]
        /\ Migration!Kept(H)' = rows'[H] \cup rows'[HN]
    BY DEF Migration!Kept, Migration!Replacement
  <1>5. CASE runner.at \in {1, 5}
    <2>1. rows' = rows
      BY <1>2, <1>5, RebuildStatements DEF Migration!RowsAfter, Migration!Create
    <2> QED
      BY <1>4, <1>5, <2>1, TradeTableNames
  <1>6. CASE runner.at = 2
    <2>1. rows' = [rows EXCEPT ![AN] = rows[AN] \cup rows[A]]
      <3>1. s[2] = Migration!Copy(A, AN)
        BY RebuildStatements
      <3>2. Migration!RowsAfter(Migration!Copy(A, AN), rows)
              = [rows EXCEPT ![AN] = rows[AN] \cup rows[A]]
        BY Copied, TradeTableNames
      <3> QED
        BY <1>2, <1>6, <3>1, <3>2
    <2> QED
      BY <1>3, <1>4, <1>6, <2>1, TradeTableNames
  <1>7. CASE runner.at = 3
    <2>1. rows' = [rows EXCEPT ![A] = {}]
      BY <1>2, <1>7, RebuildStatements, TradeTableNames, Dropped
    <2>2. rows[A] \subseteq rows[AN]
      BY <1>1, <1>7 DEF MigrationInv, AtStatement
    <2> QED
      BY <1>3, <1>4, <1>7, <2>1, <2>2, TradeTableNames
  <1>8. CASE runner.at = 4
    <2>1. rows' = [rows EXCEPT ![A] = rows[AN], ![AN] = {}]
      BY <1>2, <1>8, RebuildStatements, TradeTableNames, Renamed
    <2>2. rows[A] = {}
      BY <1>1, <1>8 DEF MigrationInv, AtStatement
    <2> QED
      BY <1>3, <1>4, <1>8, <2>1, <2>2, TradeTableNames
  <1>9. CASE runner.at = 6
    <2>1. rows' = [rows EXCEPT ![HN] = rows[HN] \cup rows[H]]
      <3>1. s[6] = Migration!Copy(H, HN)
        BY RebuildStatements
      <3>2. Migration!RowsAfter(Migration!Copy(H, HN), rows)
              = [rows EXCEPT ![HN] = rows[HN] \cup rows[H]]
        BY Copied, TradeTableNames
      <3> QED
        BY <1>2, <1>9, <3>1, <3>2
    <2> QED
      BY <1>3, <1>4, <1>9, <2>1, TradeTableNames
  <1>10. CASE runner.at = 7
    <2>1. rows' = [rows EXCEPT ![H] = {}]
      BY <1>2, <1>10, RebuildStatements, TradeTableNames, Dropped
    <2>2. rows[H] \subseteq rows[HN]
      BY <1>1, <1>10 DEF MigrationInv, AtStatement
    <2> QED
      BY <1>3, <1>4, <1>10, <2>1, <2>2, TradeTableNames
  <1>11. CASE runner.at = 8
    <2>1. rows' = [rows EXCEPT ![H] = rows[HN], ![HN] = {}]
      BY <1>2, <1>11, RebuildStatements, TradeTableNames, Renamed
    <2>2. rows[H] = {}
      BY <1>1, <1>11 DEF MigrationInv, AtStatement
    <2> QED
      BY <1>3, <1>4, <1>11, <2>1, <2>2, TradeTableNames
  <1> QED
    BY <1>1, <1>5, <1>6, <1>7, <1>8, <1>9, <1>10, <1>11

LEMMA MigrationStarts == ASSUME Migration!Init PROVE MigrationInv
  BY VersionsAssumption, ElevenScripts, TradeTableNames
     DEF Migration!Init, Migration!Down, MigrationInv, AtStatement, Rebuilding

\* The tables of any statement stay what they are; no row is made up.
LEMMA RowsStayTyped ==
  ASSUME NEW statement, statement.op \in {"create", "drop", "copy", "rename"}
  PROVE  DOMAIN Migration!RowsAfter(statement, rows) = DOMAIN rows
  BY DEF Migration!RowsAfter

LEMMA Executes ==
  ASSUME MigrationInv, Migration!Execute
  PROVE  /\ MigrationInv'
         /\ version >= 4 => \A t \in Migration!Trades : Migration!Kept(t) \subseteq Migration!Kept(t)'
  <1>1. /\ runner.pc = "script" /\ runner.version = version + 1 /\ runner.version \in 1 .. 11
        /\ runner.at \in 1 .. Len(Migration!Scripts[runner.version])
        /\ version \in 0 .. 11 /\ version' = version
    BY DEF MigrationInv, Migration!Execute
  <1>2. \/ /\ runner.at < Len(Migration!Scripts[runner.version])
           /\ runner' = [runner EXCEPT !.at = @ + 1]
        \/ runner' = [runner EXCEPT !.pc = "next", !.at = 0]
    BY DEF Migration!Execute
  <1>3. /\ runner' \in [pc : {"down", "next", "script", "failed", "done"},
                        version : 0 .. 11, at : Nat]
        /\ runner'.version = runner.version
        /\ runner'.pc = "script" => /\ runner'.at = runner.at + 1
                                    /\ runner.at < Len(Migration!Scripts[runner.version])
        /\ runner'.pc \in {"script", "next"}
    <2>1. Len(Migration!Scripts[runner.version]) \in Nat
      BY <1>1, AllScripts
    <2>2. runner \in [pc : {"down", "next", "script", "failed", "done"}, version : 0 .. 11, at : Nat]
      BY DEF MigrationInv
    <2>3. CASE /\ runner.at < Len(Migration!Scripts[runner.version])
               /\ runner' = [runner EXCEPT !.at = @ + 1]
      BY <1>1, <2>2, <2>3
    <2>4. CASE runner' = [runner EXCEPT !.pc = "next", !.at = 0]
      BY <1>1, <2>2, <2>4
    <2> QED
      BY <1>2, <2>3, <2>4
  <1>4. DOMAIN rows' = DOMAIN rows
    <2>1. Migration!Statement.op \in {"create", "drop", "copy", "rename"}
      BY <1>1, AllScripts DEF Migration!Statement
    <2> QED
      BY <2>1, RowsStayTyped DEF Migration!Execute
  <1>5. AtStatement'
    <2> SUFFICES ASSUME Rebuilding' PROVE AtStatement'
      BY DEF AtStatement
    <2>1. runner.version \in {7, 8} /\ runner'.at = runner.at + 1
      BY <1>3 DEF Rebuilding
    <2>2. runner.at \in Nat
      BY DEF MigrationInv
    <2> QED
      BY <2>1, <2>2, RebuildExecutes DEF AtStatement
  <1>6. ASSUME version >= 4, NEW t \in Migration!Trades
        PROVE  Migration!Kept(t) \subseteq Migration!Kept(t)'
    <2>1. CASE runner.version \in {7, 8}
      BY <2>1, RebuildExecutes
    <2>2. CASE runner.version \notin {7, 8}
      <3>1. runner.version \in {5, 6, 9, 10, 11}
        BY <1>1, <1>6, <2>2
      <3>2. Migration!Statement.table \notin Migration!TradeTables
        BY <1>1, <3>1, OtherScripts DEF Migration!Statement
      <3>3. rows' = rows
        BY <3>2 DEF Migration!Execute, Migration!RowsAfter
      <3> QED
        BY <3>3 DEF Migration!Kept
    <2> QED
      BY <2>1, <2>2
  <1>7. MigrationInv'
    BY <1>1, <1>3, <1>4, <1>5 DEF MigrationInv
  <1> QED
    BY <1>6, <1>7

LEMMA MigrationSteps ==
  ASSUME MigrationInv, Migration!Begin \/ Migration!Migrate \/ Migration!End
  PROVE  /\ MigrationInv'
         /\ version >= 4 => \A t \in Migration!Trades : Migration!Kept(t) \subseteq Migration!Kept(t)'
  <1>1. CASE Migration!Execute
    BY <1>1, Executes
  <1>2. CASE Migration!Begin
    BY <1>2 DEF Migration!Begin, MigrationInv, AtStatement, Rebuilding, Migration!Kept
  <1>3. CASE Migration!NextScript
    <2>1. /\ runner.pc = "next" /\ runner.version \in 0 .. 10
          /\ version' = runner.version /\ rows' = rows
          /\ runner' = [pc |-> "script", version |-> runner.version + 1, at |-> 1]
      BY <1>3, ElevenScripts DEF Migration!NextScript, MigrationInv
    <2>2. 1 \in 1 .. Len(Migration!Scripts[runner.version + 1])
      <3>1. runner.version + 1 \in 1 .. 11
        BY <2>1
      <3>2. /\ Len(Migration!Scripts[runner.version + 1]) \in Nat
            /\ Len(Migration!Scripts[runner.version + 1]) >= 1
        BY <3>1, AllScripts
      <3> QED
        BY <3>2
    <2>3. /\ runner' \in [pc : {"down", "next", "script", "failed", "done"},
                          version : 0 .. 11, at : Nat]
          /\ runner'.pc = "script" /\ runner'.version = version' + 1 /\ runner'.at = 1
          /\ version' \in 0 .. 11
      BY <2>1
    <2>4. AtStatement'
      BY <2>3 DEF AtStatement
    <2>5. MigrationInv'
      BY <2>1, <2>2, <2>3, <2>4 DEF MigrationInv
    <2> QED
      BY <2>1, <2>5 DEF Migration!Kept
  <1>4. CASE Migration!ExecuteRaises
    BY <1>4 DEF Migration!ExecuteRaises, MigrationInv, AtStatement, Rebuilding, Migration!Kept
  <1>5. CASE Migration!Finish
    BY <1>5 DEF Migration!Finish, MigrationInv, AtStatement, Rebuilding, Migration!Kept
  <1>6. CASE Migration!End
    BY <1>6 DEF Migration!End, Migration!Down, MigrationInv, AtStatement, Rebuilding, Migration!Kept
  <1> QED
    BY <1>1, <1>2, <1>3, <1>4, <1>5, <1>6 DEF Migration!Migrate

-----------------------------------------------------------------------------
(* The schema.  A script that crashed halfway has changed only tables that  *)
(* it changes again when it is applied again: whatever it has gone through  *)
(* when it ends without raising, it has left each of them the same.         *)

\* The script in work has left the table as its i-th statement left it.
IsLast(i, script, at, t) ==
    /\ i < at
    /\ \A j \in Migration!Changes(script, t) : j < at => j <= i

LeftBy(i, v, t) ==
    IF Migration!Makes(Migration!Scripts[v][i], t) THEN v ELSE Migration!Absent

\* Only the tables of the first script that is not counted may differ.
Unfinished ==
    \A t \in Migration!Tables :
        (version = Migration!Latest
            \/ Migration!Changes(Migration!Scripts[version + 1], t) = {})
        => schema[t] = Migration!SchemaOf[version][t]

InScript ==
    runner.pc = "script" =>
        \A t \in Migration!Tables : \A i \in Migration!Changes(Migration!Scripts[runner.version], t) :
            IsLast(i, Migration!Scripts[runner.version], runner.at, t)
                => schema[t] = LeftBy(i, runner.version, t)

\* A script may have ended and not be counted.
NotCounted ==
    (runner.pc = "next" /\ runner.version # version) => schema = Migration!SchemaOf[runner.version]

SchemaInv == Migration!TypeOK /\ Unfinished /\ InScript /\ NotCounted

LEMMA HasMax ==
  ASSUME NEW S, S \subseteq 1 .. 11, S # {}
  PROVE  /\ Migration!Max(S) \in S
         /\ \A x \in S : x <= Migration!Max(S)
  <1> DEFINE below == {n \in Nat : 11 - n \in S}
  <1>1. \A y \in S : 11 - y \in below
    <2>1. \A y \in S : 11 - y \in Nat /\ 11 - (11 - y) = y
      OBVIOUS
    <2> QED
      BY <2>1
  <1>2. PICK m \in below : \A n \in below : m <= n
    <2>1. below \subseteq Nat /\ below # {}
      BY <1>1
    <2> HIDE DEF below
    <2> QED
      BY <2>1, HasLeast
  <1>3. 11 - m \in S
    BY <1>2
  <1>4. \A y \in S : 11 - m >= y
    <2>1. \A y \in S : m <= 11 - y /\ m \in Nat
      BY <1>1, <1>2
    <2> QED
      BY <2>1
  <1>5. \E x \in S : \A y \in S : x >= y
    BY <1>3, <1>4
  <1> QED
    BY <1>5 DEF Migration!Max

\* The statements' forms.
LEMMA Statements ==
  ASSUME NEW v \in 1 .. 11, NEW i \in 1 .. Len(Migration!Scripts[v]),
         NEW s, s = Migration!Scripts[v][i]
  PROVE  /\ Len(Migration!Scripts[v]) \in 1 .. 8
         /\ s.op \in {"create", "drop", "copy", "rename"}
         /\ s.op \in {"create", "drop"} => s.to = s.table
         /\ s.op = "rename" => v \in {7, 8}
  <1>1. CASE v \in {7, 8}
    <2> DEFINE r == Migration!RebuildTrades
    <2>1. Migration!Scripts[v] = r
      BY <1>1, ScriptsOfTrades
    <2>2. /\ Len(r) = 8
          /\ \A j \in {1, 5} : r[j].op = "create" /\ r[j].to = r[j].table
          /\ \A j \in {2, 6} : r[j].op = "copy"
          /\ \A j \in {3, 7} : r[j].op = "drop" /\ r[j].to = r[j].table
          /\ \A j \in {4, 8} : r[j].op = "rename"
      BY RebuildStatements
      DEF Migration!Create, Migration!Copy, Migration!Drop, Migration!Rename
    <2> HIDE DEF r
    <2>3. i \in {1, 2, 3, 4, 5, 6, 7, 8}
      BY <2>1, <2>2
    <2> QED
      BY <1>1, <2>1, <2>2, <2>3
  <1>2. CASE v \in {1, 2}
    BY <1>2, SMTT(30) DEF Migration!Scripts, Migration!m0001, Migration!m0002, Migration!Create
  <1>3. CASE v = 3
    BY <1>3 DEF Migration!Scripts, Migration!m0003, Migration!Create, Migration!Drop
  <1>4. CASE v = 4
    BY <1>4 DEF Migration!Scripts, Migration!m0004, Migration!Create, Migration!Drop
  <1>5. CASE v \in {5, 6}
    BY <1>5 DEF Migration!Scripts, Migration!m0005, Migration!m0006, Migration!Create
  <1>6. CASE v \in {9, 10, 11}
    BY <1>6 DEF Migration!Scripts, Migration!m0009, Migration!m0010, Migration!m0011,
                Migration!Create
  <1> QED
    BY <1>1, <1>2, <1>3, <1>4, <1>5, <1>6

LEMMA ScriptDomains ==
  ASSUME NEW v \in 1 .. 11
  PROVE  DOMAIN Migration!Scripts[v] = 1 .. Len(Migration!Scripts[v])
  BY RebuildStatements
  DEF Migration!Scripts, Migration!m0001, Migration!m0002, Migration!m0003, Migration!m0004,
      Migration!m0005, Migration!m0006, Migration!m0007, Migration!m0008, Migration!m0009,
      Migration!m0010, Migration!m0011

\* They are about tables.
LEMMA StatementsTables ==
  ASSUME NEW v \in 1 .. 11, NEW i \in 1 .. Len(Migration!Scripts[v])
  PROVE  /\ Migration!Scripts[v][i].table \in Migration!Tables
         /\ Migration!Scripts[v][i].to \in Migration!Tables
  <1> DEFINE s == Migration!Scripts[v]
             every == UNION {Migration!ToSet(Migration!Scripts[w]) : w \in DOMAIN Migration!Scripts}
  <1>1. i \in DOMAIN s /\ v \in DOMAIN Migration!Scripts
    <2>1. DOMAIN Migration!Scripts = 1 .. 11
      BY DEF Migration!Scripts
    <2>2. DOMAIN s = 1 .. Len(s)
      BY ScriptDomains
    <2> QED
      BY <2>1, <2>2
  <1>2. s[i] \in every
    BY <1>1 DEF Migration!ToSet
  <1> HIDE DEF s, every
  <1>3. Migration!Tables = UNION {{x.table, x.to} : x \in every}
    BY DEF Migration!Tables, every
  <1> QED
    BY <1>2, <1>3 DEF s

\* The statements that change a table are statements of the script.
LEMMA ChangesAreStatements ==
  ASSUME NEW v \in 1 .. 11, NEW t
  PROVE  /\ Migration!Changes(Migration!Scripts[v], t) \subseteq 1 .. 8
         /\ Migration!Changes(Migration!Scripts[v], t)
              \subseteq 1 .. Len(Migration!Scripts[v])
  <1>1. DOMAIN Migration!Scripts[v] = 1 .. Len(Migration!Scripts[v])
    BY ScriptDomains
  <1>2. ASSUME NEW i \in 1 .. Len(Migration!Scripts[v]) PROVE i \in 1 .. 8
    <2>1. PICK s : s = Migration!Scripts[v][i]
      OBVIOUS
    <2>2. Len(Migration!Scripts[v]) \in 1 .. 8
      BY <2>1, Statements
    <2>3. PICK n \in 1 .. 8 : n = Len(Migration!Scripts[v])
      BY <2>2
    <2>4. i \in 1 .. n
      BY <2>3
    <2> QED
      BY <2>4
  <1> QED
    BY <1>1, <1>2 DEF Migration!Changes

LEMMA SchemaOfTyped ==
  Migration!SchemaOf \in [0 .. 11 -> [Migration!Tables -> 0 .. 11]]
  <1>1. ASSUME NEW v \in 0 .. 11, NEW t \in Migration!Tables, Migration!Changed(v, t) # {}
        PROVE  Migration!Max(Migration!Changed(v, t)) \in 0 .. 11
    <2>1. Migration!Changed(v, t) \subseteq 1 .. 11
      BY DEF Migration!Changed
    <2> QED
      BY <1>1, <2>1, HasMax
  <1> QED
    BY <1>1, ElevenScripts DEF Migration!SchemaOf, Migration!Left, Migration!Absent

\* What a script does not change it leaves; what it changes is as its last
\* statement about it says.
LEMMA SchemaOfNext ==
  ASSUME NEW v \in 1 .. 11, NEW t \in Migration!Tables
  PROVE  Migration!SchemaOf[v][t] =
             IF Migration!Changes(Migration!Scripts[v], t) = {}
             THEN Migration!SchemaOf[v - 1][t]
             ELSE Migration!Left(v, t)
  <1>1. \A w \in 0 .. 11 : Migration!SchemaOf[w][t] =
            IF Migration!Changed(w, t) = {} THEN Migration!Absent
            ELSE Migration!Left(Migration!Max(Migration!Changed(w, t)), t)
    BY ElevenScripts DEF Migration!SchemaOf
  <1>2. v \in 0 .. 11 /\ v - 1 \in 0 .. 11
    OBVIOUS
  <1>3. CASE Migration!Changes(Migration!Scripts[v], t) = {}
    <2>1. Migration!Changed(v, t) = Migration!Changed(v - 1, t)
      BY <1>3 DEF Migration!Changed
    <2> QED
      BY <1>1, <1>2, <1>3, <2>1
  <1>4. CASE Migration!Changes(Migration!Scripts[v], t) # {}
    <2>1. v \in Migration!Changed(v, t) /\ Migration!Changed(v, t) \subseteq 1 .. v
      BY <1>4 DEF Migration!Changed
    <2>2. Migration!Max(Migration!Changed(v, t)) = v
      <3>1. Migration!Changed(v, t) \subseteq 1 .. 11
        BY <2>1
      <3> QED
        BY <2>1, <3>1, HasMax
    <2> QED
      BY <1>1, <1>2, <1>4, <2>1, <2>2
  <1> QED
    BY <1>3, <1>4

\* What a rename finds was created by the same script.
LEMMA RenamedWasCreated ==
  ASSUME MigrationInv, SchemaInv, runner.pc = "script", Migration!Statement.op = "rename"
  PROVE  /\ schema[Migration!Statement.table] = runner.version
         /\ Migration!Statement.table # Migration!Statement.to
  <1> DEFINE v == runner.version
             k == runner.at
             r == Migration!RebuildTrades
             s == Migration!Statement
  <1>1. v \in 1 .. 11 /\ k \in 1 .. Len(Migration!Scripts[v]) /\ s = Migration!Scripts[v][k]
    BY SMTT(30) DEF MigrationInv, Migration!Statement
  <1>2. v \in {7, 8} /\ Migration!Scripts[v] = r
    <2>1. v \in {7, 8}
      BY <1>1, Statements, ZenonT(30)
    <2> QED
      BY <2>1, ScriptsOfTrades
  <1>3. /\ DOMAIN r = 1 .. 8 /\ Len(r) = 8
        /\ r[1] = Migration!Create("active_trades_new") /\ r[2].op = "copy"
        /\ r[3] = Migration!Drop("active_trades")
        /\ r[4] = Migration!Rename("active_trades_new", "active_trades")
        /\ r[5] = Migration!Create("historical_trades_new") /\ r[6].op = "copy"
        /\ r[7] = Migration!Drop("historical_trades")
        /\ r[8] = Migration!Rename("historical_trades_new", "historical_trades")
    BY RebuildStatements DEF Migration!RebuildTrades, Migration!Rebuild, Migration!Copy
  <1> HIDE DEF r
  <1>4. k \in {4, 8}
    <2>1. k \in {1, 2, 3, 4, 5, 6, 7, 8}
      BY <1>1, <1>2, <1>3
    <2> QED
      BY <1>1, <1>2, <1>3, <2>1 DEF Migration!Create, Migration!Drop
  <1>5. s.table \in Migration!Tables
    BY <1>1, StatementsTables
  <1>6. ASSUME NEW i \in Migration!Changes(r, s.table), IsLast(i, r, k, s.table),
               Migration!Makes(r[i], s.table)
        PROVE  schema[s.table] = v
    BY <1>2, <1>5, <1>6 DEF SchemaInv, InScript, LeftBy
  <1>7. CASE k = 4
    <2>1. s.table = "active_trades_new" /\ s.to = "active_trades"
      BY <1>1, <1>2, <1>3, <1>7 DEF Migration!Rename
    <2>2. 1 \in Migration!Changes(r, s.table) /\ Migration!Makes(r[1], s.table)
      BY <1>3, <2>1 DEF Migration!Changes, Migration!Makes, Migration!Create
    <2>3. 2 \notin Migration!Changes(r, s.table) /\ 3 \notin Migration!Changes(r, s.table)
      BY <1>3, <2>1 DEF Migration!Changes, Migration!Drop
    <2>4. IsLast(1, r, k, s.table)
      <3>1. \A j \in Migration!Changes(r, s.table) : j \in 1 .. 8
        BY <1>3 DEF Migration!Changes
      <3> QED
        BY <1>7, <2>3, <3>1 DEF IsLast
    <2> QED
      BY <1>6, <2>1, <2>2, <2>4
  <1>8. CASE k = 8
    <2>1. s.table = "historical_trades_new" /\ s.to = "historical_trades"
      BY <1>1, <1>2, <1>3, <1>8 DEF Migration!Rename
    <2>2. 5 \in Migration!Changes(r, s.table) /\ Migration!Makes(r[5], s.table)
      BY <1>3, <2>1 DEF Migration!Changes, Migration!Makes, Migration!Create
    <2>3. 6 \notin Migration!Changes(r, s.table) /\ 7 \notin Migration!Changes(r, s.table)
      BY <1>3, <2>1 DEF Migration!Changes, Migration!Drop
    <2>4. IsLast(5, r, k, s.table)
      <3>1. \A j \in Migration!Changes(r, s.table) : j \in 1 .. 8
        BY <1>3 DEF Migration!Changes
      <3> QED
        BY <1>8, <2>3, <3>1 DEF IsLast
    <2> QED
      BY <1>6, <2>1, <2>2, <2>4
  <1> QED
    BY <1>4, <1>7, <1>8

\* A statement that does not raise leaves each table it is about the same,
\* whatever it was before.
LEMMA ExecuteLeaves ==
  ASSUME MigrationInv, SchemaInv, Migration!Execute
  PROVE  /\ schema' \in [Migration!Tables -> 0 .. 11]
         /\ \A t \in Migration!Tables :
                schema'[t] = IF runner.at \in Migration!Changes(Migration!Scripts[runner.version], t)
                             THEN LeftBy(runner.at, runner.version, t) ELSE schema[t]
  <1> DEFINE v == runner.version
             k == runner.at
             script == Migration!Scripts[v]
             s == Migration!Statement
  <1>1. /\ v \in 1 .. 11 /\ k \in 1 .. Len(script) /\ s = script[k] /\ runner.pc = "script"
        /\ schema' = Migration!SchemaAfter(s, schema, v)
        /\ schema \in [Migration!Tables -> 0 .. 11]
    BY ElevenScripts, SMTT(30)
    DEF MigrationInv, SchemaInv, Migration!TypeOK, Migration!Statement, Migration!Execute
  <1>2. /\ s.op \in {"create", "drop", "copy", "rename"}
        /\ s.op \in {"create", "drop"} => s.to = s.table
        /\ s.op = "rename" => schema[s.table] = v /\ s.table # s.to
    BY <1>1, Statements, RenamedWasCreated
  <1>3. s.table \in Migration!Tables /\ s.to \in Migration!Tables
    BY <1>1, StatementsTables
  <1>4. ASSUME NEW t
        PROVE  /\ k \in Migration!Changes(script, t) <=> s.op # "copy" /\ t \in {s.table, s.to}
               /\ LeftBy(k, v, t) = IF s.op \in {"create", "rename"} /\ s.to = t
                                    THEN v ELSE Migration!Absent
    <2>1. k \in DOMAIN script
      BY <1>1, ScriptDomains
    <2> QED
      BY <1>1, <2>1 DEF Migration!Changes, LeftBy, Migration!Makes
  <1> DEFINE Leaves(t) == IF k \in Migration!Changes(script, t) THEN LeftBy(k, v, t) ELSE schema[t]
  <1>5. \A t : Leaves(t) = IF s.op # "copy" /\ t \in {s.table, s.to}
                           THEN IF s.op \in {"create", "rename"} /\ s.to = t
                                THEN v ELSE Migration!Absent
                           ELSE schema[t]
    BY <1>4
  <1> HIDE DEF s, script, Leaves
  <1> SUFFICES /\ schema' \in [Migration!Tables -> 0 .. 11]
               /\ \A t \in Migration!Tables : schema'[t] = Leaves(t)
    BY DEF Leaves, script
  <1>6. CASE s.op = "create"
    <2>1. schema' = [schema EXCEPT ![s.table] = v]
      BY <1>1, <1>6 DEF Migration!SchemaAfter
    <2> QED
      BY <1>1, <1>2, <1>3, <1>5, <1>6, <2>1
  <1>7. CASE s.op = "drop"
    <2>1. schema' = [schema EXCEPT ![s.table] = 0]
      BY <1>1, <1>7 DEF Migration!SchemaAfter, Migration!Absent
    <2> QED
      BY <1>1, <1>2, <1>3, <1>5, <1>7, <2>1 DEF Migration!Absent
  <1>8. CASE s.op = "copy"
    <2>1. schema' = schema
      BY <1>1, <1>8 DEF Migration!SchemaAfter
    <2> QED
      BY <1>1, <1>5, <1>8, <2>1
  <1>9. CASE s.op = "rename"
    <2>1. schema' = [schema EXCEPT ![s.to] = v, ![s.table] = 0]
      BY <1>1, <1>2, <1>9 DEF Migration!SchemaAfter, Migration!Absent
    <2>2. /\ schema' \in [Migration!Tables -> 0 .. 11]
          /\ \A t \in Migration!Tables :
                 schema'[t] = IF t = s.table THEN 0 ELSE IF t = s.to THEN v ELSE schema[t]
      BY <1>1, <1>3, <2>1, SMTT(30)
    <2> QED
      BY <1>2, <1>5, <1>9, <2>2 DEF Migration!Absent
  <1> QED
    BY <1>2, <1>6, <1>7, <1>8, <1>9

LEMMA SchemaStarts == ASSUME Migration!Init PROVE SchemaInv
  <1>1. version \in 0 .. 11 /\ schema = Migration!SchemaOf[version] /\ runner = Migration!Down
    BY VersionsAssumption, ElevenScripts DEF Migration!Init
  <1>2. rows \in [Migration!TradeTables -> SUBSET Row]
    BY DEF Migration!Init
  <1>3. Migration!TypeOK
    BY <1>1, <1>2, SchemaOfTyped, ElevenScripts DEF Migration!TypeOK, Migration!Down
  <1> QED
    BY <1>1, <1>3 DEF Migration!Down, SchemaInv, Unfinished, InScript, NotCounted

\* No statement makes up a trade.
LEMMA RowsTyped ==
  ASSUME SchemaInv, Migration!Execute, Migration!Statement.op \in {"create", "drop", "copy", "rename"}
  PROVE  rows' \in [Migration!TradeTables -> SUBSET Row]
  <1> DEFINE s == Migration!Statement
  <1>1. rows' = Migration!RowsAfter(s, rows) /\ rows \in [Migration!TradeTables -> SUBSET Row]
    BY DEF Migration!Execute, SchemaInv, Migration!TypeOK
  <1> HIDE DEF s
  <1>2. CASE s.table \notin Migration!TradeTables
    BY <1>1, <1>2 DEF Migration!RowsAfter
  <1>3. CASE s.table \in Migration!TradeTables /\ s.op = "create"
    BY <1>1, <1>3 DEF Migration!RowsAfter
  <1>4. CASE s.table \in Migration!TradeTables /\ s.op = "drop"
    BY <1>1, <1>4 DEF Migration!RowsAfter
  <1>5. CASE s.table \in Migration!TradeTables /\ s.op = "copy"
    <2>1. rows' = [rows EXCEPT ![s.to] = rows[s.to] \cup rows[s.table]]
      BY <1>1, <1>5 DEF Migration!RowsAfter
    <2> QED
      BY <1>1, <1>5, <2>1
  <1>6. CASE s.table \in Migration!TradeTables /\ s.op = "rename"
    <2>1. rows' = [rows EXCEPT ![s.to] = rows[s.table], ![s.table] = {}]
      BY <1>1, <1>6 DEF Migration!RowsAfter
    <2> QED
      BY <1>1, <1>6, <2>1
  <1> QED
    BY <1>2, <1>3, <1>4, <1>5, <1>6 DEF s

LEMMA SchemaExecutes ==
  ASSUME MigrationInv, SchemaInv, Migration!Execute
  PROVE  SchemaInv'
  <1> DEFINE v == runner.version
             k == runner.at
             script == Migration!Scripts[v]
  <1>0. PICK n \in 1 .. 8 : n = Len(script)
    <2>1. v \in 1 .. 11 /\ k \in 1 .. Len(script)
      BY DEF MigrationInv, Migration!Execute
    <2>2. Len(script) \in 1 .. 8
      BY <2>1, Statements, ZenonT(30)
    <2> QED
      BY <2>2
  <1>1. /\ runner.pc = "script" /\ v \in 1 .. 11 /\ version = v - 1 /\ version + 1 = v
        /\ version \in 0 .. 10 /\ version' = version
        /\ k \in 1 .. n /\ k \in 1 .. 8 /\ k \in 1 .. Len(script)
        /\ schema \in [Migration!Tables -> 0 .. 11]
    <2>1. /\ runner.pc = "script" /\ v = version + 1 /\ version \in 0 .. 11 /\ v \in 1 .. 11
          /\ version' = version /\ k \in 1 .. Len(script)
          /\ schema \in [Migration!Tables -> 0 .. 11]
      BY ElevenScripts, SMTT(30) DEF MigrationInv, SchemaInv, Migration!TypeOK, Migration!Execute
    <2>2. k \in 1 .. n
      BY <1>0, <2>1
    <2>3. k \in 1 .. 8
      BY <2>2
    <2>4. version = v - 1 /\ version + 1 = v /\ version \in 0 .. 10
      BY <2>1
    <2> QED
      BY <2>1, <2>2, <2>3, <2>4
  <1>2. /\ schema' \in [Migration!Tables -> 0 .. 11]
        /\ \A t \in Migration!Tables :
               schema'[t] = IF k \in Migration!Changes(script, t) THEN LeftBy(k, v, t) ELSE schema[t]
    BY ExecuteLeaves
  <1>3. \/ k < n /\ runner' = [runner EXCEPT !.at = k + 1]
        \/ k = n /\ runner' = [runner EXCEPT !.pc = "next", !.at = 0]
    <2>1. IF k < n THEN runner' = [runner EXCEPT !.at = k + 1]
          ELSE runner' = [runner EXCEPT !.pc = "next", !.at = 0]
      BY <1>0 DEF Migration!Execute
    <2> QED
      BY <1>1, <2>1
  <1>4. runner \in [pc : {"down", "next", "script", "failed", "done"}, version : 0 .. 11, at : 0 .. 8]
    BY ElevenScripts DEF SchemaInv, Migration!TypeOK
  <1>5. /\ runner' \in [pc : {"down", "next", "script", "failed", "done"}, version : 0 .. 11, at : 0 .. 8]
        /\ runner'.version = v
        /\ \/ runner'.pc = "script" /\ runner'.at = k + 1
           \/ runner'.pc = "next" /\ k = n
    <2>1. CASE k < n /\ runner' = [runner EXCEPT !.at = k + 1]
      <3>1. k + 1 \in 0 .. 8
        BY <1>1, <2>1
      <3> QED
        BY <1>1, <1>4, <2>1, <3>1
    <2>2. CASE k = n /\ runner' = [runner EXCEPT !.pc = "next", !.at = 0]
      <3>1. runner' = [pc |-> "next", version |-> v, at |-> 0]
        BY <1>4, <2>2
      <3>2. v \in 0 .. 11 /\ 0 \in 0 .. 8
        BY <1>1
      <3> QED
        BY <2>2, <3>1, <3>2
    <2> QED
      BY <1>3, <2>1, <2>2
  <1>6. \A t \in Migration!Tables : Migration!Changes(script, t) \subseteq 1 .. 8
                                     /\ Migration!Changes(script, t) \subseteq 1 .. n
    BY <1>0, <1>1, ChangesAreStatements
  <1> HIDE DEF script
  <1>7. Migration!TypeOK'
    <2>1. Migration!Statement.op \in {"create", "drop", "copy", "rename"}
      BY <1>1, Statements DEF Migration!Statement, script
    <2>2. rows' \in [Migration!TradeTables -> SUBSET Row]
      BY <2>1, RowsTyped
    <2>3. version' \in 0 .. 11
      BY <1>1
    <2> QED
      BY <1>2, <1>5, <2>2, <2>3, ElevenScripts DEF Migration!TypeOK
  <1>8. Unfinished'
    <2> SUFFICES ASSUME NEW t \in Migration!Tables, Migration!Changes(script, t) = {}
                 PROVE  schema'[t] = Migration!SchemaOf[version][t]
      BY <1>1, ElevenScripts, SMTT(30) DEF Unfinished, script
    <2> QED
      BY <1>1, <1>2 DEF SchemaInv, Unfinished, script
  <1>9. ASSUME NEW t \in Migration!Tables, NEW i \in Migration!Changes(script, t),
               IsLast(i, script, k + 1, t)
        PROVE  schema'[t] = LeftBy(i, v, t)
    <2>1. i \in 1 .. 8
      BY <1>6
    <2>2. CASE i = k
      BY <1>2, <2>2
    <2>3. CASE i < k
      <3>1. k \notin Migration!Changes(script, t)
        BY <1>1, <1>9, <2>1, <2>3 DEF IsLast
      <3>2. IsLast(i, script, k, t)
        <4>1. ASSUME NEW j \in Migration!Changes(script, t), j < k PROVE j <= i
          <5>1. j \in 1 .. 8 /\ j < k + 1
            BY <1>1, <1>6, <4>1
          <5> QED
            BY <1>9, <5>1 DEF IsLast
        <4> QED
          BY <2>3, <4>1 DEF IsLast
      <3>3. schema[t] = LeftBy(i, v, t)
        BY <1>1, <3>2 DEF SchemaInv, InScript, script
      <3> QED
        BY <1>2, <3>1, <3>3
    <2> QED
      BY <1>1, <1>9, <2>1, <2>2, <2>3 DEF IsLast
  <1>10. InScript'
    BY <1>5, <1>9 DEF InScript, script
  <1>11. ASSUME runner'.pc = "next" PROVE schema' = Migration!SchemaOf[v]
    <2>1. k = n
      BY <1>5, <1>11
    <2>2. ASSUME NEW t \in Migration!Tables PROVE schema'[t] = Migration!SchemaOf[v][t]
      <3>1. CASE Migration!Changes(script, t) = {}
        <4>1. schema[t] = Migration!SchemaOf[version][t]
          BY <1>1, <3>1 DEF SchemaInv, Unfinished, script
        <4>2. Migration!SchemaOf[v][t] = Migration!SchemaOf[version][t]
          BY <1>1, <3>1, SchemaOfNext DEF script
        <4> QED
          BY <1>2, <3>1, <4>1, <4>2
      <3>2. CASE Migration!Changes(script, t) # {}
        <4> DEFINE i == Migration!Max(Migration!Changes(script, t))
        <4>1. i \in Migration!Changes(script, t) /\ \A j \in Migration!Changes(script, t) : j <= i
          <5>1. Migration!Changes(script, t) \subseteq 1 .. 11
            BY <1>6
          <5> QED
            BY <3>2, <5>1, HasMax
        <4>2. i < k + 1
          BY <1>1, <1>6, <2>1, <4>1
        <4>3. schema'[t] = LeftBy(i, v, t)
          BY <1>9, <4>1, <4>2 DEF IsLast
        <4>4. Migration!SchemaOf[v][t] = Migration!Left(v, t)
          BY <1>1, <3>2, SchemaOfNext DEF script
        <4> QED
          BY <4>3, <4>4 DEF Migration!Left, LeftBy, script
      <3> QED
        BY <3>1, <3>2
    <2>3. Migration!SchemaOf[v] \in [Migration!Tables -> 0 .. 11]
      <3>1. v \in 0 .. 11
        BY <1>1
      <3> QED
        BY <3>1, SchemaOfTyped
    <2> QED
      BY <1>2, <2>2, <2>3
  <1>12. NotCounted'
    BY <1>5, <1>11 DEF NotCounted
  <1> QED
    BY <1>7, <1>8, <1>10, <1>12 DEF SchemaInv

LEMMA SchemaSteps ==
  ASSUME MigrationInv, SchemaInv, Migration!Begin \/ Migration!Migrate \/ Migration!End
  PROVE  SchemaInv'
  <1> USE ElevenScripts
  <1>1. CASE Migration!Execute
    BY <1>1, SchemaExecutes
  <1>2. CASE Migration!Begin
    <2>1. Migration!TypeOK'
      BY <1>2 DEF Migration!Begin, SchemaInv, Migration!TypeOK
    <2> QED
      BY <1>2, <2>1 DEF Migration!Begin, SchemaInv, Unfinished, InScript, NotCounted
  <1>3. CASE Migration!NextScript
    <2>1. /\ runner.pc = "next" /\ runner.version \in 0 .. 10 /\ version' = runner.version
          /\ UNCHANGED <<schema, rows>>
          /\ runner' = [pc |-> "script", version |-> runner.version + 1, at |-> 1]
      BY <1>3 DEF Migration!NextScript, MigrationInv
    <2>2. Migration!TypeOK'
      BY <2>1 DEF SchemaInv, Migration!TypeOK
    <2>3. Unfinished'
      BY <2>1 DEF SchemaInv, Unfinished, NotCounted
    <2>4. InScript'
      <3>1. ASSUME NEW t, NEW i \in Migration!Changes(Migration!Scripts[runner.version + 1], t)
            PROVE  ~(i < 1)
        <4>1. runner.version + 1 \in 1 .. 11
          BY <2>1
        <4>2. i \in 1 .. 8
          BY <4>1, ChangesAreStatements
        <4> QED
          BY <4>2
      <3> QED
        BY <2>1, <3>1 DEF InScript, IsLast
    <2> QED
      BY <2>1, <2>2, <2>3, <2>4 DEF SchemaInv, NotCounted
  <1>4. CASE Migration!ExecuteRaises
    <2>1. runner' = [runner EXCEPT !.pc = "failed"] /\ UNCHANGED <<schema, rows, version>>
      BY <1>4 DEF Migration!ExecuteRaises
    <2> QED
      BY <2>1 DEF SchemaInv, Migration!TypeOK, Unfinished, InScript, NotCounted
  <1>5. CASE Migration!Finish
    <2>1. /\ runner.pc = "next" /\ runner.version = 11 /\ version' = 11
          /\ runner' = [runner EXCEPT !.pc = "done"] /\ UNCHANGED <<schema, rows>>
      BY <1>5 DEF Migration!Finish
    <2>2. Migration!TypeOK'
      BY <2>1 DEF SchemaInv, Migration!TypeOK
    <2>3. Unfinished'
      BY <2>1 DEF SchemaInv, Unfinished, NotCounted
    <2> QED
      BY <2>1, <2>2, <2>3 DEF SchemaInv, InScript, NotCounted, Migration!TypeOK
  <1>6. CASE Migration!End
    <2>1. runner' = Migration!Down /\ UNCHANGED <<schema, rows, version>>
      BY <1>6 DEF Migration!End
    <2> QED
      BY <2>1 DEF Migration!Down, SchemaInv, Migration!TypeOK, Unfinished, InScript, NotCounted
  <1> QED
    BY <1>1, <1>2, <1>3, <1>4, <1>5, <1>6 DEF Migration!Migrate

-----------------------------------------------------------------------------
(* The service account.                                                    *)

ServiceInv ==
    /\ ServiceKeys!TypeOK
    /\ startup.pc = "show" => startup.key \in Key

LEMMA ServiceStarts == ASSUME ServiceKeys!Init PROVE ServiceInv
  BY ConfigurationsAssumption
  DEF ServiceKeys!Init, ServiceKeys!Idle, ServiceKeys!Operations, ServiceKeys!Status,
      ServiceKeys!TypeOK, ServiceInv

\* An insert keeps the table of the keys well-formed.
LEMMA InsertTyped ==
  ASSUME NEW k \in Key, ServiceKeys!TypeOK, ServiceKeys!Insert(k)
  PROVE  keys' \in [Key -> [status : ServiceKeys!Status, since : Request \cup {None}]]
  BY DEF ServiceKeys!TypeOK, ServiceKeys!Insert, ServiceKeys!Status

LEMMA ServiceSteps ==
  ASSUME ServiceInv, ServiceKeys!Begin \/ ServiceKeys!StartUp \/ ServiceKeys!End
  PROVE  ServiceInv'
  <1> USE DEF ServiceInv, ServiceKeys!TypeOK
  <1>1. CASE ServiceKeys!Begin
    BY <1>1, ConfigurationsAssumption DEF ServiceKeys!Begin
  <1>2. CASE ServiceKeys!EnsureAccount
    BY <1>2 DEF ServiceKeys!EnsureAccount
  <1>3. CASE ServiceKeys!ListServiceKeys
    BY <1>3 DEF ServiceKeys!ListServiceKeys
  <1>4. CASE ServiceKeys!CreatePredefined
    <2>1. keys' \in [Key -> [status : ServiceKeys!Status, since : Request \cup {None}]]
      BY <1>4, KeyAssumption, InsertTyped DEF ServiceKeys!CreatePredefined
    <2> QED
      BY <1>4, <2>1, KeyAssumption DEF ServiceKeys!CreatePredefined
  <1>5. CASE ServiceKeys!CreatePredefinedRaises
    BY <1>5 DEF ServiceKeys!CreatePredefinedRaises
  <1>6. ASSUME NEW k \in Key, ServiceKeys!GenerateKey(k) PROVE ServiceInv'
    <2>1. keys' \in [Key -> [status : ServiceKeys!Status, since : Request \cup {None}]]
      BY <1>6, InsertTyped DEF ServiceKeys!GenerateKey
    <2>2. startup' = [startup EXCEPT !.pc = "show", !.key = k]
      BY <1>6 DEF ServiceKeys!GenerateKey
    <2> QED
      BY <1>6, <2>1, <2>2 DEF ServiceKeys!GenerateKey
  <1>7. CASE ServiceKeys!ShowKey
    BY <1>7 DEF ServiceKeys!ShowKey
  <1>8. CASE ServiceKeys!End
    BY <1>8 DEF ServiceKeys!End, ServiceKeys!Idle, ServiceKeys!Operations
  <1> QED
    BY <1>1, <1>2, <1>3, <1>4, <1>5, <1>6, <1>7, <1>8 DEF ServiceKeys!StartUp

-----------------------------------------------------------------------------
(* The process.                                                            *)

\* The order of lifespan: one part has finished before the next begins.
LifespanInv ==
    /\ runner.pc = "done" => version = Migration!Latest
    /\ startup.pc # "down" => runner.pc = "done"
    /\ stop.pc # "down" => startup.pc = "up"
    /\ stop.pc = "down" => running = {}

Inv == MigrationInv /\ SchemaInv /\ ServiceInv /\ SigningInv /\ SchedulerInv /\ LifespanInv

LEMMA LifespanStarts == ASSUME Init PROVE LifespanInv
  BY DEF Init, Migration!Init, Migration!Down, ServiceKeys!Init, Scheduler!Init,
     Scheduler!NotStopped, LifespanInv

LEMMA LifespanSteps == ASSUME Inv, Next PROVE LifespanInv'
  <1>1. CASE RunMigrations
    <2>1. /\ runner.pc # "done"
          /\ runner'.pc = "done" => version' = Migration!Latest
          /\ UNCHANGED <<service, scheduler>>
      <3>1. UNCHANGED <<service, scheduler>>
        BY <1>1 DEF RunMigrations
      <3>2. CASE Migration!Execute
        <4>1. runner.pc = "script" /\ runner'.pc \in {"script", "next"}
          BY <3>2 DEF Migration!Execute, Inv, MigrationInv
        <4> QED
          BY <3>1, <4>1
      <3>3. CASE ~Migration!Execute
        BY <1>1, <3>1, <3>3 DEF RunMigrations, Migration!Begin, Migration!Migrate,
           Migration!NextScript, Migration!ExecuteRaises, Migration!Finish, Inv, MigrationInv
      <3> QED
        BY <3>2, <3>3
    <2> QED
      BY <2>1 DEF Inv, LifespanInv, service, scheduler
  <1>2. CASE EnsureExists
    <2>1. /\ startup.pc # "up" /\ runner.pc = "done"
          /\ UNCHANGED <<migration, scheduler>>
      BY <1>2 DEF EnsureExists, ServiceKeys!Begin, ServiceKeys!StartUp, ServiceKeys!EnsureAccount,
         ServiceKeys!ListServiceKeys, ServiceKeys!CreatePredefined,
         ServiceKeys!CreatePredefinedRaises, ServiceKeys!GenerateKey, ServiceKeys!ShowKey
    <2> QED
      BY <2>1 DEF Inv, LifespanInv, migration, scheduler
  <1>3. CASE StartScheduler
    BY <1>3 DEF StartScheduler, Scheduler!Start, Scheduler!NotStopped, Inv, LifespanInv,
       migration, service
  <1>4. CASE ServeTokens \/ TokensExpire
    BY <1>4 DEF ServeTokens, TokensExpire, Inv, LifespanInv, migration, service, scheduler
  <1>5. CASE TriggerJob
    BY <1>5 DEF TriggerJob, Scheduler!Trigger, Inv, LifespanInv, migration, service
  <1>6. CASE Jobs
    <2>1. UNCHANGED <<migration, service>>
      BY <1>6 DEF Jobs
    <2>2. CASE Scheduler!StopCancels \/ Scheduler!StopResumes
      BY <2>1, <2>2, StopSteps DEF Inv, LifespanInv, migration, service
    <2>3. ASSUME NEW k \in Scheduler!Task, Scheduler!TaskSteps(k) \/ Scheduler!TaskIsPopped(k)
          PROVE  stop.pc # "down" /\ stop' = stop
      <3>1. ready # <<>>
        BY <2>3 DEF Scheduler!TaskSteps, Scheduler!TaskIsPopped, Scheduler!IsNext
      <3> QED
        BY <2>3, <3>1 DEF Scheduler!TaskSteps, Scheduler!TaskIsPopped, Inv, SchedulerInv, NoTasks
    <2>4. ASSUME Scheduler!Outside PROVE stop' = stop /\ running' \subseteq running
      BY <2>4 DEF Scheduler!Outside, Scheduler!ThreadEnds, Scheduler!TimerExpires
    <2>5. \/ \E k \in Scheduler!Task : Scheduler!TaskSteps(k) \/ Scheduler!TaskIsPopped(k)
          \/ Scheduler!StopCancels \/ Scheduler!StopResumes \/ Scheduler!Outside
      BY <1>6 DEF Jobs, Scheduler!Callback
    <2> QED
      BY <2>1, <2>2, <2>3, <2>4, <2>5 DEF Inv, LifespanInv, migration, service
  <1>7. CASE AskToStop
    BY <1>7 DEF AskToStop, Scheduler!RequestStop, Inv, SchedulerInv, LifespanInv, migration, service
  <1>8. CASE Exit \/ Crash
    BY <1>8 DEF Exit, Crash, Ends, Migration!End, Migration!Down, ServiceKeys!End, Scheduler!End,
       Scheduler!NotStopped, LifespanInv
  <1> QED
    BY <1>1, <1>2, <1>3, <1>4, <1>5, <1>6, <1>7, <1>8 DEF Next

\* What the theorems say of a step.
LEMMA ServerSteps ==
  ASSUME Inv, [Next]_serverVars
  PROVE  /\ Inv'
         /\ version >= 4 => \A t \in Migration!Trades : Migration!Kept(t) \subseteq Migration!Kept(t)'
         /\ Stopped => running' \subseteq running
  <1> DEFINE MigrationStep == Migration!Begin \/ Migration!Migrate \/ Migration!End
             ServiceStep == ServiceKeys!Begin \/ ServiceKeys!StartUp \/ ServiceKeys!End
             SigningStep == \/ \E t \in Thread : Signing!Arrives(t) \/ Signing!Handle(t)
                            \/ \E pair \in Pair : Signing!Expire(pair)
                            \/ Signing!End
             SchedulerStep ==
                 \/ Scheduler!Start \/ Scheduler!RequestStop \/ Scheduler!End
                 \/ \E k \in Triggered : Scheduler!Trigger(k)
                 \/ Scheduler!Outside \/ Scheduler!Callback
  <1>1. /\ MigrationStep \/ UNCHANGED migration
        /\ ServiceStep \/ UNCHANGED service
        /\ SigningStep \/ UNCHANGED signing
        /\ SchedulerStep \/ UNCHANGED scheduler
    BY DEF Next, RunMigrations, EnsureExists, StartScheduler, ServeTokens, TokensExpire, TriggerJob,
       Jobs, AskToStop, Exit, Crash, Ends, serverVars
  <1>2. /\ MigrationInv' /\ SchemaInv'
        /\ version >= 4 => \A t \in Migration!Trades : Migration!Kept(t) \subseteq Migration!Kept(t)'
    <2>1. CASE MigrationStep
      BY <2>1, MigrationSteps, SchemaSteps DEF Inv
    <2>2. CASE UNCHANGED migration
      <3>1. /\ MigrationInv'
            /\ version >= 4 => \A t \in Migration!Trades : Migration!Kept(t) \subseteq Migration!Kept(t)'
        BY <2>2 DEF Inv, migration, MigrationInv, AtStatement, Rebuilding, Migration!Kept
      <3>2. SchemaInv'
        BY <2>2 DEF Inv, migration, SchemaInv, Migration!TypeOK, Unfinished, InScript, NotCounted
      <3> QED
        BY <3>1, <3>2
    <2> QED
      BY <1>1, <2>1, <2>2
  <1>3. SigningInv'
    <2>1. CASE SigningStep
      BY <2>1, SigningSteps DEF Inv
    <2>2. CASE UNCHANGED signing
      BY <2>2 DEF Inv, signing, SigningInv, Signing!TypeOK, OnePair, BeforePair, AfterPair, Maker,
         Signing!MakesPair
    <2> QED
      BY <1>1, <2>1, <2>2
  <1>4. SchedulerInv' /\ (Stopped => running' \subseteq running)
    <2>1. CASE SchedulerStep
      <3>1. CASE Scheduler!Callback
        <4>1. \/ \E k \in Scheduler!Task : Scheduler!TaskSteps(k) \/ Scheduler!TaskIsPopped(k)
              \/ Scheduler!StopCancels \/ Scheduler!StopResumes
          BY <3>1 DEF Scheduler!Callback
        <4> QED
          BY <4>1, TaskSteps, TaskIsPopped, StopSteps DEF Inv
      <3>2. CASE ~Scheduler!Callback
        BY <2>1, <3>2, OutsideSteps DEF Inv
      <3> QED
        BY <3>1, <3>2
    <2>2. CASE UNCHANGED scheduler
      BY <2>2 DEF Inv, scheduler, SchedulerInv, Scheduler!TypeOK, InLoop, Pending, NoTasks, InTable,
         AllCancelled, Stopped
    <2> QED
      BY <1>1, <2>1, <2>2
  <1>5. LifespanInv'
    <2>1. CASE UNCHANGED serverVars
      BY <2>1 DEF serverVars, migration, service, scheduler, Inv, LifespanInv
    <2> QED
      BY <2>1, LifespanSteps
  <1>6. ServiceInv'
    <2>1. CASE ServiceStep
      BY <2>1, ServiceSteps DEF Inv
    <2>2. CASE UNCHANGED service
      BY <2>2 DEF Inv, service, ServiceInv, ServiceKeys!TypeOK
    <2> QED
      BY <1>1, <2>1, <2>2
  <1> QED
    BY <1>2, <1>3, <1>4, <1>5, <1>6 DEF Inv

LEMMA Invariance == Spec => []Inv
  <1>1. Init => Inv
    BY MigrationStarts, SchemaStarts, ServiceStarts, SigningStarts, SchedulerStarts,
       LifespanStarts DEF Init, Inv
  <1>2. Inv /\ [Next]_serverVars => Inv'
    BY ServerSteps
  <1> QED
    BY <1>1, <1>2, PTL DEF Spec

\* Whatever crashes, every table, column, file and local variable holds what it
\* is declared to hold; no task is twice in the table, and of no task do two
\* steps wait in the loop.
THEOREM TypeCorrect == Spec => []TypeOK
  <1>1. Inv => TypeOK
    BY DEF Inv, SchemaInv, ServiceInv, SigningInv, SchedulerInv, TypeOK
  <1> QED
    BY <1>1, Invariance, PTL

\* However many threads ask for tokens, and whatever ends a process between
\* the accesses to the key files: a token is refused only after two requests
\* made pairs side by side, or a crash cut the writing of the second file.
THEOREM IssuedTokensAreAccepted == Spec => []TokensAreAccepted
  <1>1. Inv => TokensAreAccepted
    BY DEF Inv, SigningInv, OnePair, BeforePair, AfterPair, Maker, Signing!MakesPair,
       TokensAreAccepted
  <1> QED
    BY <1>1, Invariance, PTL

\* Whatever tasks, triggered runs, timers and callbacks are pending when stop
\* cancels the tasks, none of them begins a run of the job.
THEOREM NoRunAfterStop == Spec => NothingStartsAfterStop
  <1>1. Inv /\ [Next]_serverVars
          => [stop.pc \in {"waits", "over", "raised"} => running' \subseteq running]_scheduler
    BY ServerSteps DEF Stopped
  <1> QED
    BY <1>1, Invariance, PTL DEF Spec, NothingStartsAfterStop

\* From whatever release a database comes and wherever crashes cut the scripts
\* since version 4, every trade stays in its table or in the one that replaces
\* it.
THEOREM TradesAreNotLost == Spec => NoTradeLost
  <1>1. Inv /\ [Next]_serverVars
          => [version >= 4 => \A t \in Migration!Trades :
                                 Migration!Kept(t) \subseteq Migration!Kept(t)']_rows
    BY ServerSteps
  <1> QED
    BY <1>1, Invariance, PTL DEF Spec, NoTradeLost, Migration!NoTradeLost

\* Requests are served and the job runs only in a process whose migrations have
\* reached the latest version and whose service account is ensured, after any
\* crashes in between.
StartedInOrder ==
    (Serving \/ running # {}) =>
        /\ runner.pc = "done" /\ version = Migration!Latest
        /\ startup.pc = "up"

THEOREM ServesAfterStart == Spec => []StartedInOrder
  <1>1. Inv => StartedInOrder
    BY DEF Inv, LifespanInv, StartedInOrder, Serving
  <1> QED
    BY <1>1, Invariance, PTL

\* And its schema is then the one that the scripts leave when none of them is
\* cut, wherever crashes have cut them and from whatever release the database
\* comes.
THEOREM ServesOnLatestSchema == Spec => []ServesLatestSchema
  <1>1. Inv => ServesLatestSchema
    <2> SUFFICES ASSUME Inv, Serving \/ running # {} PROVE ServesLatestSchema
      BY DEF ServesLatestSchema
    <2>1. version = Migration!Latest
      BY DEF Inv, LifespanInv, Serving
    <2>2. schema \in [Migration!Tables -> 0 .. Migration!Latest]
      BY DEF Inv, SchemaInv, Migration!TypeOK
    <2>3. Migration!SchemaOf[Migration!Latest] \in [Migration!Tables -> 0 .. Migration!Latest]
      BY ElevenScripts, SchemaOfTyped
    <2>4. \A t \in Migration!Tables : schema[t] = Migration!SchemaOf[Migration!Latest][t]
      BY <2>1 DEF Inv, SchemaInv, Unfinished
    <2>5. schema = Migration!SchemaOf[Migration!Latest]
      BY <2>2, <2>3, <2>4
    <2> QED
      BY <2>1, <2>5 DEF ServesLatestSchema
  <1> QED
    BY <1>1, Invariance, PTL
=============================================================================
