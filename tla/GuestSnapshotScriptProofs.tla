---------------------- MODULE GuestSnapshotScriptProofs ----------------------
(***************************************************************************)
(* The handlers of the VM worker keep to their scripts: every step finds   *)
(* the flags it needs, asks the units only for what they can do, and a     *)
(* restored VM is gated until the guest acknowledges.                      *)
(***************************************************************************)
EXTENDS GuestSnapshotInvariant, SequenceTheorems, TLAPS

(* The time a prover may take for one obligation. *)
USE SMTT(20), ZenonT(20)

-----------------------------------------------------------------------------
(* Scripts. *)

LEMMA NextStep ==
  ASSUME NEW m, NEW v, NEW g, NEW r, NEW s, Chain(m, v, g, r, s), s # <<>>
  PROVE  /\ Chain(m, v, g, r, Tail(s)) /\ Head(s) \in Steps /\ Owner(m, v, Head(s))
         /\ Tail(s) = <<>> => Ends(m, Head(s))
         /\ Tail(s) # <<>> => /\ Follows(m, g, r, Head(s), Head(Tail(s)))
                              /\ Head(Tail(s)) \in Steps /\ Owner(m, v, Head(Tail(s)))
<1> DEFINE t == Tail(s)
<1>1. s \in Seq(Steps) /\ Len(s) \in Nat \ {0} /\ Head(s) = s[1] /\ s[1] \in Steps
  BY DEF Chain, Links
<1>2. /\ t \in Seq(Steps) /\ Len(t) = Len(s) - 1
      /\ \A i \in 1 .. Len(s) - 1 : t[i] = s[i + 1]
  BY <1>1
<1>3. t # <<>> => Len(t) \in Nat \ {0} /\ Head(t) = t[1] /\ t[1] \in Steps
  BY <1>2
<1> HIDE DEF t
<1>4. t = <<>> => Len(s) = 1
  BY <1>1, <1>2, EmptySeq
<1>5. \A i \in 1 .. Len(t) : Owner(m, v, t[i])
  BY <1>1, <1>2 DEF Chain, Links
<1>6. \A i \in 1 .. Len(t) - 1 : Follows(m, g, r, t[i], t[i + 1])
  <2> SUFFICES ASSUME NEW i \in 1 .. Len(t) - 1 PROVE Follows(m, g, r, t[i], t[i + 1])
    OBVIOUS
  <2>1. t[i] = s[i + 1] /\ t[i + 1] = s[i + 2] /\ i + 1 \in 1 .. Len(s) - 1
    BY <1>1, <1>2
  <2>2. Follows(m, g, r, s[i + 1], s[i + 1 + 1])
    BY <2>1 DEF Chain, Links
  <2> QED
    BY <2>1, <2>2
<1>7. t # <<>> => Ends(m, t[Len(t)])
  BY <1>1, <1>2, <1>3 DEF Chain, Links
<1>8. t # <<>> => Follows(m, g, r, s[1], t[1]) /\ Owner(m, v, t[1])
  BY <1>1, <1>2, <1>3 DEF Chain, Links
<1>9. Owner(m, v, s[1]) /\ (Len(s) = 1 => Ends(m, s[1]))
  BY <1>1 DEF Chain, Links
<1>10. Chain(m, v, g, r, t)
  BY <1>2, <1>5, <1>6, <1>7 DEF Chain, Links
<1> QED
  BY <1>1, <1>3, <1>4, <1>8, <1>9, <1>10 DEF t

LEMMA Unchained ==
  ASSUME NEW m, NEW v, NEW g, NEW r, NEW q, NEW s, Chain(m, v, g, r, s), q => r
  PROVE  Chain(m, v, g, q, s)
  BY DEF Chain, Links, Follows

LEMMA Single ==
  ASSUME NEW m, NEW v, NEW g, NEW r, NEW a \in Steps, Owner(m, v, a)
  PROVE  Part(m, v, g, r, <<a>>, a, a)
<1>1. <<a>> \in Seq(Steps) /\ Len(<<a>>) = 1 /\ <<a>>[1] = a /\ <<a>> # <<>>
  OBVIOUS
<1>2. \A i \in 1 .. Len(<<a>>) : Owner(m, v, <<a>>[i])
  <2>1. \A i \in 1 .. 1 : i = 1
    OBVIOUS
  <2> QED
    BY <1>1, <2>1
<1>3. \A i \in 1 .. Len(<<a>>) - 1 : FALSE
  BY <1>1
<1> QED
  BY <1>1, <1>2, <1>3 DEF Part, Links

LEMMA Joined ==
  ASSUME NEW m, NEW v, NEW g, NEW r, NEW s, NEW t, NEW a, NEW b, NEW c, NEW d,
         Part(m, v, g, r, s, a, b), Part(m, v, g, r, t, c, d), Follows(m, g, r, b, c)
  PROVE  Part(m, v, g, r, s \o t, a, d)
<1> DEFINE st == s \o t
<1>1. s \in Seq(Steps) /\ t \in Seq(Steps) /\ Len(s) \in Nat \ {0} /\ Len(t) \in Nat \ {0}
  BY EmptySeq DEF Part, Links
<1>2. /\ st \in Seq(Steps) /\ Len(st) = Len(s) + Len(t)
      /\ \A i \in 1 .. Len(s) + Len(t) : st[i] = IF i <= Len(s) THEN s[i] ELSE t[i - Len(s)]
  BY <1>1, ConcatProperties
<1> HIDE DEF st
<1>3. \A i \in 1 .. Len(s) : st[i] = s[i]
  BY <1>1, <1>2
<1>4. \A i \in 1 .. Len(t) : st[Len(s) + i] = t[i]
  BY <1>1, <1>2
<1>5. \A i \in 1 .. Len(st) : Owner(m, v, st[i])
  <2>1. \A i \in 1 .. Len(st) : \/ i \in 1 .. Len(s) /\ st[i] = s[i]
                                \/ i - Len(s) \in 1 .. Len(t) /\ st[i] = t[i - Len(s)]
    BY <1>1, <1>2
  <2> QED
    BY <2>1 DEF Part, Links
<1>6. \A i \in 1 .. Len(st) - 1 : Follows(m, g, r, st[i], st[i + 1])
  <2> SUFFICES ASSUME NEW i \in 1 .. Len(st) - 1 PROVE Follows(m, g, r, st[i], st[i + 1])
    OBVIOUS
  <2>1. CASE i < Len(s)
    <3>1. st[i] = s[i] /\ st[i + 1] = s[i + 1] /\ i \in 1 .. Len(s) - 1
      BY <1>1, <1>2, <1>3, <2>1
    <3> QED
      BY <3>1 DEF Part, Links
  <2>2. CASE i = Len(s)
    <3>1. Len(s) \in 1 .. Len(s) /\ 1 \in 1 .. Len(t)
      BY <1>1
    <3>2. st[i] = s[Len(s)] /\ st[i + 1] = t[1]
      BY <1>3, <1>4, <2>2, <3>1
    <3> QED
      BY <3>2 DEF Part
  <2>3. CASE i > Len(s)
    <3>1. /\ i - Len(s) \in 1 .. Len(t) - 1 /\ st[i] = t[i - Len(s)]
          /\ st[i + 1] = t[(i - Len(s)) + 1]
      BY <1>1, <1>2, <2>3
    <3> QED
      BY <3>1 DEF Part, Links
  <2> QED
    BY <1>1, <1>2, <2>1, <2>2, <2>3
<1>7. st # <<>> /\ st[1] = a /\ st[Len(st)] = d
  BY <1>1, <1>2 DEF Part
<1> QED
  BY <1>2, <1>5, <1>6, <1>7 DEF Part, Links, st

LEMMA Whole ==
  ASSUME NEW m, NEW v, NEW g, NEW r, NEW s, NEW a, NEW b, Part(m, v, g, r, s, a, b), Ends(m, b)
  PROVE  Chain(m, v, g, r, s) /\ s # <<>> /\ Head(s) = a
  BY DEF Part, Links, Chain

LEMMA NoSteps ==
  /\ \A m, v, g, r : Chain(m, v, g, r, <<>>)
  /\ \A s \in Seq(Steps) : s \o <<>> = s /\ <<>> \o s = s
<1>1. <<>> \in Seq(Steps) /\ \A i \in 1 .. Len(<<>>) : FALSE
  OBVIOUS
<1>2. \A i \in 1 .. Len(<<>>) - 1 : FALSE
  OBVIOUS
<1>3. \A s \in Seq(Steps) : s \o <<>> = s /\ <<>> \o s = s
  BY ConcatEmptySeq
<1> QED
  BY <1>1, <1>2, <1>3 DEF Chain, Links

LEMMA StartPart ==
  ASSUME NEW m \in Starters
  PROVE  Part(m, microvm, gateTimeout, readySink, StartSteps, IF gateTimeout THEN "gate" ELSE "start", "go")
<1> DEFINE P(s, a, b) == Part(m, microvm, gateTimeout, readySink, s, a, b)
           A == (IF gateTimeout THEN <<"gate">> ELSE <<>>) \o <<"start">>
           B == A \o (IF readySink THEN <<"ready">> ELSE <<>>)
           first == IF gateTimeout THEN "gate" ELSE "start"
<1>1. P(<<"gate">>, "gate", "gate") /\ P(<<"start">>, "start", "start")
      /\ P(<<"ready">>, "ready", "ready") /\ P(<<"go">>, "go", "go")
  BY Single DEF Owner, Steps, Starters
<1>2. P(A, first, "start")
  <2>1. CASE gateTimeout
    BY ZenonT(30), <1>1, <2>1, Joined DEF Follows, Starters
  <2>2. CASE ~gateTimeout
    BY <1>1, <2>2, NoSteps DEF Part, Links
  <2> QED
    BY <2>1, <2>2
<1> HIDE DEF A
<1>3. P(B, first, IF readySink THEN "ready" ELSE "start")
  <2>1. CASE readySink
    <3>1. Follows(m, gateTimeout, readySink, "start", "ready")
      BY DEF Follows, Starters
    <3> QED
      BY ZenonT(30), <1>1, <1>2, <2>1, <3>1, Joined
  <2>2. CASE ~readySink
    BY <1>2, <2>2, NoSteps DEF Part, Links
  <2> QED
    BY <2>1, <2>2
<1>4. StartSteps = B \o <<"go">>
  BY DEF StartSteps, A
<1> HIDE DEF B
<1>5. Follows(m, gateTimeout, readySink, IF readySink THEN "ready" ELSE "start", "go")
  BY DEF Follows, Starters
<1>6. P(B \o <<"go">>, first, "go")
  BY <1>1, <1>3, <1>5, Joined
<1> QED
  BY <1>4, <1>6

(* A script that ends in a restart of the VM, if it ran. *)
LEMMA RestartPart ==
  ASSUME NEW m \in Resets, NEW s, NEW a, NEW b \in {"host", "restore"},
         Part(m, microvm, gateTimeout, readySink, s, a, b)
  PROVE  Chain(m, microvm, gateTimeout, readySink, s \o RestartSteps) /\ s \o RestartSteps # <<>>
         /\ Head(s \o RestartSteps) = a
<1>1. CASE vmRunning
  <2>1. m \in Starters /\ RestartSteps = StartSteps
    BY <1>1 DEF Resets, Starters, RestartSteps
  <2>2. Follows(m, gateTimeout, readySink, b, IF gateTimeout THEN "gate" ELSE "start")
    BY DEF Follows
  <2>3. Part(m, microvm, gateTimeout, readySink, s \o StartSteps, a, "go")
    BY <2>1, <2>2, StartPart, Joined
  <2> QED
    BY <2>1, <2>3, Whole DEF Ends
<1>2. CASE ~vmRunning
  <2>1. s \o RestartSteps = s
    BY <1>2, NoSteps DEF RestartSteps, Part, Links
  <2> QED
    BY <2>1, Whole DEF Ends
<1> QED
  BY <1>1, <1>2

LEMMA ResetPart ==
  ASSUME NEW m \in Resets, NEW b \in {"reset", "save"}, Owner(m, microvm, b)
  PROVE  Part(m, microvm, gateTimeout, readySink, PauseSteps \o <<b>>, IF vmRunning THEN "pause" ELSE b, b)
<1>1. Part(m, microvm, gateTimeout, readySink, <<"pause">>, "pause", "pause")
      /\ Part(m, microvm, gateTimeout, readySink, <<b>>, b, b)
  BY Single DEF Owner, Steps, Resets
<1>2. CASE vmRunning
  BY <1>1, <1>2, Joined DEF Follows, PauseSteps
<1>3. CASE ~vmRunning
  BY <1>1, <1>3, NoSteps DEF Part, Links, PauseSteps
<1> QED
  BY <1>2, <1>3

LEMMA Pair ==
  ASSUME NEW a \in Steps, NEW b \in Steps
  PROVE  <<a>> \o <<b>> = <<a, b>>
<1> DEFINE s == <<a>> \o <<b>>
           t == <<a, b>>
<1>1. /\ <<a>> \in Seq(Steps) /\ Len(<<a>>) = 1
      /\ <<a>>[1] = a
      /\ <<b>> \in Seq(Steps) /\ Len(<<b>>) = 1 /\ <<b>>[1] = b
  OBVIOUS
<1>2. t \in Seq(Steps) /\ Len(t) = 2 /\ t[1] = a /\ t[2] = b
  OBVIOUS
<1>3. /\ s \in Seq(Steps) /\ Len(s) = 2
      /\ \A i \in 1 .. 2 : s[i] = IF i <= 1 THEN <<a>>[i] ELSE <<b>>[i - 1]
  BY <1>1, ConcatProperties
<1> HIDE DEF s, t
<1>4. \A i \in 1 .. 2 : i = 1 \/ i = 2
  OBVIOUS
<1>5. s[1] = a /\ s[2] = b
  BY <1>1, <1>3
<1> QED
  BY ZenonT(30), <1>2, <1>3, <1>4, <1>5, SeqEqual DEF s, t

LEMMA Triple ==
  ASSUME NEW a \in Steps, NEW b \in Steps, NEW c \in Steps
  PROVE  <<a, b>> \o <<c>> = <<a, b, c>>
<1> DEFINE s == <<a, b>> \o <<c>>
           t == <<a, b, c>>
<1>1. /\ <<a, b>> \in Seq(Steps) /\ Len(<<a, b>>) = 2
      /\ <<a, b>>[1] = a /\ <<a, b>>[2] = b
      /\ <<c>> \in Seq(Steps) /\ Len(<<c>>) = 1 /\ <<c>>[1] = c
  OBVIOUS
<1>2. t \in Seq(Steps) /\ Len(t) = 3 /\ t[1] = a /\ t[2] = b /\ t[3] = c
  OBVIOUS
<1>3. /\ s \in Seq(Steps) /\ Len(s) = 3
      /\ \A i \in 1 .. 3 : s[i] = IF i <= 2 THEN <<a, b>>[i] ELSE <<c>>[i - 2]
  BY <1>1, ConcatProperties
<1> HIDE DEF s, t
<1>4. \A i \in 1 .. 3 : i = 1 \/ i = 2 \/ i = 3
  OBVIOUS
<1>5. s[1] = a /\ s[2] = b /\ s[3] = c
  BY <1>1, <1>3
<1> QED
  BY ZenonT(30), <1>2, <1>3, <1>4, <1>5, SeqEqual DEF s, t

LEMMA Quadruple ==
  ASSUME NEW a \in Steps, NEW b \in Steps, NEW c \in Steps, NEW d \in Steps
  PROVE  <<a, b, c>> \o <<d>> = <<a, b, c, d>>
<1> DEFINE s == <<a, b, c>> \o <<d>>
           t == <<a, b, c, d>>
<1>1. /\ <<a, b, c>> \in Seq(Steps) /\ Len(<<a, b, c>>) = 3
      /\ <<a, b, c>>[1] = a /\ <<a, b, c>>[2] = b /\ <<a, b, c>>[3] = c
      /\ <<d>> \in Seq(Steps) /\ Len(<<d>>) = 1 /\ <<d>>[1] = d
  OBVIOUS
<1>2. t \in Seq(Steps) /\ Len(t) = 4 /\ t[1] = a /\ t[2] = b /\ t[3] = c /\ t[4] = d
  OBVIOUS
<1>3. /\ s \in Seq(Steps) /\ Len(s) = 4
      /\ \A i \in 1 .. 4 : s[i] = IF i <= 3 THEN <<a, b, c>>[i] ELSE <<d>>[i - 3]
  BY <1>1, ConcatProperties
<1> HIDE DEF s, t
<1>4. \A i \in 1 .. 4 : i = 1 \/ i = 2 \/ i = 3 \/ i = 4
  OBVIOUS
<1>5. s[1] = a /\ s[2] = b /\ s[3] = c /\ s[4] = d
  BY <1>1, <1>3
<1> QED
  BY ZenonT(30), <1>2, <1>3, <1>4, <1>5, SeqEqual DEF s, t

LEMMA ResetChain ==
  ASSUME NEW m \in {"Reset", "PowerReset"}
  PROVE  /\ Chain(m, microvm, gateTimeout, readySink, ResetSteps) /\ ResetSteps # <<>>
         /\ Head(ResetSteps) = IF vmRunning THEN "pause" ELSE "reset"
<1> DEFINE P(s, a, b) == Part(m, microvm, gateTimeout, readySink, s, a, b)
           first == IF vmRunning THEN "pause" ELSE "reset"
           A == PauseSteps \o <<"reset">>
           X == IF microvm THEN <<>> ELSE <<"assign", "unassign">>
           B == A \o X
           C == B \o <<"host">>
<1>1. m \in Resets /\ Owner(m, microvm, "reset")
  BY DEF Resets, Owner
<1>2. P(A, first, "reset")
  BY <1>1, ResetPart
<1>3. P(<<"host">>, "host", "host")
  BY <1>1, Single DEF Owner, Steps
<1>4. ASSUME ~microvm
      PROVE  P(<<"assign">> \o <<"unassign">>, "assign", "unassign")
  <2>1. P(<<"assign">>, "assign", "assign") /\ P(<<"unassign">>, "unassign", "unassign")
    BY <1>1, <1>4, Single DEF Owner, Steps
  <2> QED
    BY <2>1, Joined DEF Follows
<1>5. <<"assign">> \o <<"unassign">> = <<"assign", "unassign">>
  BY Pair DEF Steps
<1> HIDE DEF A
<1>6. P(B, first, IF microvm THEN "reset" ELSE "unassign")
  <2>1. CASE microvm
    BY ZenonT(30), <1>2, <2>1, NoSteps DEF Part, Links
  <2>2. CASE ~microvm
    <3>1. Follows(m, gateTimeout, readySink, "reset", "assign")
      BY DEF Follows
    <3>2. P(A \o <<"assign", "unassign">>, first, "unassign")
      BY ZenonT(30), <1>2, <1>4, <1>5, <2>2, <3>1, Joined
    <3> QED
      BY <2>2, <3>2
  <2> QED
    BY <2>1, <2>2
<1> HIDE DEF B
<1>7. Follows(m, gateTimeout, readySink, IF microvm THEN "reset" ELSE "unassign", "host")
  BY DEF Follows
<1>8. P(C, first, "host")
  BY <1>3, <1>6, <1>7, Joined
<1>9. ResetSteps = C \o RestartSteps
  BY DEF ResetSteps, A, B
<1> HIDE DEF C
<1> QED
  BY <1>1, <1>8, <1>9, RestartPart

LEMMA PulseChain ==
  /\ Chain("PulseSaveRestore", microvm, gateTimeout, readySink, Script("PulseSaveRestore"))
  /\ Script("PulseSaveRestore") # <<>>
  /\ Head(Script("PulseSaveRestore")) = IF vmRunning THEN "pause" ELSE "save"
<1> DEFINE m == "PulseSaveRestore"
           P(s, a, b) == Part(m, microvm, gateTimeout, readySink, s, a, b)
           first == IF vmRunning THEN "pause" ELSE "save"
           S == <<"save", "reset", "restore">>
<1>1. m \in Resets /\ Owner(m, microvm, "save") /\ Owner(m, microvm, "reset") /\ Owner(m, microvm, "restore") /\ Owner(m, microvm, "pause")
  BY DEF Resets, Owner
<1>2. P(<<"pause">>, "pause", "pause") /\ P(<<"save">>, "save", "save")
      /\ P(<<"reset">>, "reset", "reset") /\ P(<<"restore">>, "restore", "restore")
  BY <1>1, Single DEF Steps
<1>3. P(<<"save">> \o <<"reset">>, "save", "reset")
  BY <1>2, Joined DEF Follows
<1>4. P((<<"save">> \o <<"reset">>) \o <<"restore">>, "save", "restore")
  BY <1>2, <1>3, Joined DEF Follows
<1>5. P(S, "save", "restore")
  <2>1. <<"save">> \o <<"reset">> = <<"save", "reset">>
    BY Pair DEF Steps
  <2>2. <<"save", "reset">> \o <<"restore">> = S
    BY ZenonT(30), Triple DEF Steps
  <2> QED
    BY ZenonT(30), <1>4, <2>1, <2>2
<1>7. Script(m) = PauseSteps \o S \o RestartSteps
  BY DEF Script
<1> HIDE DEF S
<1>6. P(PauseSteps \o S, first, "restore")
  <2>1. CASE vmRunning
    <3>1. P(<<"pause">> \o S, "pause", "restore")
      BY <1>2, <1>5, Joined DEF Follows
    <3> QED
      BY <2>1, <3>1 DEF PauseSteps
  <2>2. CASE ~vmRunning
    <3>1. <<>> \o S = S
      BY <1>5, NoSteps DEF Part, Links
    <3> QED
      BY <1>5, <2>2, <3>1 DEF PauseSteps
  <2> QED
    BY <2>1, <2>2
<1> QED
  BY ZenonT(30), <1>1, <1>6, <1>7, RestartPart

LEMMA OtherChains ==
  ASSUME NEW m \in {"Save", "AddDevice", "QuiesceForSnapshot", "ResumeAfterFailedSnapshot",
                    "ReleaseSnapshotBoundary", "Restart"}
  PROVE  Chain(m, microvm, gateTimeout, readySink, Script(m)) /\ Script(m) # <<>> /\ Head(Script(m)) = First(m)
<1> DEFINE P(s, a, b) == Part(m, microvm, gateTimeout, readySink, s, a, b)
<1>1. CASE m = "Save"
  <2>1. P(<<"save">>, "save", "save")
    BY <1>1, Single DEF Owner, Steps
  <2> QED
    BY <1>1, <2>1, Whole DEF Script, First, Ends
<1>2. CASE m = "AddDevice"
  <2>1. P(<<"start">>, "start", "start") /\ P(<<"attach">>, "attach", "attach")
    BY <1>2, Single DEF Owner, Steps
  <2>2. P(<<"start">> \o <<"attach">>, "start", "attach")
    BY <1>2, <2>1, Joined DEF Follows
  <2>3. <<>> \o <<"attach">> = <<"attach">>
    BY <2>1, NoSteps DEF Part, Links
  <2>4. Script(m) = (IF unitsRunning THEN <<"start">> ELSE <<>>) \o <<"attach">>
    BY <1>2 DEF Script
  <2>5. CASE unitsRunning
    <3>1. Script(m) = <<"start">> \o <<"attach">>
      BY <2>4, <2>5
    <3> QED
      <4>1. P(Script(m), "start", "attach")
        BY <2>2, <3>1, Zenon
      <4> QED
        BY <1>2, <2>5, <4>1, Whole DEF First, Ends
  <2>6. CASE ~unitsRunning
    BY <1>2, <2>1, <2>3, <2>4, <2>6, Whole DEF First, Ends
  <2> QED
    BY <2>5, <2>6
<1>3. CASE m = "QuiesceForSnapshot"
  <2>1. P(<<"quiesce">>, "quiesce", "quiesce") /\ P(<<"host">>, "host", "host")
        /\ P(<<"save">>, "save", "save")
    BY <1>3, Single DEF Owner, Steps
  <2>2. P(<<"quiesce">> \o <<"host">>, "quiesce", "host")
    BY <2>1, Joined DEF Follows
  <2>3. P((<<"quiesce">> \o <<"host">>) \o <<"save">>, "quiesce", "save")
    BY <2>1, <2>2, Joined DEF Follows
  <2>4. P(((<<"quiesce">> \o <<"host">>) \o <<"save">>) \o <<"host">>, "quiesce", "host")
    BY <2>1, <2>3, Joined DEF Follows
  <2>5. P(<<"quiesce", "host", "save", "host">>, "quiesce", "host")
    <3>1. <<"quiesce">> \o <<"host">> = <<"quiesce", "host">>
      BY Pair DEF Steps
    <3>2. <<"quiesce", "host">> \o <<"save">> = <<"quiesce", "host", "save">>
      BY ZenonT(30), Triple DEF Steps
    <3>3. <<"quiesce", "host", "save">> \o <<"host">> = <<"quiesce", "host", "save", "host">>
      <4>1. "quiesce" \in Steps /\ "host" \in Steps /\ "save" \in Steps
        BY DEF Steps
      <4> QED
        BY <4>1, Quadruple, Zenon
    <3> QED
      BY <2>4, <3>1, <3>2, <3>3, Zenon
  <2>6. Script(m) = <<"quiesce", "host", "save", "host">>
    BY <1>3, Zenon DEF Script
  <2> QED
    BY <1>3, <2>5, <2>6, Whole DEF First, Ends
<1>4. CASE m \in Releasers
  <2> DEFINE e == IF boundary THEN "release" ELSE "fail"
  <2>1. P(<<e>>, e, e) /\ Ends(m, e) /\ Follows(m, gateTimeout, readySink, "resume", e)
    BY <1>4, Single DEF Owner, Steps, Ends, Follows
  <2>2. ReleaseSteps = <<e>> /\ First("ReleaseSnapshotBoundary") = e
    BY DEF ReleaseSteps, First
  <2> HIDE DEF e
  <2>3. CASE m = "ReleaseSnapshotBoundary"
    BY <2>1, <2>2, <2>3, Whole DEF Script
  <2>4. CASE m = "ResumeAfterFailedSnapshot"
    <3>1. P(<<"resume">>, "resume", "resume")
      BY <2>4, Single DEF Owner, Steps
    <3>2. P(<<"resume">> \o <<e>>, "resume", e)
      BY <2>1, <3>1, Joined
    <3> QED
      BY <2>1, <2>2, <2>4, <3>2, Whole DEF Script, First
  <2> QED
    BY <1>4, <2>3, <2>4 DEF Releasers
<1>5. CASE m = "Restart"
  <2>1. P(<<"stop">>, "stop", "stop") /\ P(<<"save">>, "save", "save")
        /\ P(<<"serialize">>, "serialize", "serialize")
    BY <1>5, Single DEF Owner, Steps
  <2>2. P(<<"save">> \o <<"serialize">>, "save", "serialize")
    BY <2>1, Joined DEF Follows
  <2>3. P(<<"stop">> \o (<<"save">> \o <<"serialize">>), "stop", "serialize")
    BY <1>5, <2>1, <2>2, Joined DEF Follows
  <2>4. /\ <<"save">> \o <<"serialize">> = <<"save", "serialize">>
        /\ <<>> \o <<"save", "serialize">> = <<"save", "serialize">>
    <3>1. <<"save">> \o <<"serialize">> = <<"save", "serialize">>
      BY Pair DEF Steps
    <3> QED
      BY <2>2, <3>1, NoSteps DEF Part, Links
  <2>5. Script(m) = (IF vmRunning THEN <<"stop">> ELSE <<>>) \o <<"save", "serialize">>
    BY <1>5 DEF Script
  <2>6. CASE vmRunning
    <3>1. P(Script(m), "stop", "serialize")
      BY <2>3, <2>4, <2>5, <2>6, Zenon
    <3> QED
      BY <1>5, <2>6, <3>1, Whole DEF First, Ends
  <2>7. CASE ~vmRunning
    <3>1. P(Script(m), "save", "serialize")
      BY <2>2, <2>4, <2>5, <2>7, Zenon
    <3> QED
      BY <1>5, <2>7, <3>1, Whole DEF First, Ends
  <2> QED
    BY <2>6, <2>7
<1> QED
  BY <1>1, <1>2, <1>3, <1>4, <1>5 DEF Releasers

LEMMA PauseChain ==
  ASSUME NEW m \in {"none", "Pause", "PauseToSave"}
  PROVE  /\ Chain(m, microvm, gateTimeout, readySink, PauseSteps)
         /\ PauseSteps # <<>> => vmRunning /\ Head(PauseSteps) = "pause"
         /\ PauseSteps = <<>> => ~vmRunning
<1>1. CASE vmRunning
  <2>1. Part(m, microvm, gateTimeout, readySink, <<"pause">>, "pause", "pause")
    BY Single DEF Owner, Steps
  <2>2. Chain(m, microvm, gateTimeout, readySink, <<"pause">>) /\ <<"pause">> # <<>>
        /\ Head(<<"pause">>) = "pause"
    BY <2>1, Whole DEF Ends
  <2> QED
    BY <1>1, <2>2 DEF PauseSteps
<1>2. CASE ~vmRunning
  BY <1>2, NoSteps DEF PauseSteps
<1> QED
  BY <1>1, <1>2

LEMMA ResumeChain ==
  LET s == IF vmRunning THEN <<>> ELSE StartSteps
  IN  /\ Chain("Resume", microvm, gateTimeout, readySink, s)
      /\ s # <<>> => ~vmRunning /\ Head(s) = IF gateTimeout THEN "gate" ELSE "start"
<1>1. CASE vmRunning
  BY <1>1, NoSteps
<1>2. CASE ~vmRunning
  <2>1. "Resume" \in Starters /\ Ends("Resume", "go")
    BY DEF Starters, Ends
  <2>2. Chain("Resume", microvm, gateTimeout, readySink, StartSteps)
        /\ Head(StartSteps) = IF gateTimeout THEN "gate" ELSE "start"
    BY <2>1, StartPart, Whole
  <2> QED
    BY <1>2, <2>2
<1> QED
  BY <1>1, <1>2

LEMMA ScriptChain ==
  ASSUME NEW m
  PROVE  /\ Chain(m, microvm, gateTimeout, readySink, Script(m))
         /\ Script(m) # <<>> =>
               /\ Head(Script(m)) = First(m)
               /\ m \in {"Pause", "PauseToSave"} => vmRunning
               /\ m = "Resume" => ~vmRunning
         /\ Script(m) = <<>> => /\ m \in {"Pause", "PauseToSave"} => ~vmRunning
                                /\ m \notin Releasers \cup {"QuiesceForSnapshot"}
<1>1. CASE m \in {"Pause", "PauseToSave"}
  BY <1>1, PauseChain DEF Script, First, Releasers
<1>2. CASE m = "Resume"
  BY <1>2, ResumeChain DEF Script, First, Releasers
<1>3. CASE m \in {"Reset", "PowerReset"}
  BY <1>3, ResetChain DEF Script, First
<1>4. CASE m = "PulseSaveRestore"
  BY <1>4, PulseChain DEF First
<1>5. CASE m \in {"Save", "AddDevice", "QuiesceForSnapshot", "ResumeAfterFailedSnapshot",
                  "ReleaseSnapshotBoundary", "Restart"}
  BY <1>5, OtherChains
<1>6. CASE m \notin {"Pause", "PauseToSave", "Resume", "Reset", "PowerReset", "PulseSaveRestore",
                     "Save", "AddDevice", "QuiesceForSnapshot", "ResumeAfterFailedSnapshot",
                     "ReleaseSnapshotBoundary", "Restart"}
  BY <1>6, NoSteps DEF Script, Releasers
<1> QED
  BY <1>1, <1>2, <1>3, <1>4, <1>5, <1>6

-----------------------------------------------------------------------------
(* From here on most steps are first-order: Zenon is tried first. *)
USE ZenonT(20), SMTT(20)

-----------------------------------------------------------------------------
(* What the invariant says of the next step. *)

LEMMA Flags ==
  ASSUME NEW a, NEW b, NEW c, NEW d, NEW e, NEW f, NEW g, NEW h, NEW i, NEW j
  PROVE  {a, b, c, d, e, f, g, h, i, j} \subseteq BOOLEAN
         <=> /\ a \in BOOLEAN /\ b \in BOOLEAN /\ c \in BOOLEAN /\ d \in BOOLEAN /\ e \in BOOLEAN
             /\ f \in BOOLEAN /\ g \in BOOLEAN /\ h \in BOOLEAN /\ i \in BOOLEAN /\ j \in BOOLEAN
OBVIOUS

LEMMA TypeParts == (WorkerType <=> Types) /\ (WorkerType' <=> Types')
<1>1. WorkerType <=> Types
  BY SMTT(20), Flags DEF WorkerType, Types, FlagType, TaskType, InputType, ChannelType, PortType
<1>2. WorkerType' <=> Types'
  BY SMTT(20), Flags DEF WorkerType, Types, FlagType, TaskType, InputType, ChannelType, PortType
<1> QED
  BY <1>1, <1>2

LEMMA EndCases ==
  ASSUME EndStep
  PROVE  \/ Ended(Stopped) \/ Ended(Unassigned) \/ Ended(Started) \/ Ended(StartFailed)
         \/ Ended(Quiesced) \/ Ended(QuiesceFailed) \/ Ended(Resumed) \/ Ended(ResumeFailed)
         \/ Ended(StatefulOk) \/ Ended(StatefulFailed)
BY DEF EndStep, Ended

LEMMA StepFacts == Held => StepShape
BY NextStep DEF Held, WorkerInv, ScriptInv, StepShape

LEMMA NoChain == ASSUME NEW m, NEW v, NEW g, NEW r PROVE Chain(m, v, g, r, <<>>)
BY NoSteps

(* A handler that is entered between two events finds what it needs. *)
LEMMA FirstPre ==
  ASSUME NEW m, Agree, restartFailed => vmRunning /\ ~unitsRunning,
         m = "QuiesceForSnapshot" => Up, Script(m) # <<>>
  PROVE  Pre(m, First(m))
<1>1. /\ m \in {"Pause", "PauseToSave"} => vmRunning
      /\ m = "Resume" => ~vmRunning
  BY ScriptChain
<1>2. CASE m \in {"Pause", "PauseToSave", "Resume", "Reset", "PowerReset"}
  BY <1>1, <1>2 DEF Pre, First, Agree, Up, Down
<1>3. CASE m \in {"PulseSaveRestore", "Save", "AddDevice", "QuiesceForSnapshot", "Restart"}
  BY <1>3 DEF Pre, First, Agree, Up, Down
<1>4. CASE m \notin {"Pause", "PauseToSave", "Resume", "Reset", "PowerReset", "PulseSaveRestore",
                     "Save", "AddDevice", "QuiesceForSnapshot", "Restart"}
  BY <1>4 DEF Pre, First, Agree
<1> QED
  BY <1>2, <1>3, <1>4

(* The scripts of a failed readiness event, restart and gate, and of a     *)
(* boundary.                                                               *)
LEMMA ShortHeads ==
  /\ <<"stop", "fail">> # <<>> /\ Head(<<"stop", "fail">>) = "stop"
  /\ <<"start", "fail">> # <<>> /\ Head(<<"start", "fail">>) = "start"
  /\ <<"gate", "vps">> # <<>> /\ Head(<<"gate", "vps">>) = "gate"
  /\ <<"ungate">> # <<>> /\ Head(<<"ungate">>) = "ungate"
  /\ <<"vps">> # <<>> /\ Head(<<"vps">>) = "vps"
  /\ PauseSteps # <<>> => Head(PauseSteps) = "pause"
BY SMTT(20) DEF PauseSteps

LEMMA ShortChains ==
  ASSUME NEW v, NEW g, NEW r
  PROVE  /\ \A m \in Starters : Chain(m, v, g, r, <<"stop", "fail">>)
         /\ Chain("Restart", v, g, r, <<"start", "fail">>)
         /\ Chain("Boundary", v, g, r, <<"ungate">>) /\ Chain("Boundary", v, g, r, <<"vps">>)
         /\ Chain("Boundary", v, g, r, <<"gate", "vps">>)
<1> USE DEF Owner, Ends, Follows, Steps, Starters
<1>1. ASSUME NEW m \in Starters PROVE Chain(m, v, g, r, <<"stop", "fail">>)
  <2>1. Part(m, v, g, r, <<"stop">>, "stop", "stop") /\ Part(m, v, g, r, <<"fail">>, "fail", "fail")
    BY Single
  <2>2. Part(m, v, g, r, <<"stop">> \o <<"fail">>, "stop", "fail")
    BY <2>1, Joined
  <2>3. <<"stop">> \o <<"fail">> = <<"stop", "fail">>
    BY Pair
  <2> QED
    BY <2>2, <2>3, Whole
<1>2. Chain("Restart", v, g, r, <<"start", "fail">>)
  <2>1. /\ Part("Restart", v, g, r, <<"start">>, "start", "start")
        /\ Part("Restart", v, g, r, <<"fail">>, "fail", "fail")
    BY Single
  <2>2. Follows("Restart", g, r, "start", "fail")
    OBVIOUS
  <2>3. Part("Restart", v, g, r, <<"start">> \o <<"fail">>, "start", "fail")
    BY <2>1, <2>2, Joined
  <2>4. <<"start">> \o <<"fail">> = <<"start", "fail">>
    BY Pair
  <2>5. Part("Restart", v, g, r, <<"start", "fail">>, "start", "fail")
    BY <2>3, <2>4
  <2> QED
    BY SMTT(20), <2>5, Whole
<1>3. /\ Part("Boundary", v, g, r, <<"ungate">>, "ungate", "ungate")
      /\ Part("Boundary", v, g, r, <<"vps">>, "vps", "vps")
      /\ Part("Boundary", v, g, r, <<"gate">>, "gate", "gate")
  BY Single
<1>4. Part("Boundary", v, g, r, <<"gate">> \o <<"vps">>, "gate", "vps")
  BY SMTT(20), <1>3, Joined
<1>5. <<"gate">> \o <<"vps">> = <<"gate", "vps">>
  BY Pair
<1>6. Part("Boundary", v, g, r, <<"gate", "vps">>, "gate", "vps")
  BY <1>4, <1>5
<1>7. /\ Chain("Boundary", v, g, r, <<"ungate">>) /\ Chain("Boundary", v, g, r, <<"vps">>)
      /\ Chain("Boundary", v, g, r, <<"gate", "vps">>)
  BY <1>3, <1>6, Whole
<1> QED
  BY <1>1, <1>2, <1>7

LEMMA OpFacts == Held => OpShape
<1>1. Held /\ steps # <<>> => Head(steps) \in Steps
  BY StepFacts DEF StepShape
<1> QED
  BY <1>1 DEF Held, Types, LifecycleType, Operations, Stateful, WorkerInv, OpInv, OpShape, Taking, Steps

LEMMA ReleaseFacts == Held => ReleaseShape
BY DEF Held, WorkerInv, QueueInv, BoundaryInv, Aside, Awaited, Releasers, ControllerRpcs, ProfileInv,
       ReleaseShape

LEMMA RequestFacts == Held => RequestShape
<1> SUFFICES ASSUME Held, Listening, requests # <<>>, IsLive(Head(requests)), ~boundary
             PROVE  /\ Up /\ present = {"Running"} /\ microvm
                    /\ pending # 0 /\ write = "held" /\ ~completed
  BY DEF RequestShape
<1>1. pending = requests[1] /\ 1 \in 1 .. Len(requests) /\ requests[1] # 0
  BY SMTT(20), WorkerAssumption DEF IsLive, Held, Types, PortType
<1>2. write = "held" /\ ~completed /\ UnitsActive
  BY <1>1 DEF Held, WorkerInv, PortInv, Requested
<1>3. steps = <<>> /\ Agree /\ op = "idle"
  BY OpFacts DEF Held, WorkerInv, ScriptInv, OpShape, Listening
<1>4. microvm /\ "Running" \in present
  BY <1>1, <1>2, <1>3 DEF Held, WorkerInv, ProfileInv, UnitsActive
<1>5. unitsRunning /\ present = {"Running"}
  BY <1>4 DEF Held, WorkerInv, UnitInv
<1> QED
  BY <1>1, <1>2, <1>3, <1>4, <1>5 DEF Agree, Up, Down

LEMMA QuiesceFacts == Held => QuiesceShape
BY DEF Held, WorkerInv, QueueInv, BoundaryInv, Aside, Awaited, Releasers, ControllerRpcs, ProfileInv,
       QuiesceShape

LEMMA RpcFacts == Held => RpcShape
<1> SUFFICES ASSUME Held, Listening, rpcs # <<>>
             PROVE  /\ Head(rpcs) \in ClientRpcs \cup ControllerRpcs
                    /\ Head(rpcs) \in ControllerRpcs => Head(rpcs) = Awaited /\ reply = "none"
                    /\ Head(rpcs) \notin ControllerRpcs => Head(rpcs) = client
                    /\ Head(rpcs) \in Releasers \cup {"QuiesceForSnapshot"} => boundary
                    /\ Head(rpcs) \in {"ReleaseSnapshotBoundary", "QuiesceForSnapshot"} =>
                          Up /\ present = {"Running"}
  BY DEF RpcShape
<1>1. /\ Head(rpcs) = rpcs[1] /\ 1 \in 1 .. Len(rpcs)
      /\ Head(rpcs) \in ClientRpcs \cup ControllerRpcs
  BY SMTT(20) DEF Held, Types, ChannelType
<1>2. /\ Head(rpcs) \in ControllerRpcs => Head(rpcs) = Awaited /\ reply = "none"
      /\ Head(rpcs) \notin ControllerRpcs => Head(rpcs) = client
  BY <1>1 DEF Held, WorkerInv, QueueInv
<1>3. /\ Head(rpcs) = "ReleaseSnapshotBoundary" => controller = "release" /\ reply = "none"
      /\ Head(rpcs) = "QuiesceForSnapshot" => controller = "quiesce" /\ reply = "none"
      /\ Head(rpcs) = "ResumeAfterFailedSnapshot" => controller = "rollback" /\ reply = "none"
  BY <1>2 DEF Awaited, ControllerRpcs
<1>4. serving \notin Releasers /\ serving \notin ControllerRpcs /\ worker = "up" /\ BoundaryInv
  BY DEF Listening, Releasers, ControllerRpcs, Held, WorkerInv
<1>5. Head(rpcs) \in Releasers \cup {"QuiesceForSnapshot"} => boundary
  BY <1>3, <1>4 DEF BoundaryInv, Aside, Releasers
<1>6. Head(rpcs) \in {"ReleaseSnapshotBoundary", "QuiesceForSnapshot"} => Up /\ present = {"Running"}
  BY <1>3, <1>4, <1>5 DEF BoundaryInv, Unanswered, Releasers
<1> QED
  BY <1>1, <1>2, <1>5, <1>6

(* The last request outlives the others. *)
LEMMA LastOfTail ==
  ASSUME NEW S, NEW s \in Seq(S), s # <<>>
  PROVE  /\ Len(s) # 1 => Tail(s) # <<>> /\ Tail(s)[Len(Tail(s))] = s[Len(s)]
         /\ Len(s) = 1 => Tail(s) = <<>> /\ s[Len(s)] = Head(s)
<1>1. Len(s) \in Nat /\ Len(s) >= 1 /\ Len(Tail(s)) = Len(s) - 1 /\ Tail(s) \in Seq(S)
  BY SMTT(20)
<1>2. CASE Len(s) = 1
  <2>1. \A t \in Seq(S) : Len(t) = 0 => t = <<>>
    BY SMTT(20)
  <2>2. Len(Tail(s)) = 0
    BY SMTT(20), <1>1, <1>2
  <2>3. Tail(s) = <<>>
    BY <1>1, <2>1, <2>2
  <2>4. s[Len(s)] = Head(s)
    BY SMTT(20), <1>2
  <2> QED
    BY <1>2, <2>3, <2>4
<1>3. CASE Len(s) # 1
  <2>1. Len(s) - 1 \in 1 .. Len(s) - 1
    BY SMTT(20), <1>1, <1>3
  <2>2. Tail(s)[Len(s) - 1] = s[(Len(s) - 1) + 1]
    BY SMTT(20), <1>1, <2>1
  <2> QED
    BY SMTT(20), <1>1, <1>3, <2>2
<1> QED
  BY <1>2, <1>3

(* The port holds no write, or the units answered and it was stopped. *)
LEMMA PortFreed ==
  ASSUME PortInv, PortType, pending' = 0, write' = "held", completed' = FALSE,
         UNCHANGED <<written, requests>>, serving' # "Boundary"
  PROVE  PortInv'
<1>1. ~Requested'
  BY SMTT(20), WorkerAssumption DEF PortType, Requested
<1> QED
  BY <1>1 DEF PortInv

LEMMA PortEnded ==
  ASSUME PortInv, PortType, UNCHANGED boundary, serving # "Boundary", serving' # "Boundary",
         IF "Running" \in present' THEN UNCHANGED portVars ELSE PortStop
  PROVE  PortInv'
<1>1. CASE "Running" \in present'
  BY <1>1 DEF PortInv, Requested, UnitsActive, portVars
<1>2. CASE "Running" \notin present' /\ write = "released"
  BY <1>2 DEF PortInv, Requested, UnitsActive, portVars, PortStop
<1>3. CASE "Running" \notin present' /\ write # "released"
  BY <1>3, PortFreed DEF PortStop
<1> QED
  BY <1>1, <1>2, <1>3

(* The requests left when the first is taken, and with a new one. *)
LEMMA RequestTaken ==
  ASSUME PortInv, PortType, requests # <<>>, requests' = Tail(requests), UNCHANGED <<written, pending>>
  PROVE  /\ \A i \in 1 .. Len(requests') : requests'[i] <= written'
         /\ \A i, j \in 1 .. Len(requests') : i < j => requests'[i] < requests'[j]
         /\ Requested' <=> Requested /\ pending # Head(requests)
<1>1. requests \in Seq(Nat)
  BY SMTT(20), WorkerAssumption DEF PortType
<1>2. /\ \A i \in 1 .. Len(requests) : requests[i] <= written
      /\ \A i, j \in 1 .. Len(requests) : i < j => requests[i] < requests[j]
  BY DEF PortInv
<1>3. /\ Len(requests') = Len(requests) - 1 /\ Head(requests) = requests[1]
      /\ \A i \in 1 .. Len(requests') : requests'[i] = requests[i + 1] /\ i + 1 \in 1 .. Len(requests)
      /\ Len(requests) \in Nat /\ 1 \in 1 .. Len(requests)
  BY SMTT(20), <1>1
<1>4. \A i \in 1 .. Len(requests') : requests'[i] <= written'
  BY <1>2, <1>3
<1>5. \A i, j \in 1 .. Len(requests') : i < j => requests'[i] < requests'[j]
  BY SMTT(20), <1>2, <1>3
<1>6. ASSUME Requested' PROVE Requested /\ pending # Head(requests)
  <2>1. PICK i \in 1 .. Len(requests') : requests'[i] = pending
    BY <1>6 DEF Requested
  <2>2. /\ i + 1 \in 1 .. Len(requests) /\ requests[i + 1] = pending /\ 1 < i + 1
    BY SMTT(20), <1>3, <2>1
  <2>3. requests[1] < requests[i + 1] /\ requests[1] \in Nat
    BY SMTT(20), <1>1, <1>2, <1>3, <2>2
  <2> QED
    BY SMTT(20), <1>3, <2>2, <2>3 DEF Requested
<1>7. ASSUME Requested, pending # Head(requests) PROVE Requested'
  <2>1. PICK i \in 1 .. Len(requests) : requests[i] = pending
    BY <1>7 DEF Requested
  <2>2. i - 1 \in 1 .. Len(requests') /\ (i - 1) + 1 = i
    BY SMTT(20), <1>3, <1>7, <2>1
  <2> QED
    BY <1>3, <2>1, <2>2 DEF Requested
<1> QED
  BY <1>4, <1>5, <1>6, <1>7

LEMMA RequestSent ==
  ASSUME PortInv, PortType, written' = written + 1, pending' = written + 1,
         requests' = Append(requests, written + 1)
  PROVE  /\ \A i \in 1 .. Len(requests') : requests'[i] <= written'
         /\ \A i, j \in 1 .. Len(requests') : i < j => requests'[i] < requests'[j]
         /\ Requested'
<1>1. requests \in Seq(Nat) /\ written \in Nat
  BY SMTT(20), WorkerAssumption DEF PortType
<1>2. /\ \A i \in 1 .. Len(requests) : requests[i] <= written
      /\ \A i, j \in 1 .. Len(requests) : i < j => requests[i] < requests[j]
  BY DEF PortInv
<1>3. /\ Len(requests') = Len(requests) + 1 /\ Len(requests) \in Nat
      /\ \A i \in 1 .. Len(requests) : requests'[i] = requests[i] /\ requests[i] \in Nat
      /\ requests'[Len(requests) + 1] = written + 1
  BY SMTT(20), <1>1
<1>4. \A i \in 1 .. Len(requests') : i \in 1 .. Len(requests) \/ i = Len(requests) + 1
  BY SMTT(20), <1>3
<1>5. \A i \in 1 .. Len(requests') : requests'[i] <= written'
  BY SMTT(20), <1>1, <1>2, <1>3, <1>4
<1>6. ASSUME NEW i \in 1 .. Len(requests'), NEW j \in 1 .. Len(requests'), i < j
      PROVE  requests'[i] < requests'[j]
  <2>1. i \in 1 .. Len(requests)
    BY SMTT(20), <1>3, <1>6
  <2>2. CASE j \in 1 .. Len(requests)
    BY <1>2, <1>3, <1>6, <2>1, <2>2
  <2>3. CASE j = Len(requests) + 1
    BY SMTT(20), <1>1, <1>2, <1>3, <2>1, <2>3
  <2> QED
    BY <1>4, <2>2, <2>3
<1>7. Requested'
  BY SMTT(20), <1>3 DEF Requested
<1> QED
  BY <1>5, <1>6, <1>7

-----------------------------------------------------------------------------
(* The channel of RPCs. *)

LEMMA RpcSets == /\ ClientRpcs \cap ControllerRpcs = {}
                 /\ \A m \in {"none", "Boundary", "Restart"} : m \notin ClientRpcs \cup ControllerRpcs
                 /\ "idle" \notin ClientRpcs \cup ControllerRpcs
BY DEF ClientRpcs, ControllerRpcs

(* The handler in hand ends, or is none of an RPC. *)
LEMMA QueueReturn ==
  ASSUME QueueInv, NEW result, Return(result), UNCHANGED controller
  PROVE  QueueInv'
<1>1. /\ serving' \notin ControllerRpcs /\ serving' \notin ClientRpcs /\ UNCHANGED <<rpcs, Awaited>>
      /\ serving \notin ControllerRpcs => reply' = reply
      /\ serving \notin ClientRpcs => client' = client
  BY RpcSets DEF Return, Awaited
<1> QED
  BY <1>1 DEF QueueInv

LEMMA QueueIdle ==
  ASSUME QueueInv, UNCHANGED <<rpcs, reply, client, controller>>,
         serving' = serving \/ serving' \in {"none", "Boundary", "Restart"}
  PROVE  QueueInv'
<1>1. /\ serving' \in ControllerRpcs => serving' = serving
      /\ serving' \in ClientRpcs => serving' = serving
      /\ UNCHANGED Awaited
  BY RpcSets DEF Awaited
<1> QED
  BY <1>1 DEF QueueInv

(* The first RPC is taken: it is the only one of its sender. *)
LEMMA QueueRest ==
  ASSUME QueueInv, ChannelType, rpcs # <<>>, rpcs' = Tail(rpcs)
  PROVE  /\ \A i \in 1 .. Len(rpcs') :
               IF rpcs'[i] \in ControllerRpcs
               THEN rpcs'[i] = Awaited /\ reply = "none" /\ Head(rpcs) \notin ControllerRpcs
               ELSE rpcs'[i] = client /\ Head(rpcs) \in ControllerRpcs
         /\ \A i, j \in 1 .. Len(rpcs') : rpcs'[i] = rpcs'[j] => i = j
         /\ IF Head(rpcs) \in ControllerRpcs THEN Head(rpcs) = Awaited /\ reply = "none"
            ELSE Head(rpcs) = client
<1>1. /\ Len(rpcs') = Len(rpcs) - 1 /\ Head(rpcs) = rpcs[1]
      /\ \A i \in 1 .. Len(rpcs') : rpcs'[i] = rpcs[i + 1] /\ i + 1 \in 1 .. Len(rpcs) /\ i + 1 # 1
      /\ Len(rpcs) \in Nat /\ 1 \in 1 .. Len(rpcs)
  BY SMTT(20) DEF ChannelType
<1>2. /\ \A i \in 1 .. Len(rpcs) : IF rpcs[i] \in ControllerRpcs
                                   THEN rpcs[i] = Awaited /\ reply = "none" ELSE rpcs[i] = client
      /\ \A i, j \in 1 .. Len(rpcs) : rpcs[i] = rpcs[j] => i = j
  BY DEF QueueInv
<1>3. ASSUME NEW i \in 1 .. Len(rpcs')
      PROVE  IF rpcs'[i] \in ControllerRpcs
             THEN rpcs'[i] = Awaited /\ reply = "none" /\ Head(rpcs) \notin ControllerRpcs
             ELSE rpcs'[i] = client /\ Head(rpcs) \in ControllerRpcs
  <2>1. rpcs'[i] = rpcs[i + 1] /\ i + 1 \in 1 .. Len(rpcs) /\ rpcs[i + 1] # rpcs[1]
    BY <1>1, <1>2
  <2> QED
    BY <1>1, <1>2, <2>1
<1>4. \A i, j \in 1 .. Len(rpcs') : rpcs'[i] = rpcs'[j] => i = j
  <2> SUFFICES ASSUME NEW i \in 1 .. Len(rpcs'), NEW j \in 1 .. Len(rpcs'), rpcs'[i] = rpcs'[j]
               PROVE  i = j
    OBVIOUS
  <2>1. i + 1 = j + 1
    BY <1>1, <1>2
  <2> QED
    BY SMTT(20), <2>1
<1> QED
  BY <1>1, <1>2, <1>3, <1>4

(* An RPC is sent. *)
LEMMA Appended ==
  ASSUME NEW S, NEW s \in Seq(S), NEW m
  PROVE  \A i \in 1 .. Len(Append(s, m)) : \/ i \in 1 .. Len(s) /\ Append(s, m)[i] = s[i]
                                           \/ i = Len(s) + 1 /\ Append(s, m)[i] = m
BY SMTT(20)

LEMMA QueueSend ==
  ASSUME QueueInv, ChannelType, NEW m \in ClientRpcs, SendRpc(m), UNCHANGED controller
  PROVE  QueueInv'
<1>1. /\ client = "idle" /\ client' = m /\ rpcs' = Append(rpcs, m)
      /\ UNCHANGED <<serving, reply, Awaited>>
  BY DEF SendRpc, taskVars, Awaited
<1>2. \A i \in 1 .. Len(rpcs') :
         \/ i \in 1 .. Len(rpcs) /\ rpcs'[i] = rpcs[i]
         \/ i = Len(rpcs) + 1 /\ rpcs'[i] = m
  <2>1. rpcs \in Seq(ClientRpcs \cup ControllerRpcs)
    BY DEF ChannelType
  <2> QED
    BY <1>1, <2>1, Appended
<1>3. \A i \in 1 .. Len(rpcs) : rpcs[i] \in ControllerRpcs
  <2>1. \A i \in 1 .. Len(rpcs) : rpcs[i] \in ClientRpcs \cup ControllerRpcs
    BY SMTT(20) DEF ChannelType
  <2> QED
    BY <1>1, <2>1, RpcSets DEF QueueInv
<1>4. m \notin ControllerRpcs /\ serving \notin ClientRpcs
  BY <1>1, RpcSets DEF QueueInv
<1>5. \A i, j \in 1 .. Len(rpcs') : rpcs'[i] = rpcs'[j] => i = j
  BY <1>2, <1>3, <1>4 DEF QueueInv
<1> QED
  BY <1>1, <1>2, <1>3, <1>4, <1>5 DEF QueueInv

(* The controller calls when none of its RPCs is left. *)
LEMMA QueueCall ==
  ASSUME QueueInv, ChannelType, NEW m \in ControllerRpcs, rpcs' = Append(rpcs, m), reply' = "none",
         UNCHANGED <<client, serving>>, Awaited' = m, Awaited = "none" \/ reply # "none"
  PROVE  QueueInv'
<1>1. \A i \in 1 .. Len(rpcs') :
         \/ i \in 1 .. Len(rpcs) /\ rpcs'[i] = rpcs[i]
         \/ i = Len(rpcs) + 1 /\ rpcs'[i] = m
  <2>1. rpcs \in Seq(ClientRpcs \cup ControllerRpcs)
    BY DEF ChannelType
  <2> QED
    BY <2>1, Appended
<1>2. /\ \A i \in 1 .. Len(rpcs) : rpcs[i] \notin ControllerRpcs
      /\ serving \notin ControllerRpcs
  BY RpcSets DEF QueueInv
<1>3. \A i, j \in 1 .. Len(rpcs') : rpcs'[i] = rpcs'[j] => i = j
  <2>1. \A i, j \in 1 .. Len(rpcs) : rpcs[i] = rpcs[j] => i = j
    BY DEF QueueInv
  <2> QED
    BY SMTT(20), <1>1, <1>2, <2>1
<1> QED
  BY <1>1, <1>2, <1>3 DEF QueueInv

LEMMA QueueDone ==
  ASSUME QueueInv, UNCHANGED <<rpcs, client, serving>>, Awaited = "none" \/ reply # "none"
  PROVE  QueueInv'
<1>1. /\ \A i \in 1 .. Len(rpcs) : rpcs[i] \notin ControllerRpcs
      /\ serving \notin ControllerRpcs
  BY RpcSets DEF QueueInv
<1> QED
  BY <1>1 DEF QueueInv

(* Steps after which no worker is left. *)
LEMMA LostSteps == Serialize \/ Teardown \/ UnitLost => ~Alive'
BY DEF Serialize, Teardown, UnitLost, LoseUnit, Crash, Alive

-----------------------------------------------------------------------------
(* Boundaries. *)

(* Steps without a boundary, steps at one, and the answer to a call about  *)
(* one.                                                                    *)
LEMMA FarSteps ==
  ASSUME BoundaryInv, UnitInv, ~boundary, ~(serving \in Releasers /\ steps = <<>>),
         UNCHANGED <<controller, boundary, notices, condemned>>, reply' = reply \/ reply = "none"
  PROVE  BoundaryInv'
<1>1. Aside /\ notices = 0
  BY DEF BoundaryInv
<1>2. Aside' /\ controller # "quiesce"
  BY <1>1 DEF Aside
<1>3. ~condemned
  BY DEF UnitInv
<1> QED
  BY <1>1, <1>2, <1>3 DEF BoundaryInv

LEMMA NearSteps ==
  ASSUME BoundaryInv, boundary, UNCHANGED <<boundary, controller, reply, notices, input, lag, condemned>>,
         serving' \in Releasers \cup {"none", "ReadMemory", "QuiesceForSnapshot"},
         serving' \in Releasers => steps' # <<>>,
         Unanswered' /\ worker' = "up" =>
            Unanswered /\ worker = "up" /\ UNCHANGED <<vmRunning, unitsRunning, present>>
  PROVE  BoundaryInv'
<1>1. (Aside' <=> Aside) /\ (InputHeld' <=> InputHeld)
  BY DEF Aside, InputHeld
<1> QED
  BY <1>1 DEF BoundaryInv, Up

LEMMA AnsweredCall ==
  ASSUME BoundaryInv, boundary, UNCHANGED <<boundary, controller, notices, input, lag>>,
         controller \in {"quiesce", "release", "rollback"}, reply = "none", serving' = "none",
         reply' \notin {"none", "Rejected"}, reply' = "ok" => controller = "quiesce",
         condemned' => condemned \/ (controller = "quiesce" /\ reply' = "Uncertain")
                                 \/ (controller = "rollback" /\ reply' = "err")
  PROVE  BoundaryInv'
<1>1. ~Aside /\ ~Aside' /\ ~Unanswered' /\ (InputHeld' <=> InputHeld)
  BY DEF Aside, Unanswered, InputHeld
<1>2. ~condemned
  BY DEF BoundaryInv
<1>3. serving' \notin Releasers
  BY DEF Releasers
<1> QED
  BY <1>1, <1>2, <1>3 DEF BoundaryInv

-----------------------------------------------------------------------------
(* Each part of the invariant is kept by every step of the worker. *)

(* Every handler keeps to its script, and finds the flags its steps need. *)
LEMMA ScriptKept ==
  ASSUME Held, WorkerNext, Alive', UNCHANGED <<storeVars, controllerVars>>
  PROVE  ScriptInv'
<1>S. ScriptInv
  BY DEF Held, Types, WorkerInv
<1>s. StepShape
  BY StepFacts
<1>U. UnitInv
  BY DEF Held, Types, WorkerInv
<1>o. OpShape
  BY OpFacts
<1>r. ReleaseShape
  BY ReleaseFacts
<1>P. ProfileInv
  BY DEF Held, Types, WorkerInv
<1>c. ChannelType
  BY DEF Held, Types, WorkerInv
<1>q. RequestShape
  BY RequestFacts
<1> USE DEF Agree, Up, Down, Starters, Resets, Releasers, Taking, Ended, At, Listening,
     lifecycleVars, flagVars, taskVars, inputVars, channelVars, portVars, Stateful
<1>1. CASE RefuseStep
  BY <1>1, <1>S, <1>s, <1>U, NoChain DEF RefuseStep, Fail, Return, MayStart, MayResume, Free,
       ScriptInv, Pre, StepShape, Follows, Owner, Ends, UnitInv
<1>2. CASE Ended(Stopped)
  BY <1>2, <1>S, <1>s, <1>o, NoChain DEF Stopped, StopOk, Finish, AllIn, Advance, PortStop,
       During, MayStart, ScriptInv, Pre, StepShape, Follows, Owner, Ends, OpShape
<1>3. CASE Ended(Started)
  BY <1>3, <1>S, <1>s, <1>o, NoChain DEF Started, StartOk, Finish, AllIn, Advance, PortStop,
       During, MayStart, ScriptInv, Pre, StepShape, Follows, Owner, Ends, OpShape
<1>4. CASE Ended(StartFailed)
  BY <1>4, <1>S, <1>s, <1>o, NoChain DEF StartFailed, StartErr, Fail, Return, PortStop, During,
       MayStart, ScriptInv, Pre, StepShape, Follows, Owner, Ends, OpShape
<1>5. CASE Ended(Quiesced)
  BY <1>5, <1>S, <1>s, <1>o, NoChain DEF Quiesced, QuiesceOk, Finish, AllIn, Advance, PortStop,
       During, MayStart, ScriptInv, Pre, StepShape, Follows, Owner, Ends, OpShape
<1>6. CASE Ended(QuiesceFailed)
  BY <1>6, <1>S, <1>s, <1>o, NoChain DEF QuiesceFailed, QuiesceErr, Finish, Return, PortStop,
       During, MayStart, ScriptInv, Pre, StepShape, Follows, Owner, Ends, OpShape
<1>7. CASE Ended(ResumeFailed)
  BY <1>7, <1>S, <1>s, <1>o, NoChain DEF ResumeFailed, ResumeErr, Finish, Fail, Return,
       PortStop, During, MayStart, ScriptInv, Pre, StepShape, Follows, Owner, Ends, OpShape
<1>8. CASE Ended(Unassigned)
  BY <1>8, <1>S, NoChain DEF Unassigned, StopOk, Finish, AllIn, Fail, Return, PortStop, During,
       MayStart, ScriptInv, Pre
<1>9. CASE Complete
  BY <1>9, <1>S, NoChain DEF Complete, Return, ScriptInv, Pre
<1>10. CASE Ended(Resumed)
  BY <1>10, <1>S, <1>s, <1>o, <1>r, NoChain DEF Resumed, ResumeOk, Finish, AllIn, Advance,
       PortStop, During, MayStart, ScriptInv, Pre, StepShape, Follows, Owner, Ends, OpShape,
       ReleaseShape
<1>11. CASE Gated
  BY <1>11, <1>S, <1>s DEF Gated, InputDone, Advance, ScriptInv, Pre, StepShape, Follows, Owner,
       Ends
<1>12. CASE Go
  BY <1>12, <1>S, <1>s DEF Go, Advance, ScriptInv, Pre, StepShape, Follows, Owner, Ends
<1>13. CASE Ungated
  BY <1>13, <1>S, <1>s, NoChain DEF Ungated, InputDone, Return, ScriptInv, Pre, StepShape,
       Follows, Owner, Ends
<1>14. CASE ReleaseFailed
  BY <1>14, <1>S, <1>s, NoChain DEF ReleaseFailed, InputDone, Fail, Return, ScriptInv, Pre,
       StepShape, Follows, Owner, Ends
<1>15. CASE AtBoundary
  BY <1>15, <1>S, <1>s, NoChain DEF AtBoundary, ScriptInv, Pre, StepShape, Follows, Owner, Ends
<1>16. CASE FailStep
  BY <1>16, <1>S, <1>s, NoChain DEF FailStep, Fail, Return, ScriptInv, Pre, StepShape, Follows,
       Owner, Ends
<1>17. CASE UngateFailed
  BY <1>17, <1>S, PauseChain DEF UngateFailed, InputDone, Break, ScriptInv, Pre
<1>18. CASE BoundaryFailed
  BY <1>18, <1>S, PauseChain DEF BoundaryFailed, Break, ScriptInv, Pre
<1>19. CASE GateExpires
  BY <1>19, <1>S, PauseChain DEF GateExpires, Break, ScriptInv, Pre
<1>20. CASE Ended(StatefulOk)
  <2>1. Head(steps) \in {"reset", "save", "restore"} /\ ~unitsRunning /\ steps # <<>>
    BY <1>20, <1>o DEF StatefulOk, StatefulDone, During, OpShape
  <2>2. steps' = Tail(steps) /\ UNCHANGED <<worker, serving, flagVars, unitsRunning>>
    BY <1>20 DEF StatefulOk, StatefulDone, Finish, Advance
  <2>3. CASE Head(steps) = "save"
    BY <1>S, <1>s, <2>1, <2>2, <2>3 DEF ScriptInv, Pre, StepShape, Follows, Owner, Ends
  <2>4. CASE Head(steps) \in {"reset", "restore"}
    BY <1>S, <1>s, <2>1, <2>2, <2>4 DEF ScriptInv, Pre, StepShape, Follows, Owner, Ends
  <2> QED
    BY <2>1, <2>3, <2>4
<1>21. CASE Ended(StatefulFailed)
  <2>1. Head(steps) \in {"reset", "save", "restore"} /\ ~unitsRunning /\ steps # <<>>
    BY <1>21, <1>o DEF StatefulFailed, StatefulDone, During, OpShape
  <2>0. UNCHANGED <<worker, flagVars, unitsRunning>>
    BY <1>21 DEF StatefulFailed, StatefulDone, Finish, Fail, Return
  <2>2. CASE serving = "Restart" /\ vmRunning
    <3>1. steps' = <<"start", "fail">> /\ UNCHANGED serving
      BY <1>21, <2>2 DEF StatefulFailed
    <3>2. ~restartFailed
      BY <1>s, <2>1, <2>2 DEF StepShape, Pre, Follows, Owner, Ends
    <3> QED
      BY <1>S, <2>0, <2>1, <2>2, <3>1, <3>2, ShortChains, ShortHeads DEF ScriptInv, Pre
  <2>3. CASE ~(serving = "Restart" /\ vmRunning)
    <3>1. steps' = <<>> /\ serving' = "none"
      BY <1>21, <2>3 DEF StatefulFailed, Fail, Return
    <3>2. Agree
      BY <1>s, <2>1, <2>3 DEF StepShape, Pre, Follows, Owner, Ends
    <3>3. worker # "ending"
      BY <1>s, <1>S, <2>1 DEF StepShape, Pre, Follows, Owner, Ends, ScriptInv
    <3> QED
      BY <1>S, <2>0, <3>1, <3>2, <3>3, NoChain DEF ScriptInv, Pre
  <2> QED
    BY <2>2, <2>3
<1>22. CASE GateFailed
  <2>1. CASE serving = "Boundary"
    BY <1>22, <1>S, <1>s, <2>1, ShortChains, ShortHeads DEF GateFailed, ScriptInv, Pre,
         StepShape, Follows, Owner, Ends
  <2>2. CASE serving # "Boundary"
    <3>1. steps' = <<>> /\ serving' = "none" /\ UNCHANGED <<worker, flagVars, unitsRunning>>
      BY <1>22, <2>2 DEF GateFailed, Fail, Return
    <3>2. Agree /\ worker # "ending"
      BY <1>22, <1>S, <1>s, <2>2 DEF GateFailed, ScriptInv, Pre, StepShape, Follows, Owner, Ends
    <3> QED
      BY <1>S, <3>1, <3>2, NoChain DEF ScriptInv, Pre
  <2> QED
    BY <2>1, <2>2
<1>23. CASE Released
  <2>1. steps' = <<>> /\ UNCHANGED <<worker, serving, microvm, vmRunning, readySink, restartFailed, unitsRunning>>
    BY <1>23, <1>s DEF Released, Advance, StepShape, Pre, Follows, Owner, Ends
  <2>2. Agree /\ worker # "ending"
    BY <1>23, <1>S, <1>s DEF Released, ScriptInv, Pre, StepShape, Follows, Owner, Ends
  <2>3. Chain(serving, microvm, gateTimeout, readySink, steps)'
    BY <2>1, NoChain
  <2> QED
    BY <1>S, <2>1, <2>2, <2>3 DEF ScriptInv, Pre
<1>24. CASE Ready
  <2>1. CASE Advance
    BY <1>24, <1>S, <1>s, <2>1, Unchained DEF Ready, Advance, ScriptInv, Pre, StepShape,
         Follows, Owner, Ends
  <2>2. CASE steps' = <<"stop", "fail">> /\ UNCHANGED <<worker, serving>>
    BY <1>24, <1>S, <1>s, <2>2, ShortChains, ShortHeads DEF Ready, ScriptInv, Pre, StepShape,
         Follows, Owner, Ends
  <2> QED
    BY <1>24, <2>1, <2>2 DEF Ready
<1>25. CASE HostStep
  <2>1. UNCHANGED <<unitsRunning, flagVars>>
    BY <1>25 DEF HostStep, DropUnits
  <2>2. steps # <<>> /\ Head(steps) \in {"host", "attach"}
    BY <1>25 DEF HostStep
  <2>3. CASE Advance
    BY <1>S, <1>s, <2>1, <2>2, <2>3 DEF Advance, ScriptInv, Pre, StepShape, Follows, Owner, Ends
  <2>4. CASE Fail
    <3>1. steps' = <<>> /\ serving' = "none" /\ UNCHANGED worker
      BY <2>4 DEF Fail, Return
    <3> QED
      BY <1>S, <1>s, <2>1, <2>2, <3>1, NoChain DEF ScriptInv, Pre, StepShape, Follows, Owner,
           Ends
  <2> QED
    BY <1>25, <2>3, <2>4 DEF HostStep
<1>26. CASE TakeRpc
  <2> DEFINE m == Head(rpcs)
  <2>1. CASE Refusal(m) # "none"
    BY <1>26, <1>S, <2>1 DEF TakeRpc, ScriptInv, Pre
  <2>2. CASE Refusal(m) = "none"
    <3>1. m = "QuiesceForSnapshot" => vmRunning /\ microvm
      BY <2>2 DEF Refusal
    <3>2. /\ serving' = m /\ steps' = Script(m) /\ UNCHANGED <<flagVars, worker>>
          /\ Agree /\ worker = "up" /\ (restartFailed => vmRunning /\ ~unitsRunning)
          /\ (restartFailed => ~microvm)
      BY <1>26, <1>S, <1>P, <2>2 DEF TakeRpc, ProfileInv, ScriptInv, Pre
    <3>3. UNCHANGED unitsRunning
      BY <1>26, <2>2 DEF TakeRpc, AddUnit, DropUnits
    <3>4. m \in ClientRpcs \cup ControllerRpcs
      BY SMTT(20), <1>26, <1>c DEF TakeRpc, ChannelType, Replies, ClientRpcs, ControllerRpcs
    <3> HIDE DEF m
    <3>5. Script(m) # <<>> => Pre(m, First(m))
      <4>1. m = "QuiesceForSnapshot" => Up
        BY <3>1, <3>2
      <4> QED
        BY <3>2, <4>1, FirstPre
    <3> QED
      BY <1>S, <3>2, <3>3, <3>4, <3>5, ScriptChain DEF ClientRpcs, ControllerRpcs, ScriptInv,
           Pre
  <2> QED
    BY <2>1, <2>2
<1>27. CASE TakeOrder
  <2>1. CASE Break
    BY <1>27, <1>S, <2>1, PauseChain DEF TakeOrder, Break, ScriptInv, Pre
  <2>2. CASE serving' = "Restart" /\ steps' = Script("Restart") /\ UNCHANGED worker
    <3>1. Script("Restart") # <<>> => Pre("Restart", First("Restart"))
      <4>1. Agree /\ (restartFailed => vmRunning /\ ~unitsRunning)
        BY <1>27, <1>S DEF TakeOrder, ScriptInv, Pre
      <4> QED
        BY <4>1, FirstPre
    <3> QED
      BY <1>27, <1>S, <2>2, <3>1, ScriptChain DEF TakeOrder, ScriptInv, Pre
  <2>3. CASE UNCHANGED taskVars
    BY <1>27, <1>S, <2>3 DEF TakeOrder, ScriptInv, Pre
  <2> QED
    BY <1>27, <2>1, <2>2, <2>3 DEF TakeOrder
<1>28. CASE TakeRequest
  <2>1. CASE UNCHANGED <<serving, steps>>
    BY <1>28, <1>S, <2>1 DEF TakeRequest, ScriptInv, Pre
  <2>2. CASE IsLive(Head(requests)) /\ ~boundary
    BY <1>28, <1>S, <1>q, <2>2, ShortChains, ShortHeads DEF TakeRequest, ScriptInv, Pre,
         RequestShape
  <2> QED
    BY <1>28, <2>1, <2>2 DEF TakeRequest
<1>29. CASE UNCHANGED <<serving, microvm, gateTimeout, readySink, steps, vmRunning,
     unitsRunning, restartFailed, worker>>
  BY <1>29, <1>S DEF ScriptInv, Pre
<1>30. CASE BeginStep \/ SendInput \/ GuestWrite \/ PortPoll \/ HandleInput \/ InputTimeout
            \/ SendRestart \/ (\E m \in Clients : SendRpc(m))
  BY <1>30, <1>29 DEF BeginStep, BeginStop, BeginStart, BeginQuiesce, BeginResume,
       BeginStateful, EnterOp, EnterIf, Crash, MayStart, MayResume, Free, SendInput, GuestWrite,
       Duplicate, GuestRuns, PortPoll, HandleInput, InputTimeout, SendRestart, SendRpc
<1> QED
  BY <1>1, <1>2, <1>3, <1>4, <1>5, <1>6, <1>7, <1>8, <1>9, <1>10, <1>11, <1>12, <1>13, <1>14,
       <1>15, <1>16, <1>17, <1>18, <1>19, <1>20, <1>21, <1>22, <1>23, <1>24, <1>25, <1>26,
       <1>27, <1>28, <1>30, EndCases, LostSteps DEF WorkerNext, StepWorker, TakeEvent

(* An operation of the units belongs to the step in hand. *)
LEMMA OpKept ==
  ASSUME Held, WorkerNext, Alive', UNCHANGED <<storeVars, controllerVars>>
  PROVE  OpInv'
<1>O. OpInv
  BY DEF Held, Types, WorkerInv
<1>s. StepShape
  BY StepFacts
<1>S. ScriptInv
  BY DEF Held, Types, WorkerInv
<1>o. OpShape
  BY OpFacts
<1> USE DEF Taking, Stateful, Agree, Up, Down, Starters, Resets, Releasers, Ended, At,
     Listening, lifecycleVars, flagVars, taskVars, inputVars, channelVars, portVars
<1>1. CASE BeginStep \/ RefuseStep \/ Gated \/ GateFailed \/ Ungated
  BY <1>1, <1>O, <1>s, <1>S DEF BeginStep, BeginStop, BeginStart, BeginQuiesce, BeginResume,
       BeginStateful, EnterOp, EnterIf, Crash, MayStart, MayResume, Free, RefuseStep, Fail,
       Return, Gated, InputDone, Advance, GateFailed, Ungated, OpInv, StepShape, Pre, Follows,
       Owner, Ends, ScriptInv
<1>2. CASE UngateFailed \/ Released \/ ReleaseFailed \/ AtBoundary \/ BoundaryFailed
  BY <1>2, <1>O, <1>s, <1>S DEF UngateFailed, InputDone, Break, Released, Advance,
       ReleaseFailed, Fail, Return, AtBoundary, BoundaryFailed, OpInv, StepShape, Pre, Follows,
       Owner, Ends, ScriptInv
<1>3. CASE Ready \/ Go \/ HostStep \/ FailStep \/ Complete
  BY <1>3, <1>O, <1>s, <1>S DEF Ready, Advance, Go, HostStep, Fail, Return, DropUnits, FailStep,
       Complete, OpInv, StepShape, Pre, Follows, Owner, Ends, ScriptInv
<1>4. CASE TakeRpc \/ TakeOrder \/ TakeRequest \/ GateExpires
  BY <1>4, <1>O, <1>s, <1>S DEF TakeRpc, Refusal, AddUnit, DropUnits, TakeOrder, Break,
       TakeRequest, IsLive, GateExpires, OpInv, StepShape, Pre, Follows, Owner, Ends, ScriptInv
<1>5. CASE Ended(Stopped) \/ Ended(Unassigned) \/ Ended(Started) \/ Ended(StartFailed)
           \/ Ended(Quiesced)
  BY <1>5, <1>O, <1>s, <1>S, <1>o DEF Stopped, StopOk, Finish, AllIn, Advance, PortStop, During,
       MayStart, Unassigned, Fail, Return, Started, StartOk, StartFailed, StartErr, Quiesced,
       QuiesceOk, OpInv, StepShape, Pre, Follows, Owner, Ends, ScriptInv, OpShape
<1>6. CASE Ended(QuiesceFailed) \/ Ended(Resumed) \/ Ended(ResumeFailed) \/ Ended(StatefulOk)
           \/ Ended(StatefulFailed)
  BY <1>6, <1>O, <1>s, <1>S, <1>o DEF QuiesceFailed, QuiesceErr, Finish, Return, PortStop,
       During, MayStart, Resumed, ResumeOk, AllIn, Advance, ResumeFailed, ResumeErr, Fail,
       StatefulOk, StatefulDone, StatefulFailed, OpInv, StepShape, Pre, Follows, Owner, Ends,
       ScriptInv, OpShape
<1>7. CASE UNCHANGED <<op, steps, unitsRunning, present>>
  BY <1>7, <1>O DEF OpInv
<1>8. CASE SendInput \/ GuestWrite \/ PortPoll \/ HandleInput \/ InputTimeout \/ SendRestart
           \/ (\E m \in Clients : SendRpc(m))
  BY <1>8, <1>7 DEF SendInput, GuestWrite, Duplicate, GuestRuns, PortPoll, HandleInput,
       InputTimeout, SendRestart, SendRpc
<1> QED
  BY <1>1, <1>2, <1>3, <1>4, <1>5, <1>6, <1>8, EndCases, LostSteps DEF WorkerNext, StepWorker,
       TakeEvent

(* The units' states go with the worker's flag. *)
LEMMA UnitKept ==
  ASSUME Held, WorkerNext, Alive', UNCHANGED <<storeVars, controllerVars>>
  PROVE  UnitInv'
<1>U. UnitInv
  BY DEF Held, Types, WorkerInv
<1>S. ScriptInv
  BY DEF Held, Types, WorkerInv
<1>s. StepShape
  BY StepFacts
<1>o. OpShape
  BY OpFacts
<1>P. ProfileInv
  BY DEF Held, Types, WorkerInv
<1>z. QuiesceShape
  BY QuiesceFacts
<1>r. ReleaseShape
  BY ReleaseFacts
<1>B. BoundaryInv
  BY DEF Held, Types, WorkerInv
<1>x. RpcShape
  BY RpcFacts
<1>q. RequestShape
  BY RequestFacts
<1> USE DEF Up, Down, Taking, Agree, Starters, Resets, Releasers, Ended, At, Listening,
     lifecycleVars, flagVars, taskVars, inputVars, channelVars, portVars
<1>1. CASE RefuseStep \/ Ended(Unassigned)
  <2>1. CASE RefuseStep
    BY <2>1, <1>U DEF RefuseStep, Fail, Return, MayStart, MayResume, Free, StopOk, Finish, AllIn,
       During, UnitInv
  <2>2. CASE Ended(Unassigned)
    BY <2>2, <1>U DEF Fail, Return, Unassigned, StopOk, Finish, AllIn, PortStop, During, UnitInv
  <2> QED
    BY <1>1, <2>1, <2>2
<1>2. CASE GateFailed \/ Ungated
  <2>1. CASE GateFailed
    BY <2>1, <1>U DEF GateFailed, InputDone, Fail, Return, UnitInv
  <2>2. CASE Ungated
    BY <2>2, <1>U DEF InputDone, Return, Ungated, UnitInv
  <2> QED
    BY <1>2, <2>1, <2>2
<1>3. CASE ReleaseFailed \/ AtBoundary \/ FailStep \/ Complete
  <2>1. CASE ReleaseFailed
    BY <2>1, <1>U DEF ReleaseFailed, InputDone, Fail, Return, UnitInv
  <2>2. CASE AtBoundary
    BY <2>2, <1>U DEF AtBoundary, UnitInv
  <2>3. CASE FailStep
    BY <2>3, <1>U DEF Fail, Return, FailStep, UnitInv
  <2>4. CASE Complete
    BY <2>4, <1>U DEF Return, Complete, UnitInv
  <2> QED
    BY <1>3, <2>1, <2>2, <2>3, <2>4
<1>4. CASE Ended(Stopped)
  BY <1>4, <1>U, <1>S, <1>s, <1>o DEF Stopped, StopOk, Finish, AllIn, Advance, PortStop, During,
       MayStart, UnitInv, ScriptInv, Pre, StepShape, Follows, Owner, Ends, OpShape
<1>5. CASE Ended(Started)
  BY <1>5, <1>U, <1>S, <1>s, <1>o DEF Started, StartOk, Finish, AllIn, Advance, PortStop,
       During, MayStart, UnitInv, ScriptInv, Pre, StepShape, Follows, Owner, Ends, OpShape
<1>6. CASE Ended(StartFailed)
  BY <1>6, <1>U, <1>s, <1>o, <1>P DEF StartFailed, StartErr, Fail, Return, PortStop, During,
       MayStart, UnitInv, StepShape, Pre, Follows, Owner, Ends, OpShape, ProfileInv
<1>7. CASE Ended(Quiesced)
  BY <1>7, <1>U, <1>s, <1>o DEF Quiesced, QuiesceOk, Finish, AllIn, Advance, PortStop, During,
       MayStart, UnitInv, StepShape, Pre, Follows, Owner, Ends, OpShape
<1>8. CASE Ended(Resumed)
  BY <1>8, <1>U, <1>s, <1>o DEF Resumed, ResumeOk, Finish, AllIn, Advance, PortStop, During,
       MayStart, UnitInv, StepShape, Pre, Follows, Owner, Ends, OpShape
<1>9. CASE Ended(QuiesceFailed)
  BY <1>9, <1>U, <1>s, <1>o, <1>z DEF QuiesceFailed, QuiesceErr, Finish, Return, PortStop,
       During, MayStart, UnitInv, StepShape, Pre, Follows, Owner, Ends, OpShape, QuiesceShape
<1>10. CASE Ended(ResumeFailed)
  BY <1>10, <1>U, <1>s, <1>o, <1>r DEF ResumeFailed, ResumeErr, Finish, Fail, Return, PortStop,
       During, MayStart, UnitInv, StepShape, Pre, Follows, Owner, Ends, OpShape, ReleaseShape
<1>11. CASE Gated
  BY <1>11, <1>U, <1>S, <1>s DEF Gated, InputDone, Advance, UnitInv, ScriptInv, Pre, StepShape,
       Follows, Owner, Ends
<1>12. CASE HostStep
  BY <1>12, <1>U, <1>S, <1>s DEF HostStep, Advance, Fail, Return, DropUnits, UnitInv, ScriptInv,
       Pre, StepShape, Follows, Owner, Ends
<1>13. CASE UngateFailed
  BY <1>13, <1>U, ShortHeads DEF UngateFailed, InputDone, Break, UnitInv
<1>14. CASE BoundaryFailed \/ GateExpires
  <2>1. CASE BoundaryFailed
    BY <2>1, <1>U, ShortHeads DEF BoundaryFailed, Break, UnitInv
  <2>2. CASE GateExpires
    BY <2>2, <1>U, ShortHeads DEF Break, GateExpires, UnitInv
  <2> QED
    BY <1>14, <2>1, <2>2
<1>15. CASE Released
  BY <1>15, <1>U, <1>s, <1>r, <1>B DEF Released, InputDone, Advance, BoundaryInv, UnitInv,
       StepShape, Pre, Follows, Owner, Ends, ReleaseShape
<1>16. CASE Go
  BY <1>16, <1>U, <1>s DEF Go, Advance, UnitInv, StepShape, Pre, Follows, Owner, Ends
<1>17. CASE Ended(StatefulOk)
  <2>1. Head(steps) \in {"reset", "save", "restore"} /\ ~unitsRunning /\ steps # <<>>
    BY <1>17, <1>o DEF StatefulOk, StatefulDone, During, OpShape
  <2>2. /\ steps' = Tail(steps)
        /\ UNCHANGED <<worker, serving, flagVars, unitsRunning, present, condemned>>
    BY <1>17 DEF StatefulOk, StatefulDone, Finish, Advance
  <2>3. /\ Taking({"start"})' => serving # "Restart"
        /\ ~Taking({"release"})' /\ ~Taking({"quiesce"})' /\ ~Taking({"quiesce"})
    BY <1>s, <2>1, <2>2 DEF StepShape, Pre, Follows, Owner, Ends
  <2> QED
    BY <1>U, <2>1, <2>2, <2>3 DEF UnitInv
<1>18. CASE Ended(StatefulFailed)
  <2>1. /\ Head(steps) \in {"reset", "save", "restore"} /\ ~unitsRunning /\ steps # <<>>
        /\ present \subseteq {"Stopped"}
    BY <1>18, <1>o DEF StatefulFailed, StatefulDone, During, OpShape
  <2>2. UNCHANGED <<flagVars, unitsRunning, present, condemned>>
    BY <1>18 DEF StatefulFailed, StatefulDone, Finish
  <2>3. \/ serving' = "Restart" /\ steps' = <<"start", "fail">>
        \/ serving' = "none" /\ steps' = <<>>
    BY <1>18 DEF StatefulFailed, Fail, Return
  <2> QED
    BY <1>U, <2>1, <2>2, <2>3, ShortHeads DEF UnitInv
<1>19. CASE Ready
  <2>1. UNCHANGED <<serving, microvm, boundary, vmRunning, unitsRunning, present, condemned>>
    BY <1>19 DEF Ready, Advance
  <2>2. serving \in Starters
    BY <1>19, <1>s DEF Ready, StepShape, Pre, Follows, Owner, Ends
  <2>3. ~Taking({"release"})'
    BY <1>19, <1>s, ShortHeads DEF Ready, Advance, StepShape, Pre, Follows, Owner, Ends
  <2> QED
    BY <1>U, <2>1, <2>2, <2>3 DEF UnitInv
<1>20. CASE TakeRpc
  <2> DEFINE m == Head(rpcs)
  <2>1. CASE Refusal(m) # "none"
    BY <1>20, <1>U, <2>1 DEF TakeRpc, UnitInv
  <2>2. CASE Refusal(m) = "none"
    <3>1. /\ serving' = m /\ steps' = Script(m)
          /\ UNCHANGED <<microvm, boundary, vmRunning, unitsRunning, condemned>>
      BY <1>20, <2>2 DEF TakeRpc, AddUnit, DropUnits
    <3>2. /\ m \notin {"AddDevice", "RemoveDevice"} => UNCHANGED present
          /\ "Running" \in present' => "Running" \in present
      <4>1. CASE m = "AddDevice"
        <5>1. present' = present \cup {"Stopped"}
          BY <1>20, <2>2, <4>1 DEF TakeRpc, AddUnit
        <5>2. "Running" \in present' => "Running" \in present
          BY <5>1
        <5> QED
          BY <4>1, <5>2
      <4>2. CASE m = "RemoveDevice"
        BY <1>20, <2>2, <4>2 DEF TakeRpc, DropUnits
      <4>3. CASE m \notin {"AddDevice", "RemoveDevice"}
        BY <1>20, <2>2, <4>3 DEF TakeRpc
      <4> QED
        BY <4>1, <4>2, <4>3
    <3>3. m \in {"AddDevice", "RemoveDevice"} => ~microvm
      BY <2>2 DEF Refusal, Filtered
    <3>4. m \in {"ReleaseSnapshotBoundary", "QuiesceForSnapshot"} => Up /\ present = {"Running"}
      BY <1>20, <1>x DEF TakeRpc, RpcShape
    <3>5. m # "Boundary" /\ m # "Restart"
      BY <1>20, <1>x DEF TakeRpc, ClientRpcs, ControllerRpcs, RpcShape
    <3> HIDE DEF m
    <3>6. /\ Taking({"release"})' => m = "ReleaseSnapshotBoundary"
          /\ m = "QuiesceForSnapshot" => Taking({"quiesce"})'
      <4>1. Script(m) # <<>> => Head(Script(m)) = First(m)
        BY ScriptChain
      <4>2. m = "QuiesceForSnapshot" => Script(m) # <<>>
        BY ScriptChain DEF Releasers
      <4>3. First(m) = "release" => m = "ReleaseSnapshotBoundary"
        BY Zenon DEF First
      <4>4. m = "QuiesceForSnapshot" => First(m) = "quiesce"
        BY Zenon DEF First
      <4> QED
        BY <3>1, <4>1, <4>2, <4>3, <4>4
    <3> QED
      BY <1>U, <3>1, <3>2, <3>3, <3>4, <3>5, <3>6 DEF UnitInv
  <2> QED
    BY <2>1, <2>2
<1>21. CASE TakeOrder
  <2>1. UNCHANGED <<microvm, boundary, vmRunning, unitsRunning, present, condemned>>
    BY <1>21 DEF TakeOrder
  <2>2. CASE Break
    BY <1>U, <2>1, <2>2, ShortHeads DEF Break, UnitInv
  <2>3. CASE serving' = "Restart" /\ steps' = Script("Restart")
    <3>1. Script("Restart") # <<>> => Head(Script("Restart")) \in {"stop", "save"}
      BY ScriptChain DEF First
    <3> QED
      BY <1>U, <2>1, <2>3, <3>1 DEF UnitInv
  <2>4. CASE UNCHANGED taskVars
    BY <1>U, <2>1, <2>4 DEF UnitInv
  <2> QED
    BY <1>21, <2>2, <2>3, <2>4 DEF TakeOrder
<1>22. CASE TakeRequest
  <2>1. CASE UNCHANGED <<serving, steps>>
    BY <1>22, <1>U, <2>1 DEF TakeRequest, UnitInv
  <2>2. CASE IsLive(Head(requests)) /\ ~boundary
    BY <1>22, <1>U, <1>q, <2>2, ShortHeads DEF TakeRequest, RequestShape, UnitInv
  <2> QED
    BY <1>22, <2>1, <2>2 DEF TakeRequest
<1>23. CASE UNCHANGED <<unitsRunning, vmRunning, condemned, present, microvm, boundary,
     serving, steps>>
  BY <1>23, <1>U DEF UnitInv
<1>24. CASE BeginStep \/ SendInput \/ GuestWrite \/ PortPoll \/ HandleInput \/ InputTimeout
            \/ SendRestart \/ (\E m \in Clients : SendRpc(m))
  BY <1>24, <1>23 DEF BeginStep, BeginStop, BeginStart, BeginQuiesce, BeginResume,
       BeginStateful, EnterOp, EnterIf, Crash, MayStart, MayResume, Free, SendInput, GuestWrite,
       Duplicate, GuestRuns, PortPoll, HandleInput, InputTimeout, SendRestart, SendRpc
<1> QED
  BY <1>1, <1>2, <1>3, <1>4, <1>5, <1>6, <1>7, <1>8, <1>9, <1>10, <1>11, <1>12, <1>13, <1>14,
       <1>15, <1>16, <1>17, <1>18, <1>19, <1>20, <1>21, <1>22, <1>24, EndCases, LostSteps
            DEF WorkerNext, StepWorker, TakeEvent

(* A restored VM is gated until the guest acknowledges. *)
LEMMA RestoreKept ==
  ASSUME Held, WorkerNext, Alive', UNCHANGED <<storeVars, controllerVars>>
  PROVE  RestoreInv'
<1>R. RestoreInv
  BY DEF Held, Types, WorkerInv
<1>s. StepShape
  BY StepFacts
<1>P. ProfileInv
  BY DEF Held, Types, WorkerInv
<1>o. OpShape
  BY OpFacts
<1>r. ReleaseShape
  BY ReleaseFacts
<1>I. InputInv
  BY DEF Held, Types, WorkerInv
<1>S. ScriptInv
  BY DEF Held, Types, WorkerInv
<1> USE DEF GateHeld, InputHeld, Taking, Agree, Up, Down, Starters, Resets, Releasers, Ended,
     At, Listening, lifecycleVars, flagVars, taskVars, inputVars, channelVars, portVars
<1>1. CASE BeginStep
  BY <1>1, <1>R, <1>s, <1>P DEF BeginStep, BeginStop, BeginStart, BeginQuiesce, BeginResume,
       BeginStateful, EnterOp, EnterIf, Crash, MayStart, MayResume, Free, RestoreInv, StepShape,
       Pre, Follows, Owner, Ends, ProfileInv
<1>2. CASE RefuseStep \/ Ended(Unassigned)
  <2>1. CASE RefuseStep
    BY <2>1, <1>R DEF RefuseStep, Fail, Return, MayStart, MayResume, Free, StopOk, Finish, AllIn,
       During, RestoreInv
  <2>2. CASE Ended(Unassigned)
    BY <2>2, <1>R DEF Fail, Return, Unassigned, StopOk, Finish, AllIn, PortStop, During,
       RestoreInv
  <2> QED
    BY <1>2, <2>1, <2>2
<1>3. CASE Ended(StartFailed) \/ Ended(ResumeFailed) \/ Ungated
  <2>1. CASE Ended(StartFailed)
    BY <2>1, <1>R DEF StartFailed, StartErr, Fail, Return, PortStop, During, RestoreInv
  <2>2. CASE Ended(ResumeFailed)
    BY <2>2, <1>R DEF Fail, Return, PortStop, During, ResumeFailed, ResumeErr, Finish, RestoreInv
  <2>3. CASE Ungated
    BY <2>3, <1>R DEF Return, Ungated, InputDone, RestoreInv
  <2> QED
    BY <1>3, <2>1, <2>2, <2>3
<1>4. CASE ReleaseFailed \/ AtBoundary
  <2>1. CASE ReleaseFailed
    BY <2>1, <1>R DEF ReleaseFailed, InputDone, Fail, Return, RestoreInv
  <2>2. CASE AtBoundary
    BY <2>2, <1>R DEF AtBoundary, RestoreInv
  <2> QED
    BY <1>4, <2>1, <2>2
<1>5. CASE FailStep \/ Complete \/ HandleInput
  <2>1. CASE FailStep
    BY <2>1, <1>R DEF FailStep, Fail, Return, RestoreInv
  <2>2. CASE Complete
    BY <2>2, <1>R DEF Return, Complete, RestoreInv
  <2>3. CASE HandleInput
    BY <2>3, <1>R DEF HandleInput, RestoreInv
  <2> QED
    BY <1>5, <2>1, <2>2, <2>3
<1>6. CASE Ended(Stopped)
  BY <1>6, <1>R, <1>s, <1>o DEF Stopped, StopOk, Finish, AllIn, Advance, PortStop, During,
       MayStart, RestoreInv, StepShape, Pre, Follows, Owner, Ends, OpShape
<1>7. CASE Ended(Started)
  BY <1>7, <1>R, <1>s, <1>o DEF Started, StartOk, Finish, AllIn, Advance, PortStop, During,
       MayStart, RestoreInv, StepShape, Pre, Follows, Owner, Ends, OpShape
<1>8. CASE Ended(Quiesced)
  BY <1>8, <1>R, <1>s, <1>o DEF Quiesced, QuiesceOk, Finish, AllIn, Advance, PortStop, During,
       MayStart, RestoreInv, StepShape, Pre, Follows, Owner, Ends, OpShape
<1>9. CASE Ended(QuiesceFailed)
  BY <1>9, <1>R, <1>o DEF QuiesceFailed, QuiesceErr, Finish, Return, PortStop, During, MayStart,
       RestoreInv, OpShape
<1>10. CASE Ended(Resumed)
  BY <1>10, <1>R, <1>s, <1>o, <1>r DEF Resumed, ResumeOk, Finish, AllIn, Advance, PortStop,
       During, MayStart, RestoreInv, StepShape, Pre, Follows, Owner, Ends, OpShape, ReleaseShape
<1>11. CASE SendInput
  BY <1>11, <1>R, <1>s, <1>o, <1>I, <1>r DEF SendInput, RestoreInv, StepShape, Pre, Follows,
       Owner, Ends, OpShape, InputInv, ReleaseShape
<1>12. CASE UngateFailed \/ BoundaryFailed \/ GateExpires
  <2>1. CASE UngateFailed
    BY <2>1, <1>R, ShortHeads DEF UngateFailed, InputDone, Break, RestoreInv
  <2>2. CASE BoundaryFailed
    BY <2>2, <1>R, ShortHeads DEF Break, BoundaryFailed, RestoreInv
  <2>3. CASE GateExpires
    BY <2>3, <1>R, ShortHeads DEF Break, GateExpires, RestoreInv
  <2> QED
    BY <1>12, <2>1, <2>2, <2>3
<1>13. CASE Released
  BY <1>13, <1>R, <1>s DEF Released, InputDone, Advance, RestoreInv, StepShape, Pre, Follows,
       Owner, Ends
<1>14. CASE HostStep
  BY <1>14, <1>R, <1>s DEF HostStep, Advance, Fail, Return, DropUnits, RestoreInv, StepShape,
       Pre, Follows, Owner, Ends
<1>15. CASE Ready
  BY <1>15, <1>R, <1>S DEF Ready, Advance, RestoreInv, ScriptInv, Pre
<1>16. CASE Go
  BY <1>16, <1>R, <1>S DEF Go, Advance, RestoreInv, ScriptInv, Pre
<1>17. CASE Ended(StatefulOk)
  <2>1. Head(steps) \in {"reset", "save", "restore"} /\ ~unitsRunning /\ steps # <<>>
    BY <1>17, <1>o DEF StatefulOk, StatefulDone, During, OpShape
  <2>2. /\ steps' = Tail(steps) /\ op' = "idle"
        /\ UNCHANGED <<flagVars, unitsRunning, inputVars>>
    BY <1>17 DEF StatefulOk, StatefulDone, Finish, Advance
  <2>3. ~Taking({"go"})' /\ (Taking({"start"})' => ~gateTimeout)
    BY <1>s, <2>1, <2>2 DEF StepShape, Pre, Follows, Owner, Ends
  <2> QED
    BY <1>R, <2>1, <2>2, <2>3 DEF RestoreInv
<1>18. CASE Ended(StatefulFailed)
  <2>1. /\ UNCHANGED <<flagVars, inputVars>> /\ op' = "idle"
        /\ unitsRunning' = unitsRunning /\ op \in Stateful
    BY <1>18 DEF StatefulFailed, StatefulDone, Finish, During
  <2>2. \/ serving = "Restart" /\ steps' = <<"start", "fail">>
        \/ steps' = <<>>
    BY <1>18 DEF StatefulFailed, Fail, Return
  <2>3. ~Taking({"go"})' /\ (Taking({"start"})' => ~gateTimeout)
    BY <1>P, <2>2, ShortHeads DEF ProfileInv
  <2>4. ~unitsRunning
    BY <1>o, <2>1 DEF OpShape
  <2> QED
    BY <1>R, <2>1, <2>3, <2>4 DEF RestoreInv
<1>19. CASE Gated
  <2>1. /\ UNCHANGED <<lifecycleVars, gateTimeout, gateDeadline, startGuard, readySink, boundary, input, lag>>
        /\ inputGated' = (inputGated \/ serving # "Boundary") /\ steps' = Tail(steps)
        /\ steps # <<>> /\ Head(steps) = "gate" /\ wait = "ok"
    BY <1>19 DEF Gated, InputDone, Advance
  <2>2. InputHeld
    BY <1>I, <2>1 DEF InputInv
  <2>3. steps' # <<>> /\ (Head(steps') = "vps" \/ (Head(steps') = "start" /\ gateTimeout))
    BY <1>s, <2>1 DEF StepShape, Pre, Follows, Owner, Ends
  <2>4. Head(steps') = "vps" => serving = "Boundary" /\ Up
    BY <1>s, <2>1, <2>3 DEF StepShape, Pre, Follows, Owner, Ends
  <2>5. Head(steps') = "start" => serving # "Boundary"
    BY <1>s, <2>1, <2>3 DEF StepShape, Pre, Follows, Owner, Ends
  <2> QED
    BY <1>R, <2>1, <2>2, <2>3, <2>4, <2>5 DEF RestoreInv
<1>20. CASE GateFailed
  <2>1. UNCHANGED <<lifecycleVars, flagVars, input, lag>>
    BY <1>20 DEF GateFailed, InputDone
  <2>2. steps' = <<"ungate">> \/ steps' = <<>>
    BY <1>20 DEF GateFailed, Fail, Return
  <2>3. ~Taking({"go"})' /\ ~Taking({"start"})'
    BY <2>2, ShortHeads
  <2> QED
    BY <1>R, <2>1, <2>3 DEF RestoreInv
<1>21. CASE TakeRpc
  <2> DEFINE m == Head(rpcs)
  <2>1. UNCHANGED <<unitsRunning, op, flagVars, input, lag>>
    BY <1>21 DEF TakeRpc, AddUnit, DropUnits
  <2>2. steps' = Script(m) \/ steps' = steps
    BY <1>21 DEF TakeRpc
  <2> HIDE DEF m
  <2>3. Script(m) # <<>> =>
           /\ Head(Script(m)) # "go"
           /\ Head(Script(m)) = "start" => ~gateTimeout \/ unitsRunning
    <3>1. First(m) # "go" /\ (First(m) = "start" => ~gateTimeout \/ unitsRunning)
      BY Zenon DEF First
    <3> QED
      BY <3>1, ScriptChain
  <2>4. /\ Taking({"go"})' => Taking({"go"})
        /\ Taking({"start"})' => Taking({"start"}) \/ ~gateTimeout \/ unitsRunning
    <3>1. CASE steps' = Script(m)
      BY <2>3, <3>1
    <3>2. CASE steps' = steps
      BY <3>2
    <3> QED
      BY <2>2, <3>1, <3>2
  <2> QED
    BY <1>R, <2>1, <2>4 DEF RestoreInv
<1>22. CASE TakeOrder
  <2>1. UNCHANGED <<lifecycleVars, flagVars, input, lag>>
    BY <1>22 DEF TakeOrder
  <2>2. steps' = PauseSteps \/ steps' = Script("Restart") \/ steps' = steps
    BY <1>22 DEF TakeOrder, Break
  <2>3. Script("Restart") # <<>> => Head(Script("Restart")) \in {"stop", "save"}
    BY ScriptChain DEF First
  <2>4. (Taking({"go"})' => Taking({"go"})) /\ (Taking({"start"})' => Taking({"start"}))
    BY <2>2, <2>3, ShortHeads
  <2> QED
    BY <1>R, <2>1, <2>4 DEF RestoreInv
<1>23. CASE TakeRequest
  <2>1. UNCHANGED <<lifecycleVars, flagVars, input, lag>>
    BY <1>23 DEF TakeRequest
  <2>2. steps' = <<"vps">> \/ steps' = <<"gate", "vps">> \/ steps' = steps
    BY <1>23 DEF TakeRequest
  <2>3. (Taking({"go"})' => Taking({"go"})) /\ (Taking({"start"})' => Taking({"start"}))
    BY <2>2, ShortHeads
  <2> QED
    BY <1>R, <2>1, <2>3 DEF RestoreInv
<1>24. CASE UNCHANGED <<inputGated, gateTimeout, readySink, startGuard, steps, gateDeadline,
     unitsRunning, op, boundary, input, lag>>
  BY <1>24, <1>R DEF RestoreInv
<1>25. CASE GuestWrite \/ PortPoll \/ InputTimeout \/ SendRestart
            \/ (\E m \in Clients : SendRpc(m))
  BY <1>25, <1>24 DEF GuestWrite, Duplicate, GuestRuns, PortPoll, InputTimeout, SendRestart,
       SendRpc
<1> QED
  BY <1>1, <1>2, <1>3, <1>4, <1>5, <1>6, <1>7, <1>8, <1>9, <1>10, <1>11, <1>12, <1>13, <1>14,
       <1>15, <1>16, <1>17, <1>18, <1>19, <1>20, <1>21, <1>22, <1>23, <1>25, EndCases, LostSteps
            DEF WorkerNext, StepWorker, TakeEvent

=============================================================================
