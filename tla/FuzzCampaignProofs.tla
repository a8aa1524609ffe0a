------------------------- MODULE FuzzCampaignProofs -------------------------
(***************************************************************************)
(* What an invocation of the fuzzer reports and the verdict it exits with, *)
(* for any number of seeds, workers and lines, any defects and any order   *)
(* in which the workers end or miss their deadlines.                       *)
(***************************************************************************)
EXTENDS FuzzCampaign, SequenceTheorems, WellFoundedInduction, TLAPS

----------------------------------------------------------------------------
(* shrink_source returns a failing program none of whose lines can go, for *)
(* every number of lines and every way in which failing depends on them.   *)

LEMMA InitShrinkInv == ShrinkInit => ShrinkInv
<1> SUFFICES ASSUME ShrinkInit PROVE ShrinkInv
  OBVIOUS
<1>1. lines = {} /\ cursor = 1 /\ changed = FALSE /\ shrinker = "idle"
  BY DEF ShrinkInit
<1>2. changed \in BOOLEAN
  BY <1>1
<1>3. lines \subseteq Source /\ cursor \in Nat
  BY <1>1
<1>4. shrinker # "loop" /\ shrinker # "done"
  BY <1>1
<1>5. ReproMinimal
  BY <1>4 DEF ReproMinimal
<1> QED BY <1>1, <1>2, <1>3, <1>4, <1>5 DEF ShrinkInv

LEMMA BeginShrinkInv == ShrinkInv /\ ShrinkBegin => ShrinkInv'
<1> SUFFICES ASSUME ShrinkInv, ShrinkBegin PROVE ShrinkInv'
  OBVIOUS
<1>1. /\ shrinker' = "loop" /\ lines' = Source /\ Source \in shows'
      /\ cursor' = 1 /\ changed' = FALSE
  BY DEF ShrinkBegin
<1>2. \A e \in Source : ~(e < 1)
  BY DEF Source
<1> QED BY <1>1, <1>2 DEF ShrinkInv, ReproMinimal, Source

\* A trial that drops the line makes a failing program; one that keeps it adds
\* the line to those known to be needed, and there is no untried line below it.
LEMMA TrialShrinkInv ==
  ASSUME ShrinkInv, NEW e \in Source, Trial(e)
  PROVE  ShrinkInv'
<1>1. /\ shrinker = "loop" /\ shrinker' = "loop" /\ shows' = shows /\ cursor' = e + 1
      /\ e \in lines /\ e >= cursor /\ \A f \in Untried : e <= f
  BY DEF Trial, Untried
<1>2. e \in Nat /\ lines \subseteq Nat /\ lines \subseteq Source /\ cursor \in Nat /\ lines \in shows
  BY <1>1, NLinesAssumption DEF ShrinkInv, Source
<1>3. CASE Without(e) \in shows /\ lines' = Without(e) /\ changed' = TRUE
  <2>1. lines' \subseteq Source /\ lines' \in shows'
    BY <1>1, <1>2, <1>3 DEF Without
  <2> QED BY <1>1, <1>2, <1>3, <2>1 DEF ShrinkInv, ReproMinimal
<1>4. CASE Without(e) \notin shows /\ lines' = lines /\ changed' = changed
  <2>1. \A d : Without(d)' = Without(d)
    BY <1>4 DEF Without
  <2>2. ASSUME ~changed, NEW d \in lines, d < e + 1 PROVE Without(d) \notin shows
    <3>1. CASE d < cursor
      BY <1>1, <2>2, <3>1 DEF ShrinkInv
    <3>2. CASE d >= cursor
      <4>1. e <= d
        BY <1>1, <2>2, <3>2 DEF Untried
      <4>2. d = e
        BY <1>2, <2>2, <4>1
      <4> QED BY <1>4, <4>2
    <3> QED BY <1>2, <2>2, <3>1, <3>2
  <2>3. ~changed' => \A d \in lines' : d < cursor' => Without(d)' \notin shows'
    BY <1>1, <1>4, <2>1, <2>2
  <2> QED BY <1>1, <1>2, <1>4, <2>3 DEF ShrinkInv, ReproMinimal
<1> QED BY <1>3, <1>4 DEF Trial

LEMMA NextWalkShrinkInv == ShrinkInv /\ NextWalk => ShrinkInv'
<1> SUFFICES ASSUME ShrinkInv, NextWalk PROVE ShrinkInv'
  OBVIOUS
<1>1. /\ shrinker = "loop" /\ shrinker' = "loop" /\ shows' = shows /\ lines' = lines
      /\ cursor' = 1 /\ changed' = FALSE
  BY DEF NextWalk
<1>2. \A e \in lines : ~(e < 1)
  BY DEF ShrinkInv, Source
<1> QED BY <1>1, <1>2 DEF ShrinkInv, ReproMinimal

\* When a walk dropped nothing, every line was tried against the program that
\* is returned.
LEMMA ReturnShrinkInv == ShrinkInv /\ ShrinkReturn => ShrinkInv'
<1> SUFFICES ASSUME ShrinkInv, ShrinkReturn PROVE ShrinkInv'
  OBVIOUS
<1>1. /\ shrinker = "loop" /\ shrinker' = "done" /\ shows' = shows /\ lines' = lines
      /\ cursor' = cursor /\ changed' = changed /\ ~changed /\ Untried = {}
  BY DEF ShrinkReturn
<1>2. lines \subseteq Nat /\ cursor \in Nat
  BY NLinesAssumption DEF ShrinkInv, Source
<1>3. \A e \in lines : e < cursor
  BY <1>1, <1>2 DEF Untried
<1>4. \A e \in lines : Without(e) \notin shows
  BY <1>1, <1>3 DEF ShrinkInv
<1>5. \A e : Without(e)' = Without(e)
  BY <1>1 DEF Without
<1>6. ReproMinimal'
  BY <1>1, <1>4, <1>5 DEF ShrinkInv, ReproMinimal
<1> QED BY <1>1, <1>6 DEF ShrinkInv

LEMMA StutterShrinkInv == ShrinkInv /\ UNCHANGED shrinkVars => ShrinkInv'
BY DEF ShrinkInv, shrinkVars, ReproMinimal, Without

\* The reproducer of auto-shrink fails as the original did, and is minimal.
THEOREM ShrinkMinimal == ShrinkSpec => []ReproMinimal
<1>1. ShrinkInv /\ [ShrinkBegin \/ ShrinkSteps]_shrinkVars => ShrinkInv'
  BY BeginShrinkInv, TrialShrinkInv, NextWalkShrinkInv, ReturnShrinkInv, StutterShrinkInv
     DEF ShrinkSteps
<1>2. ShrinkInv => ReproMinimal
  BY DEF ShrinkInv
<1> QED BY <1>1, <1>2, InitShrinkInv, PTL DEF ShrinkSpec

----------------------------------------------------------------------------
(* The inductive invariant.                                                *)

\* Everything a quiet machine answers in this invocation.
AllAnswers == UNION {{quiet[s].run, quiet[s].oracle, quiet[s].sanitize} : s \in Seeds}
Records == [seed : Seeds, finding : AllAnswers, confirmed : BOOLEAN]

CampaignTypes ==
  /\ args \in Invocations
  /\ consumed \in 0 .. NSeeds
  /\ DOMAIN answers = Seeds
  /\ suspects \in Seq(Seeds)
  /\ fails \in Seq(Records)
  /\ repro \in Seq({"seen", "skipped", "minimized"})

\* Which command is in which phase, and what is settled when a phase begins.
PhaseInv ==
  /\ phase \in {"pool", "recheck", "triage", "shrink"} => args.cmd = "run"
  /\ phase = "corpus" => args.cmd = "corpus" /\ suspects = << >>
  /\ phase = "minimize" => args.cmd = "shrink"
  /\ phase = "start" => consumed = 0 /\ suspects = << >>
  /\ phase \in {"recheck", "triage", "shrink"} => consumed = NSeeds
  /\ phase \in {"triage", "shrink"} => fails # << >>
  /\ phase # "done" => verdict = ""

\* A worker's answer is that of a quiet machine, or it is a timeout.
AnswerInv ==
  \A s \in Seeds : \/ answers[s] = Go
                   \/ answers[s] = quiet[s].run /\ answers[s] # Stuck
                   \/ answers[s].kind = "hang"

\* A report is a finding that a quiet machine makes.
ReportInv ==
  \A i \in DOMAIN fails : /\ fails[i].finding \in QuietAnswers(fails[i].seed)
                          /\ IsFinding(fails[i].finding)

\* No finding is lost: its seed has been reported or waits for a second run.
CoverInv ==
  phase \in {"pool", "recheck", "corpus"} =>
    \A s \in 1 .. consumed :
      (\E a \in QuietAnswers(s) : IsFinding(a)) =>
         \/ \E i \in DOMAIN fails : fails[i].seed = s
         \/ \E i \in DOMAIN suspects : suspects[i] = s

CampaignInv ==
  CampaignTypes /\ PhaseInv /\ AnswerInv /\ ReportInv /\ CoverInv /\ VerdictExact

----------------------------------------------------------------------------
\* What Append does to a sequence over a set.
LEMMA Appended ==
  ASSUME NEW S, NEW q \in Seq(S), NEW e \in S
  PROVE  /\ Append(q, e) \in Seq(S) /\ Append(q, e) # << >>
         /\ Len(q) \in Nat /\ DOMAIN q = 1 .. Len(q)
         /\ Len(Append(q, e)) = Len(q) + 1
         /\ DOMAIN Append(q, e) = 1 .. Len(q) + 1
         /\ \A i \in 1 .. Len(q) : Append(q, e)[i] = q[i]
         /\ Append(q, e)[Len(q) + 1] = e
BY AppendProperties

\* What is left of a sequence without its head.
LEMMA Headless ==
  ASSUME NEW S, NEW q \in Seq(S), q # << >>
  PROVE  /\ Head(q) \in S /\ Head(q) = q[1] /\ Tail(q) \in Seq(S)
         /\ Len(q) \in Nat \ {0} /\ DOMAIN q = 1 .. Len(q)
         /\ DOMAIN Tail(q) = 1 .. Len(q) - 1
         /\ \A i \in 1 .. Len(q) - 1 : Tail(q)[i] = q[i + 1]
BY HeadTailProperties

\* What stays the same keeps the answers of a quiet machine.
LEMMA SameAnswers ==
  ASSUME UNCHANGED invocation
  PROVE  /\ \A s \in Seeds : QuietAnswers(s)' = QuietAnswers(s)
         /\ AllAnswers' = AllAnswers /\ Records' = Records
         /\ args' = args /\ quiet' = quiet /\ tools' = tools
BY DEF invocation, QuietAnswers, CorpusAnswers, AllAnswers, Records

\* The seed of a report is a seed.
LEMMA FailsTyped ==
  ASSUME CampaignTypes, NEW i \in DOMAIN fails
  PROVE  fails[i] \in Records /\ fails[i].seed \in Seeds
<1>1. fails[i] \in Records
  BY ElementOfSeq, LenProperties DEF CampaignTypes
<1> QED
  BY <1>1 DEF Records

\* Reports stay true of a machine whose answers do not change.
LEMMA SameReports ==
  ASSUME CampaignTypes, ReportInv, UNCHANGED <<invocation, fails>>
  PROVE  ReportInv'
<1> SUFFICES ASSUME NEW i \in DOMAIN fails
             PROVE  fails[i].finding \in QuietAnswers(fails[i].seed)' /\ IsFinding(fails[i].finding)
  BY DEF ReportInv
<1> QED
  BY FailsTyped, SameAnswers DEF ReportInv

\* The seeds consumed are seeds.
LEMMA ConsumedSeeds == CampaignTypes => 1 .. consumed \subseteq Seeds
BY FuzzCampaignAssumption DEF CampaignTypes, Seeds

\* A finding that was reported or put aside still is.
LEMMA SameCover ==
  ASSUME CampaignTypes, CoverInv, UNCHANGED <<invocation, consumed, suspects, fails>>,
         phase \in {"pool", "recheck", "corpus"}
  PROVE  CoverInv'
<1> SUFFICES ASSUME NEW u \in 1 .. consumed, \E a \in QuietAnswers(u)' : IsFinding(a)
             PROVE  \/ \E i \in DOMAIN fails : fails[i].seed = u
                    \/ \E i \in DOMAIN suspects : suspects[i] = u
  BY DEF CoverInv
<1>1. u \in Seeds
  BY ConsumedSeeds
<1> QED
  BY <1>1, SameAnswers DEF CoverInv

\* A step that touches neither the seeds' answers nor the reports.
LEMMA OtherSteps ==
  ASSUME CampaignInv, UNCHANGED <<invocation, answers, consumed, suspects, fails>>,
         repro' \in Seq({"seen", "skipped", "minimized"}),
         PhaseInv', CoverInv', VerdictExact'
  PROVE  CampaignInv'
<1>1. CampaignTypes'
  BY SameAnswers DEF CampaignInv, CampaignTypes
<1>2. AnswerInv'
  BY SameAnswers DEF CampaignInv, AnswerInv
<1>3. ReportInv'
  BY SameReports DEF CampaignInv
<1> QED
  BY <1>1, <1>2, <1>3 DEF CampaignInv

\* The verdict is set once, and the answers it is about do not change.
LEMMA SameVerdict ==
  ASSUME VerdictExact, UNCHANGED invocation, verdict' = verdict
  PROVE  VerdictExact'
BY SameAnswers DEF VerdictExact

\* The invocation is skipped, or its command begins with nothing consumed.
LEMMA StartInv == ASSUME CampaignInv, Start PROVE CampaignInv'
<1>1. /\ UNCHANGED <<invocation, answers, consumed, suspects, fails, repro>>
      /\ phase = "start" /\ verdict = "" /\ consumed = 0
      /\ args.cmd \in {"run", "corpus", "shrink"} /\ args' = args
  BY FuzzCampaignAssumption, SameAnswers
     DEF Start, poolVars, CampaignInv, CampaignTypes, PhaseInv
<1>2. suspects = << >>
  BY <1>1 DEF CampaignInv, PhaseInv
<1>3. PhaseInv'
  BY <1>1, <1>2 DEF Start, PhaseInv
<1>4. CoverInv'
  <2>1. consumed' = 0
    BY <1>1
  <2>2. 1 .. 0 = {}
    OBVIOUS
  <2> QED
    BY <2>1, <2>2 DEF CoverInv
<1>5. VerdictExact'
  BY <1>1, SameVerdict DEF Start, VerdictExact, CampaignInv
<1> QED
  BY <1>1, <1>3, <1>4, <1>5, OtherSteps DEF CampaignInv, CampaignTypes

\* A worker finishes in time, or is late and answers a timeout.
LEMMA FinishInv ==
  ASSUME CampaignInv, NEW s \in Seeds, Finish(s)
  PROVE  CampaignInv'
<1>1. /\ UNCHANGED <<invocation, phase, consumed, suspects, fails, repro, verdict>>
      /\ \A u \in Seeds \ {s} : answers'[u] = answers[u]
      /\ DOMAIN answers' = Seeds
      /\ \/ answers'[s] = quiet[s].run /\ answers'[s] # Stuck
         \/ answers'[s].kind = "hang"
  BY DEF Finish, CampaignInv, CampaignTypes
<1>2. CampaignTypes'
  BY <1>1, SameAnswers DEF CampaignInv, CampaignTypes
<1>3. AnswerInv'
  BY <1>1, SameAnswers DEF CampaignInv, AnswerInv
<1>4. PhaseInv'
  BY <1>1, SameAnswers DEF CampaignInv, PhaseInv
<1>5. ReportInv'
  BY <1>1, SameReports DEF CampaignInv
<1>6. CoverInv'
  BY <1>1, SameCover DEF Finish, CampaignInv
<1>7. VerdictExact'
  BY <1>1, SameVerdict DEF CampaignInv
<1> QED
  BY <1>2, <1>3, <1>4, <1>5, <1>6, <1>7 DEF CampaignInv

\* A worker that takes a seed says nothing about it yet.
LEMMA TakeInv == ASSUME CampaignInv, Take PROVE CampaignInv'
<1>1. UNCHANGED <<invocation, phase, answers, consumed, suspects, fails, repro, verdict>>
  BY DEF Take
<1>2. PhaseInv'
  BY <1>1, SameAnswers DEF CampaignInv, PhaseInv
<1>3. CoverInv'
  BY <1>1, SameCover DEF Take, CampaignInv
<1> QED
  BY <1>1, <1>2, <1>3, OtherSteps, SameVerdict DEF CampaignInv, CampaignTypes

----------------------------------------------------------------------------
(* Reports.                                                                *)

ReportedIn(found, s) == \E i \in DOMAIN found : found[i].seed = s

\* A list of reports that a quiet machine would confirm.
Sound(found) ==
  /\ found \in Seq(Records)
  /\ \A i \in DOMAIN found : /\ found[i].finding \in QuietAnswers(found[i].seed)
                             /\ IsFinding(found[i].finding)

\* One more report of a finding that a quiet machine makes.
LEMMA AddReport ==
  ASSUME args \in Invocations, NEW found, Sound(found),
         NEW s \in Seeds, NEW a \in QuietAnswers(s), IsFinding(a), NEW c \in BOOLEAN
  PROVE  /\ Sound(Append(found, Record(s, a, c)))
         /\ \A u : ReportedIn(Append(found, Record(s, a, c)), u) <=> ReportedIn(found, u) \/ u = s
         /\ Append(found, Record(s, a, c)) # << >>
<1> DEFINE e == Record(s, a, c)
           more == Append(found, e)
<1>1. a \in AllAnswers
  <2>1. args.cmd \in {"run", "corpus", "shrink"}
    BY FuzzCampaignAssumption
  <2>2. a \in {quiet[s].run, quiet[s].oracle, quiet[s].sanitize}
    BY <2>1 DEF QuietAnswers, CorpusAnswers
  <2> QED
    BY <2>2 DEF AllAnswers
<1>2. e \in Records /\ e.seed = s /\ e.finding = a
  BY <1>1 DEF Records, Record
<1>3. /\ more \in Seq(Records) /\ more # << >>
      /\ Len(found) \in Nat /\ DOMAIN found = 1 .. Len(found)
      /\ DOMAIN more = 1 .. Len(found) + 1
      /\ \A i \in 1 .. Len(found) : more[i] = found[i]
      /\ more[Len(found) + 1] = e
  <2> HIDE DEF e
  <2> QED
    BY <1>2, Appended DEF Sound
<1>4. ASSUME NEW i \in DOMAIN more
      PROVE  more[i].finding \in QuietAnswers(more[i].seed) /\ IsFinding(more[i].finding)
  <2> HIDE DEF e, more
  <2>1. CASE i \in 1 .. Len(found)
    BY <1>3, <2>1 DEF Sound
  <2>2. CASE i = Len(found) + 1
    BY <1>2, <1>3, <2>2
  <2> QED
    BY <1>3, <1>4, <2>1, <2>2
<1>5. ASSUME NEW u PROVE ReportedIn(more, u) <=> ReportedIn(found, u) \/ u = s
  <2> HIDE DEF e, more
  <2>1. ASSUME ReportedIn(found, u) PROVE ReportedIn(more, u)
    BY <1>3, <2>1 DEF ReportedIn
  <2>2. ReportedIn(more, s)
    BY <1>2, <1>3 DEF ReportedIn
  <2>3. ASSUME ReportedIn(more, u), u # s PROVE ReportedIn(found, u)
    <3>1. PICK i \in DOMAIN more : more[i].seed = u
      BY <2>3 DEF ReportedIn
    <3>2. i # Len(found) + 1
      BY <1>2, <1>3, <2>3, <3>1
    <3>3. i \in 1 .. Len(found)
      BY <1>3, <3>1, <3>2
    <3> QED
      BY <1>3, <3>1, <3>3 DEF ReportedIn
  <2> QED
    BY <2>1, <2>2, <2>3
<1> QED
  BY <1>3, <1>4, <1>5 DEF Sound

\* Reports that are sound before the step are sound after it.
LEMMA NewReports ==
  ASSUME UNCHANGED invocation, Sound(fails')
  PROVE  fails' \in Seq(Records') /\ ReportInv'
<1>1. fails' \in Seq(Records')
  BY SameAnswers DEF Sound
<1>2. ASSUME NEW i \in DOMAIN fails' PROVE fails'[i].seed \in Seeds
  <2>1. fails'[i] \in Records
    BY <1>2, ElementOfSeq, LenProperties DEF Sound
  <2> QED
    BY <2>1 DEF Records
<1>3. ReportInv'
  <2> SUFFICES ASSUME NEW i \in DOMAIN fails'
               PROVE  (/\ fails[i].finding \in QuietAnswers(fails[i].seed)
                       /\ IsFinding(fails[i].finding))'
    BY DEF ReportInv
  <2>1. fails'[i].finding \in QuietAnswers(fails'[i].seed) /\ IsFinding(fails'[i].finding)
    BY DEF Sound
  <2> QED
    BY <1>2, <2>1, SameAnswers DEF QuietAnswers, CorpusAnswers
<1> QED
  BY <1>1, <1>3

\* The reports and the seeds put aside still account for every finding.
Accounts(s, found, aside) ==
  (\E a \in QuietAnswers(s) : IsFinding(a)) =>
     ReportedIn(found, s) \/ \E i \in DOMAIN aside : aside[i] = s

\* The main thread takes an answer: silent, a timeout to be run again, or a
\* finding that a quiet machine makes too.
LEMMA ConsumeInv == ASSUME CampaignInv, Consume PROVE CampaignInv'
<1> DEFINE s == consumed + 1
           a == answers[s]
<1>1. /\ UNCHANGED <<invocation, phase, answers, repro, verdict>>
      /\ phase = "pool" /\ consumed < NSeeds /\ consumed' = s /\ a # Go
      /\ consumed \in Nat /\ s \in Seeds /\ consumed' \in 0 .. NSeeds
      /\ args.cmd = "run" /\ args \in Invocations
  <2>1. /\ UNCHANGED <<invocation, phase, answers, repro, verdict>>
        /\ phase = "pool" /\ consumed < NSeeds /\ consumed' = s /\ a # Go
    BY DEF Consume
  <2>2. consumed \in 0 .. NSeeds /\ args \in Invocations
    BY DEF CampaignInv, CampaignTypes
  <2>3. args.cmd = "run"
    BY <2>1 DEF CampaignInv, PhaseInv
  <2>4. consumed \in Nat /\ s \in 1 .. NSeeds /\ s \in 0 .. NSeeds
    BY <2>1, <2>2, FuzzCampaignAssumption
  <2> QED
    BY <2>1, <2>2, <2>3, <2>4 DEF Seeds
<1>2. /\ Sound(fails) /\ suspects \in Seq(Seeds)
      /\ \A u \in 1 .. consumed : Accounts(u, fails, suspects)
  BY <1>1 DEF CampaignInv, CampaignTypes, ReportInv, Sound, CoverInv, Accounts, ReportedIn
<1>3. QuietAnswers(s) = {quiet[s].run}
  BY <1>1 DEF QuietAnswers
<1>4. (a = quiet[s].run /\ a # Stuck) \/ a.kind = "hang"
  BY <1>1 DEF CampaignInv, AnswerInv
<1>5. /\ Sound(fails') /\ suspects' \in Seq(Seeds)
      /\ \A u \in 1 .. consumed : Accounts(u, fails', suspects')
      /\ Accounts(s, fails', suspects')
  <2> HIDE DEF s, a
  <2>1. CASE a = None /\ UNCHANGED <<suspects, fails>>
    <3>1. quiet[s].run = None
      BY <1>4, <2>1 DEF None, F
    <3>2. ~IsFinding(quiet[s].run)
      BY <3>1 DEF IsFinding
    <3> QED
      BY <1>2, <1>3, <2>1, <3>2 DEF Accounts
  <2>2. CASE suspects' = Append(suspects, s) /\ UNCHANGED fails
    <3>1. /\ suspects' \in Seq(Seeds)
          /\ Len(suspects) \in Nat /\ DOMAIN suspects = 1 .. Len(suspects)
          /\ DOMAIN suspects' = 1 .. Len(suspects) + 1
          /\ \A i \in 1 .. Len(suspects) : suspects'[i] = suspects[i]
          /\ suspects'[Len(suspects) + 1] = s
      BY <1>1, <1>2, <2>2, Appended
    <3>2. \A u : (\E i \in DOMAIN suspects : suspects[i] = u)
                    => (\E i \in DOMAIN suspects' : suspects'[i] = u)
      BY <3>1
    <3>3. \E i \in DOMAIN suspects' : suspects'[i] = s
      BY <3>1
    <3> QED
      BY <1>2, <2>2, <3>1, <3>2, <3>3 DEF Accounts
  <2>3. CASE /\ a # None /\ a.kind # "hang"
             /\ fails' = Append(fails, Record(s, a, FALSE)) /\ UNCHANGED suspects
    <3>1. a \in QuietAnswers(s) /\ IsFinding(a)
      BY <1>3, <1>4, <2>3 DEF IsFinding
    <3>2. /\ Sound(fails')
          /\ \A u : ReportedIn(fails', u) <=> ReportedIn(fails, u) \/ u = s
      BY <1>1, <1>2, <2>3, <3>1, AddReport
    <3> QED
      BY <1>2, <2>3, <3>2 DEF Accounts
  <2> QED
    BY <2>1, <2>2, <2>3 DEF Consume, s, a
<1>6. CampaignTypes'
  BY <1>1, <1>5, SameAnswers, NewReports DEF CampaignInv, CampaignTypes
<1>7. PhaseInv'
  BY <1>1, SameAnswers DEF CampaignInv, PhaseInv
<1>8. AnswerInv'
  BY <1>1, SameAnswers DEF CampaignInv, AnswerInv
<1>9. CoverInv'
  <2> SUFFICES ASSUME NEW u \in 1 .. consumed', \E b \in QuietAnswers(u)' : IsFinding(b)
               PROVE  \/ \E i \in DOMAIN fails' : fails'[i].seed = u
                      \/ \E i \in DOMAIN suspects' : suspects'[i] = u
    BY DEF CoverInv
  <2>1. u \in Seeds /\ (u \in 1 .. consumed \/ u = s)
    BY <1>1, FuzzCampaignAssumption DEF Seeds
  <2>2. \E b \in QuietAnswers(u) : IsFinding(b)
    BY <1>1, <2>1, SameAnswers
  <2> QED
    BY <1>5, <2>1, <2>2 DEF Accounts, ReportedIn
<1> QED
  BY <1>1, <1>5, <1>6, <1>7, <1>8, <1>9, NewReports, SameVerdict DEF CampaignInv

\* The invariant, said of the lists of reports.
LEMMA InvSound ==
  ASSUME CampaignInv
  PROVE  /\ Sound(fails) /\ suspects \in Seq(Seeds) /\ args \in Invocations
         /\ phase \in {"pool", "recheck", "corpus"} =>
              \A u \in 1 .. consumed : Accounts(u, fails, suspects)
BY DEF CampaignInv, CampaignTypes, ReportInv, Sound, CoverInv, Accounts, ReportedIn

\* Some seed has a finding.
SomeFinding == \E s \in Seeds : \E r \in QuietAnswers(s) : IsFinding(r)

\* Where something is reported, some seed has a finding.
LEMMA ReportedSome ==
  ASSUME Sound(fails), fails # << >>
  PROVE  SomeFinding
<1>1. 1 \in DOMAIN fails /\ fails[1] \in Records
  BY Headless DEF Sound
<1>2. fails[1].seed \in Seeds
  BY <1>1 DEF Records
<1> QED
  BY <1>1, <1>2 DEF Sound, SomeFinding

\* A run with nothing reported and nothing put aside has found nothing.
LEMMA SilentNone ==
  ASSUME fails = << >>, suspects = << >>, consumed = NSeeds,
         \A u \in 1 .. consumed : Accounts(u, fails, suspects)
  PROVE  ~SomeFinding
BY DEF Accounts, ReportedIn, SomeFinding, Seeds

\* The verdict of a finished invocation, from what it reported.
LEMMA SetVerdict ==
  ASSUME UNCHANGED invocation,
         \/ verdict' = "FAIL" /\ SomeFinding
         \/ verdict' = "PASS" /\ ~SomeFinding
         \/ verdict' \notin {"PASS", "FAIL"}
  PROVE  VerdictExact'
<1>1. SomeFinding' <=> SomeFinding
  BY SameAnswers DEF SomeFinding
<1> QED
  BY <1>1 DEF VerdictExact, SomeFinding

\* The pool is empty: the suspects are next.
LEMMA PoolDrainedInv == ASSUME CampaignInv, PoolDrained PROVE CampaignInv'
<1>1. /\ UNCHANGED <<invocation, answers, consumed, suspects, fails, repro, verdict>>
      /\ phase = "pool" /\ phase' = "recheck" /\ consumed = NSeeds
  BY DEF PoolDrained, poolVars
<1>2. PhaseInv'
  BY <1>1, SameAnswers DEF CampaignInv, PhaseInv
<1> QED
  BY <1>1, <1>2, SameCover, OtherSteps, SameVerdict DEF CampaignInv, CampaignTypes

\* The second run of a suspect settles it: its finding is reported, or there is
\* none.
LEMMA RecheckInv == ASSUME CampaignInv, Recheck PROVE CampaignInv'
<1> DEFINE s == Head(suspects)
           r == quiet[s].run
<1>1. /\ UNCHANGED <<invocation, phase, answers, consumed, repro, verdict>>
      /\ phase = "recheck" /\ suspects # << >> /\ suspects' = Tail(suspects) /\ r # Stuck
      /\ fails' = IF r = None THEN fails ELSE Append(fails, Record(s, r, r.kind = "hang"))
  BY DEF Recheck, poolVars
<1>2. /\ Sound(fails) /\ suspects \in Seq(Seeds) /\ args \in Invocations
      /\ \A u \in 1 .. consumed : Accounts(u, fails, suspects)
  BY <1>1, InvSound
<1>3. /\ s \in Seeds /\ s = suspects[1] /\ Tail(suspects) \in Seq(Seeds)
      /\ Len(suspects) \in Nat \ {0} /\ DOMAIN suspects = 1 .. Len(suspects)
      /\ DOMAIN Tail(suspects) = 1 .. Len(suspects) - 1
      /\ \A i \in 1 .. Len(suspects) - 1 : Tail(suspects)[i] = suspects[i + 1]
  BY <1>1, <1>2, Headless
<1>4. args.cmd = "run" /\ QuietAnswers(s) = {r}
  BY <1>1 DEF CampaignInv, PhaseInv, QuietAnswers
<1>5. /\ Sound(fails') /\ \A u : ReportedIn(fails, u) => ReportedIn(fails', u)
      /\ IsFinding(r) => ReportedIn(fails', s)
  <2> HIDE DEF s
  <2>1. CASE r = None
    BY <1>1, <1>2, <2>1 DEF IsFinding
  <2>2. CASE r # None
    <3> DEFINE c == r.kind = "hang"
    <3>1. r \in QuietAnswers(s) /\ IsFinding(r) /\ c \in BOOLEAN
      BY <1>1, <1>4, <2>2 DEF IsFinding
    <3>2. fails' = Append(fails, Record(s, r, c))
      BY <1>1, <2>2
    <3> HIDE DEF c, r
    <3> QED
      BY <1>2, <1>3, <3>1, <3>2, AddReport
  <2> QED
    BY <2>1, <2>2
<1>6. ASSUME NEW u \in 1 .. consumed PROVE Accounts(u, fails', suspects')
  <2> HIDE DEF s, r
  <2> SUFFICES ASSUME \E b \in QuietAnswers(u) : IsFinding(b)
               PROVE  ReportedIn(fails', u) \/ \E i \in DOMAIN suspects' : suspects'[i] = u
    BY DEF Accounts
  <2>1. CASE u = s
    BY <1>4, <1>5, <2>1
  <2>2. CASE ReportedIn(fails, u)
    BY <1>5, <2>2
  <2>3. CASE u # s /\ \E i \in DOMAIN suspects : suspects[i] = u
    <3>1. PICK i \in 1 .. Len(suspects) : suspects[i] = u
      BY <1>3, <2>3
    <3>2. i - 1 \in 1 .. Len(suspects) - 1 /\ (i - 1) + 1 = i
      BY <1>3, <2>3, <3>1
    <3>3. Tail(suspects)[i - 1] = u /\ i - 1 \in DOMAIN Tail(suspects)
      BY <1>3, <3>1, <3>2
    <3> QED
      BY <1>1, <3>3
  <2> QED
    BY <1>2, <2>1, <2>2, <2>3 DEF Accounts
<1> HIDE DEF s, r
<1>7. CampaignTypes'
  BY <1>1, <1>3, <1>5, SameAnswers, NewReports DEF CampaignInv, CampaignTypes
<1>8. PhaseInv'
  BY <1>1, SameAnswers DEF CampaignInv, PhaseInv
<1>9. AnswerInv'
  BY <1>1, SameAnswers DEF CampaignInv, AnswerInv
<1>10. CoverInv'
  <2> SUFFICES ASSUME NEW u \in 1 .. consumed', \E b \in QuietAnswers(u)' : IsFinding(b)
               PROVE  \/ \E i \in DOMAIN fails' : fails'[i].seed = u
                      \/ \E i \in DOMAIN suspects' : suspects'[i] = u
    BY DEF CoverInv
  <2>1. u \in Seeds /\ u \in 1 .. consumed
    BY <1>1, ConsumedSeeds DEF CampaignInv
  <2>2. \E b \in QuietAnswers(u) : IsFinding(b)
    BY <1>1, <2>1, SameAnswers
  <2> QED
    BY <1>6, <2>1, <2>2 DEF Accounts, ReportedIn
<1> QED
  BY <1>1, <1>5, <1>7, <1>8, <1>9, <1>10, NewReports, SameVerdict DEF CampaignInv

\* The findings are bucketed and shrunk, or they decide the verdict at once.
LEMMA SummariseInv == ASSUME CampaignInv, Summarise PROVE CampaignInv'
<1>1. /\ UNCHANGED <<invocation, answers, consumed, suspects, fails, repro>>
      /\ phase = "recheck" /\ suspects = << >>
      /\ \/ fails = << >> /\ phase' = "done" /\ verdict' = "PASS"
         \/ fails # << >> /\ phase' = "triage" /\ verdict' = verdict
         \/ fails # << >> /\ phase' = "done" /\ verdict' = "FAIL"
  BY DEF Summarise, poolVars
<1>2. consumed = NSeeds /\ verdict = ""
  BY <1>1 DEF CampaignInv, PhaseInv
<1>3. PhaseInv'
  BY <1>1, <1>2, SameAnswers DEF CampaignInv, PhaseInv
<1>4. CoverInv'
  BY <1>1 DEF CoverInv
<1>5. VerdictExact'
  BY <1>1, <1>2, InvSound, ReportedSome, SilentNone, SetVerdict
<1> QED
  BY <1>1, <1>3, <1>4, <1>5, OtherSteps DEF CampaignInv, CampaignTypes

----------------------------------------------------------------------------
(* Auto-shrink, the command `shrink`, and the corpus.                      *)

\* Auto-shrink deals with the records one by one and leaves them as they are.
TriageStep ==
  /\ UNCHANGED <<invocation, answers, consumed, suspects, fails, verdict>>
  /\ phase \in {"triage", "shrink"} /\ phase' \in {"triage", "shrink"}
  /\ \/ repro' = repro
     \/ \E what \in {"seen", "skipped", "minimized"} : repro' = Append(repro, what)

\* The four actions of auto-shrink are such steps.
LEMMA TriageSteps ==
  ASSUME CampaignInv,
         SkipRecord \/ BeginShrink \/ WriteRepro \/ (ShrinkLoop /\ phase = "shrink")
  PROVE  TriageStep
BY DEF SkipRecord, BeginShrink, WriteRepro, ShrinkLoop, TriageStep, poolVars, campaignVars

\* Auto-shrink keeps the invariant.
LEMMA TriageStepInv == ASSUME CampaignInv, TriageStep PROVE CampaignInv'
<1>1. repro' \in Seq({"seen", "skipped", "minimized"})
  <2> DEFINE outcomes == {"seen", "skipped", "minimized"}
  <2>1. repro \in Seq(outcomes)
    BY DEF CampaignInv, CampaignTypes
  <2>2. repro' = repro \/ \E what \in outcomes : repro' = Append(repro, what)
    BY DEF TriageStep
  <2> HIDE DEF outcomes
  <2>3. repro' \in Seq(outcomes)
    BY <2>1, <2>2, Appended
  <2> QED
    BY <2>3 DEF outcomes
<1>2. PhaseInv'
  BY SameAnswers DEF TriageStep, CampaignInv, PhaseInv
<1>3. CoverInv'
  BY DEF TriageStep, CoverInv
<1> QED
  BY <1>1, <1>2, <1>3, OtherSteps, SameVerdict DEF TriageStep, CampaignInv

\* Every record is dealt with: there was one, so the verdict is FAIL.
LEMMA WriteTriageFindingsInv ==
  ASSUME CampaignInv, WriteTriageFindings PROVE CampaignInv'
<1>1. /\ UNCHANGED <<invocation, answers, consumed, suspects, fails, repro>>
      /\ phase = "triage" /\ phase' = "done" /\ verdict' = "FAIL"
  BY DEF WriteTriageFindings, poolVars
<1>2. fails # << >>
  BY <1>1 DEF CampaignInv, PhaseInv
<1>3. PhaseInv'
  BY <1>1, SameAnswers DEF CampaignInv, PhaseInv
<1>4. CoverInv'
  BY <1>1 DEF CoverInv
<1>5. VerdictExact'
  BY <1>1, <1>2, InvSound, ReportedSome, SetVerdict
<1> QED
  BY <1>1, <1>3, <1>4, <1>5, OtherSteps DEF CampaignInv, CampaignTypes

\* The command `shrink` reports nothing and exits with 0.
LEMMA MinimizeInv ==
  ASSUME CampaignInv, ShrinkSeed \/ PrintMinimal \/ (ShrinkLoop /\ phase = "minimize")
  PROVE  CampaignInv'
<1>1. /\ UNCHANGED <<invocation, answers, consumed, suspects, fails, repro>>
      /\ phase = "minimize"
      /\ \/ phase' = "done" /\ verdict' = "EXIT 0"
         \/ phase' = phase /\ verdict' = verdict
  BY DEF ShrinkSeed, PrintMinimal, ShrinkLoop, poolVars, campaignVars
<1>2. PhaseInv'
  BY <1>1, SameAnswers DEF CampaignInv, PhaseInv
<1>3. CoverInv'
  BY <1>1 DEF CoverInv
<1>4. VerdictExact'
  BY <1>1, SetVerdict DEF CampaignInv, PhaseInv
<1> QED
  BY <1>1, <1>2, <1>3, <1>4, OtherSteps DEF CampaignInv, CampaignTypes

\* One answer about a corpus file is reported if it is a finding.
LEMMA RegressionSound ==
  ASSUME args \in Invocations, NEW found, Sound(found),
         NEW f \in Seeds, NEW r \in QuietAnswers(f), r # Stuck
  PROVE  /\ Sound(Regression(found, f, r))
         /\ \A u : ReportedIn(found, u) => ReportedIn(Regression(found, f, r), u)
         /\ IsFinding(r) => ReportedIn(Regression(found, f, r), f)
<1>1. CASE r = None
  BY <1>1 DEF Regression, IsFinding
<1>2. CASE r # None
  <2>1. IsFinding(r)
    BY <1>2 DEF IsFinding
  <2>2. Regression(found, f, r) = Append(found, Record(f, r, FALSE))
    BY <1>2 DEF Regression
  <2>3. /\ Sound(Append(found, Record(f, r, FALSE)))
        /\ \A u : ReportedIn(Append(found, Record(f, r, FALSE)), u)
                    <=> ReportedIn(found, u) \/ u = f
    <3>1. ASSUME NEW c \in BOOLEAN
          PROVE  /\ Sound(Append(found, Record(f, r, c)))
                 /\ \A u : ReportedIn(Append(found, Record(f, r, c)), u)
                             <=> ReportedIn(found, u) \/ u = f
      BY <2>1, AddReport
    <3> QED
      BY <3>1
  <2> QED
    BY <2>2, <2>3
<1> QED
  BY <1>1, <1>2

\* A corpus file is replayed through both oracles.
LEMMA ReplayFileInv == ASSUME CampaignInv, ReplayFile PROVE CampaignInv'
<1> DEFINE f == consumed + 1
           differential == Regression(fails, f, quiet[f].oracle)
<1>1. /\ UNCHANGED <<invocation, phase, answers, suspects, repro, verdict>>
      /\ phase = "corpus" /\ consumed < NSeeds /\ consumed' = f
      /\ Stuck \notin CorpusAnswers(f)
      /\ fails' = IF "ubsan" \in tools THEN Regression(differential, f, quiet[f].sanitize)
                  ELSE differential
  BY DEF ReplayFile
<1>2. consumed \in 0 .. NSeeds /\ args \in Invocations
  BY DEF CampaignInv, CampaignTypes
<1>3. consumed \in Nat /\ f \in Seeds /\ consumed' \in 0 .. NSeeds
  BY <1>1, <1>2, FuzzCampaignAssumption DEF Seeds
<1>4. args.cmd = "corpus" /\ QuietAnswers(f) = CorpusAnswers(f)
  BY <1>1 DEF CampaignInv, PhaseInv, QuietAnswers
<1>5. /\ Sound(fails) /\ \A u \in 1 .. consumed : Accounts(u, fails, suspects)
  BY <1>1, InvSound
<1> HIDE DEF f
<1>6. /\ quiet[f].oracle \in QuietAnswers(f) /\ quiet[f].oracle # Stuck
      /\ "ubsan" \in tools => quiet[f].sanitize \in QuietAnswers(f) /\ quiet[f].sanitize # Stuck
  BY <1>1, <1>4 DEF CorpusAnswers
<1>7. /\ Sound(differential) /\ \A u : ReportedIn(fails, u) => ReportedIn(differential, u)
      /\ IsFinding(quiet[f].oracle) => ReportedIn(differential, f)
  BY <1>2, <1>3, <1>5, <1>6, RegressionSound
<1> HIDE DEF differential
<1>8. /\ Sound(fails') /\ \A u : ReportedIn(fails, u) => ReportedIn(fails', u)
      /\ \A r \in QuietAnswers(f) : IsFinding(r) => ReportedIn(fails', f)
  <2>1. CASE "ubsan" \in tools
    <3>1. /\ Sound(fails') /\ \A u : ReportedIn(differential, u) => ReportedIn(fails', u)
          /\ IsFinding(quiet[f].sanitize) => ReportedIn(fails', f)
      BY <1>1, <1>2, <1>3, <1>6, <1>7, <2>1, RegressionSound
    <3> QED
      BY <1>4, <1>7, <2>1, <3>1 DEF CorpusAnswers
  <2>2. CASE "ubsan" \notin tools
    BY <1>1, <1>4, <1>7, <2>2 DEF CorpusAnswers
  <2> QED
    BY <2>1, <2>2
<1>9. \A u \in 1 .. consumed : Accounts(u, fails', suspects)
  BY <1>5, <1>8 DEF Accounts
<1>10. Accounts(f, fails', suspects)
  BY <1>8 DEF Accounts
<1>11. CampaignTypes'
  BY <1>1, <1>3, <1>8, SameAnswers, NewReports DEF CampaignInv, CampaignTypes
<1>12. PhaseInv'
  BY <1>1, SameAnswers DEF CampaignInv, PhaseInv
<1>13. AnswerInv'
  BY <1>1, SameAnswers DEF CampaignInv, AnswerInv
<1>14. CoverInv'
  <2> SUFFICES ASSUME NEW u \in 1 .. consumed', \E b \in QuietAnswers(u)' : IsFinding(b)
               PROVE  \/ \E i \in DOMAIN fails' : fails'[i].seed = u
                      \/ \E i \in DOMAIN suspects' : suspects'[i] = u
    BY DEF CoverInv
  <2>1. u \in Seeds /\ (u \in 1 .. consumed \/ u = f)
    BY <1>1, <1>3, FuzzCampaignAssumption DEF Seeds, f
  <2>2. \E b \in QuietAnswers(u) : IsFinding(b)
    BY <1>1, <2>1, SameAnswers
  <2> QED
    BY <1>1, <1>9, <1>10, <2>1, <2>2 DEF Accounts, ReportedIn
<1> QED
  BY <1>1, <1>8, <1>11, <1>12, <1>13, <1>14, NewReports, SameVerdict DEF CampaignInv

\* The corpus has been replayed.
LEMMA CorpusDoneInv == ASSUME CampaignInv, CorpusDone PROVE CampaignInv'
<1>1. /\ UNCHANGED <<invocation, answers, consumed, suspects, fails, repro>>
      /\ phase = "corpus" /\ consumed = NSeeds /\ phase' = "done"
      /\ verdict' = IF fails = << >> THEN "PASS" ELSE "FAIL"
  BY DEF CorpusDone, poolVars
<1>2. suspects = << >>
  BY <1>1 DEF CampaignInv, PhaseInv
<1>3. PhaseInv'
  BY <1>1, SameAnswers DEF CampaignInv, PhaseInv
<1>4. CoverInv'
  BY <1>1 DEF CoverInv
<1>5. VerdictExact'
  BY <1>1, <1>2, InvSound, ReportedSome, SilentNone, SetVerdict
<1> QED
  BY <1>1, <1>3, <1>4, <1>5, OtherSteps DEF CampaignInv, CampaignTypes

----------------------------------------------------------------------------
(* The theorems.                                                           *)

\* An invocation begins with nothing taken, put aside or reported.
LEMMA InitInv == Init => CampaignInv
<1> SUFFICES ASSUME Init PROVE CampaignInv
  OBVIOUS
<1>1. /\ args \in Invocations /\ phase = "start" /\ consumed = 0 /\ verdict = ""
      /\ suspects = << >> /\ fails = << >> /\ repro = << >>
      /\ answers = [s \in Seeds |-> Go]
  BY DEF Init
<1>2. DOMAIN fails = {}
  <2>1. fails = << >>
    BY <1>1
  <2> QED
    BY <2>1
<1>3. CampaignTypes
  <2>1. consumed \in 0 .. NSeeds
    <3>1. consumed = 0
      BY <1>1
    <3> QED
      BY <3>1, FuzzCampaignAssumption
  <2> QED
    BY <1>1, <2>1, EmptySeq DEF CampaignTypes
<1>4. PhaseInv
  BY <1>1 DEF PhaseInv
<1>5. AnswerInv
  BY <1>1 DEF AnswerInv
<1>6. ReportInv
  BY <1>2 DEF ReportInv
<1>7. CoverInv /\ VerdictExact
  BY <1>1 DEF CoverInv, VerdictExact
<1> QED
  BY <1>3, <1>4, <1>5, <1>6, <1>7 DEF CampaignInv

\* Every step of the main thread and of the workers keeps the invariant.
LEMMA NextInv == ASSUME CampaignInv, [Next]_vars PROVE CampaignInv'
<1>1. CASE Main
  BY <1>1, StartInv, ConsumeInv, PoolDrainedInv, RecheckInv, SummariseInv, TriageSteps,
     TriageStepInv, WriteTriageFindingsInv, MinimizeInv, ReplayFileInv, CorpusDoneInv
     DEF Main, ShrinkLoop
<1>2. CASE Take
  BY <1>2, TakeInv
<1>3. CASE \E s \in Seeds : Finish(s)
  BY <1>3, FinishInv
<1>4. CASE UNCHANGED vars
  <2>1. UNCHANGED <<invocation, phase, answers, consumed, suspects, fails, repro, verdict>>
    BY <1>4 DEF vars, campaignVars
  <2>2. PhaseInv'
    BY <2>1, SameAnswers DEF CampaignInv, PhaseInv
  <2>3. CoverInv'
    BY <2>1, SameCover DEF CampaignInv, CoverInv
  <2> QED
    BY <2>1, <2>2, <2>3, OtherSteps, SameVerdict DEF CampaignInv, CampaignTypes
<1> QED
  BY <1>1, <1>2, <1>3, <1>4 DEF Next

\* Nothing is reported that a quiet machine would not show, for any number of
\* seeds and workers, and whatever deadlines the load of the pool makes them miss.
THEOREM ReportsAreReal == Spec => []ReportedIsReal
<1>1. CampaignInv => ReportedIsReal
  BY DEF CampaignInv, ReportInv, ReportedIsReal
<1> QED
  BY <1>1, InitInv, NextInv, PTL DEF Spec

\* The exit code of `run` and of `corpus` says whether some seed or file has a
\* finding: none is lost between the pool, the suspects and the reports.
THEOREM VerdictIsExact == Spec => []VerdictExact
<1>1. CampaignInv => VerdictExact
  BY DEF CampaignInv
<1> QED
  BY <1>1, InitInv, NextInv, PTL DEF Spec

\* What the campaign does with the shrinker is what shrink_source allows ...
THEOREM CampaignShrinks == Spec => ShrinkSpec
<1>1. Init => ShrinkInit
  BY DEF Init
<1>2. [Next]_vars => [ShrinkBegin \/ ShrinkSteps]_shrinkVars
  <2> SUFFICES ASSUME Next, ~UNCHANGED shrinkVars
               PROVE  ShrinkBegin \/ ShrinkSteps
    BY DEF vars
  <2>1. BeginShrink \/ ShrinkLoop \/ ShrinkSeed
    BY DEF Next, Main, Start, Consume, PoolDrained, Recheck, Summarise, SkipRecord, WriteRepro,
           WriteTriageFindings, ReplayFile, CorpusDone, PrintMinimal, Take, Finish
  <2> QED
    BY <2>1 DEF BeginShrink, ShrinkLoop, ShrinkSeed
<1> QED
  BY <1>1, <1>2, PTL DEF Spec, ShrinkSpec

\* ... so every reproducer a campaign writes fails as its finding did, and no
\* line of it can go.
THEOREM ReprosMinimal == Spec => []ReproMinimal
BY CampaignShrinks, ShrinkMinimal, PTL

----------------------------------------------------------------------------
(* What an oracle may answer.                                              *)

\* The kinds of what an oracle answers: those of run_one's own `mcc check`,
\* "generator" and "tool-exec", are not among them.
OracleKinds ==
  {"go", "none", "stuck", "hang", "crash", "panic", "rejected", "compile", "backend", "trapsite",
   "divergence", "sanitizer", "soundness", "non-deterministic", "artifacts", "roundtrip",
   "metamorphic", "opt-level", "reference"}
\* The places and the diagnostic codes of an answer.
Places ==
  {"", "check", "inspect-hir", "verify-inspect-hir", "lower-mir", "verify", "inspect-ir", "facts",
   "emit-c", "emit-map", "emit-llvm", "fmt", "lex", "status", "output", "emit-compile", "link",
   "emit", "compile", "instrumentation", "trapsite", "ub", "memory", "abort", "idempotence",
   "tokens", "lowering", "trap", "value"}
Codes == {"", "E_CODE"}
Replies == [kind : OracleKinds, at : Places, code : Codes]

\* An answer of one of these kinds is a reply.
LEMMA ReplyOf ==
  ASSUME NEW kind \in OracleKinds, NEW at \in Places, NEW code \in Codes
  PROVE  F(kind, at, code) \in Replies
BY DEF Replies, F

\* The answers without a finding are replies.
LEMMA SilentReplies == Go \in Replies /\ None \in Replies /\ Stuck \in Replies
BY DEF Go, None, Stuck, F, Replies, OracleKinds, Places, Codes

\* The first step that settles an oracle exists, and gives a reply.
LEMMA FirstOfReply ==
  ASSUME NEW q \in Seq(Replies)
  PROVE  FirstOf(q) \in Replies
<1> DEFINE settled == {i \in DOMAIN q : q[i] # Go}
           First(i) == \A j \in settled : i <= j
<1>1. CASE settled = {}
  BY <1>1, SilentReplies DEF FirstOf
<1>2. CASE settled # {}
  <2>1. DOMAIN q = 1 .. Len(q) /\ Len(q) \in Nat
    BY LenProperties
  <2>2. settled \subseteq Nat
    BY <2>1
  <2>3. PICK m \in settled : \A j \in settled : <<j, m>> \notin OpToRel(<, Nat)
    <3> HIDE DEF settled
    <3> QED BY <1>2, <2>2, NatLessThanWellFounded, WFMin, Zenon
  <2>4. \A j \in settled : ~(j < m)
    BY <2>2, <2>3, Zenon DEF OpToRel
  <2>5. First(m)
    BY <2>2, <2>4
  <2>6. (CHOOSE i \in settled : First(i)) \in settled
    <3> HIDE DEF settled, First
    <3> QED BY <2>5
  <2>7. FirstOf(q) = q[CHOOSE i \in settled : First(i)]
    BY <1>2 DEF FirstOf
  <2>8. \A i \in settled : q[i] \in Replies
    BY <2>1, ElementOfSeq
  <2> HIDE DEF settled, First
  <2> QED
    BY <2>6, <2>7, <2>8
<1> QED
  BY <1>1, <1>2

\* A call without a deadline gives a reply when the answer to its failure is one.
LEMMA CallReplies ==
  ASSUME NEW w, NEW tool, NEW p, NEW f \in Replies
  PROVE  /\ Untimed(w, tool, p, f) \in Replies
         /\ CSideFailed(w, p, f) \in Replies
BY SilentReplies DEF Untimed, CSideFailed

\* A call under a deadline gives a reply.
LEMMA StageReplies ==
  ASSUME NEW w, NEW late, NEW tool \in Places, NEW p
  PROVE  /\ RunRequiredStage(w, late, tool, p) \in Replies
         /\ CheckNoCrash(w, late, p) \in Replies
<1>1. RunRequiredStage(w, late, tool, p) \in Replies
  BY SilentReplies, ReplyOf DEF RunRequiredStage, OracleKinds, Codes
<1>2. CheckNoCrash(w, late, p) \in Replies
  BY SilentReplies, ReplyOf DEF CheckNoCrash, OracleKinds, Places, Codes
<1> QED
  BY <1>1, <1>2

\* Comparing two runs gives a reply.
LEMMA CompareReplies ==
  ASSUME NEW family \in OracleKinds, NEW a, NEW b
  PROVE  CompareRuns(family, a, b) \in Replies
BY SilentReplies, ReplyOf DEF CompareRuns, Places, Codes

\* One step is a sequence of replies.
LEMMA OneReply == ASSUME NEW a \in Replies PROVE <<a>> \in Seq(Replies)
OBVIOUS

\* So are two.
LEMMA TwoReplies == ASSUME NEW a \in Replies, NEW b \in Replies PROVE <<a, b>> \in Seq(Replies)
OBVIOUS

\* The answers that the oracles name.
LEMMA NamedReplies ==
  ASSUME NEW kind \in OracleKinds, NEW at \in Places
  PROVE  /\ F(kind, at, "") \in Replies /\ F(kind, at, "E_CODE") \in Replies
         /\ \A w, tool, p : F(kind, at, FirstError(w, tool, p)) \in Replies
BY ReplyOf DEF Codes, FirstError

\* The parts that oracles share: building on the LLVM side and linking.
LEMMA BuildReplies ==
  ASSUME NEW w, NEW p
  PROVE  LlvmSide(w, p) \in Seq(Replies) /\ Links(w, p) \in Seq(Replies)
<1>1. /\ F("compile", "emit-compile", "") \in Replies /\ F("compile", "link", "") \in Replies
  BY NamedReplies DEF OracleKinds, Places
<1> DEFINE U(tool, f) == Untimed(w, tool, p, f)
<1>2. \A f \in Replies : /\ U("emit-llvm", f) \in Replies /\ U("llc", f) \in Replies
                         /\ U("link-c", f) \in Replies /\ U("link-l", f) \in Replies
  BY CallReplies
<1> QED
  BY <1>1, <1>2, TwoReplies DEF LlvmSide, Links

\* Both backends, compared.
LEMMA DifferentialReplies == ASSUME NEW w, NEW p PROVE DifferentialCompare(w, p) \in Replies
<1> DEFINE c == CASE EmitCObj(w, p) = "hang" -> Stuck
                  [] EmitCObj(w, p) = "fail" ->
                       CSideFailed(w, p, F("compile", "emit-compile", EmitError(w, p)))
                  [] OTHER -> Go
           r == CompareRuns("backend", Execute(w, "exe-c", p, "-O0"), Execute(w, "exe-l", p, "-O0"))
<1>1. c \in Replies
  <2>1. F("compile", "emit-compile", EmitError(w, p)) \in Replies
    BY NamedReplies DEF OracleKinds, Places, EmitError
  <2>2. CSideFailed(w, p, F("compile", "emit-compile", EmitError(w, p))) \in Replies
    BY <2>1, CallReplies
  <2> QED
    BY <2>2, SilentReplies
<1>2. r \in Replies
  BY CompareReplies DEF OracleKinds
<1>3. DifferentialCompare(w, p) = FirstOf(<<c>> \o LlvmSide(w, p) \o Links(w, p) \o <<r>>)
  BY DEF DifferentialCompare
<1> HIDE DEF c, r
<1>4. <<c>> \in Seq(Replies) /\ <<r>> \in Seq(Replies)
  BY <1>1, <1>2
<1>5. <<c>> \o LlvmSide(w, p) \o Links(w, p) \o <<r>> \in Seq(Replies)
  BY <1>4, BuildReplies, ConcatProperties
<1> QED
  BY <1>3, <1>5, FirstOfReply

\* oracle_trapsite.
LEMMA TrapsiteReplies == ASSUME NEW w PROVE OracleTrapsite(w) \in Replies
<1> DEFINE c == TrapsiteOutcome(w, "exe-c")
           l == TrapsiteOutcome(w, "exe-l")
           emit == CASE Exit(w, "emit-c", "base") = "hang" -> Stuck
                     [] Failed(w, "emit-c", "base") ->
                          CSideFailed(w, "base", F("trapsite", "emit", EmitError(w, "base")))
                     [] OTHER -> Go
           cc == IF Failed(w, "clang", "base")
                 THEN CSideFailed(w, "base", F("trapsite", "compile", "")) ELSE Go
           run == CASE "hang" \in {c[1], l[1]} -> Stuck
                    [] c # l -> F("divergence", "trapsite", "")
                    [] OTHER -> None
<1>1. /\ F("trapsite", "emit", EmitError(w, "base")) \in Replies
      /\ F("trapsite", "compile", "") \in Replies /\ F("trapsite", "instrumentation", "") \in Replies
      /\ F("divergence", "trapsite", "") \in Replies
  BY NamedReplies DEF OracleKinds, Places, EmitError
<1>2. \A f \in Replies : CSideFailed(w, "base", f) \in Replies
  BY CallReplies
<1>3. emit \in Replies /\ cc \in Replies /\ run \in Replies /\ InstrumentCTrapHelpers(w) \in Replies
  BY <1>1, <1>2, SilentReplies DEF InstrumentCTrapHelpers
<1>4. OracleTrapsite(w) = FirstOf(<<emit, InstrumentCTrapHelpers(w), cc>>
                                  \o LlvmSide(w, "base") \o Links(w, "base") \o <<run>>)
  BY DEF OracleTrapsite
<1> HIDE DEF c, l, emit, cc, run
<1>5. <<emit, InstrumentCTrapHelpers(w), cc>> \in Seq(Replies) /\ <<run>> \in Seq(Replies)
  BY <1>3
<1>6. <<emit, InstrumentCTrapHelpers(w), cc>> \o LlvmSide(w, "base") \o Links(w, "base") \o <<run>>
        \in Seq(Replies)
  BY <1>5, BuildReplies, ConcatProperties
<1> QED
  BY <1>4, <1>6, FirstOfReply

\* The sanitizer oracles.
LEMMA SanitizedReplies ==
  ASSUME NEW w, NEW report \in {"ub", "memory"} PROVE Sanitized(w, report) \in Replies
<1> DEFINE r == Execute(w, "exe-c", "base", "-O0")
           emit == CASE EmitCObj(w, "base") = "hang" -> Stuck
                     [] EmitCObj(w, "base") = "fail" -> F("compile", "emit-compile", "")
                     [] OTHER -> Go
           link == Untimed(w, "link-c", "base", F("compile", "link", ""))
           run == CASE r[1] = "hang" -> Stuck
                    [] Has(w, "emit-c", "base", report) -> F("sanitizer", report, "")
                    [] r[1] = "trap" -> F("sanitizer", "abort", "")
                    [] OTHER -> None
<1>1. /\ F("compile", "emit-compile", "") \in Replies /\ F("compile", "link", "") \in Replies
      /\ F("sanitizer", report, "") \in Replies /\ F("sanitizer", "abort", "") \in Replies
  BY NamedReplies DEF OracleKinds, Places
<1>2. emit \in Replies /\ link \in Replies /\ run \in Replies
  BY <1>1, SilentReplies, CallReplies
<1>3. Sanitized(w, report) = FirstOf(<<emit, link, run>>)
  BY DEF Sanitized
<1> HIDE DEF emit, link, run
<1>4. <<emit, link, run>> \in Seq(Replies)
  BY <1>2
<1> QED
  BY <1>3, <1>4, FirstOfReply

\* The oracles of `mcc check`.
LEMMA CheckOracleReplies ==
  ASSUME NEW w, NEW late
  PROVE  OracleRobust(w, late) \in Replies /\ OracleFailclosed(w, late) \in Replies
<1>1. CheckNoCrash(w, late, "mutated") \in Replies /\ CheckNoCrash(w, late, "hostile") \in Replies
  BY StageReplies DEF Places
<1>2. OracleRobust(w, late) \in Replies
  BY <1>1, TwoReplies, FirstOfReply DEF OracleRobust
<1>3. /\ F("hang", "check", "") \in Replies /\ F("crash", "check", "") \in Replies
      /\ F("soundness", "check", "") \in Replies
  BY NamedReplies DEF OracleKinds, Places
<1> QED
  BY <1>2, <1>3, SilentReplies DEF OracleFailclosed

\* oracle_determinism.
LEMMA DeterminismReplies == ASSUME NEW w PROVE OracleDeterminism(w) \in Replies
<1> DEFINE Emits(tool) ==
             CASE Exit(w, tool, "base") = "hang"    -> Stuck
               [] Failed(w, tool, "base")           -> Go
               [] Has(w, tool, "base", "nondeterministic") -> F("non-deterministic", tool, "")
               [] OTHER -> Go
<1>1. F("non-deterministic", "emit-c", "") \in Replies /\ F("non-deterministic", "emit-llvm", "") \in Replies
  BY NamedReplies DEF OracleKinds, Places
<1>2. Emits("emit-c") \in Replies /\ Emits("emit-llvm") \in Replies
  BY <1>1, SilentReplies
<1>3. OracleDeterminism(w) = FirstOf(<<Emits("emit-c"), Emits("emit-llvm")>>)
  BY DEF OracleDeterminism
<1> HIDE DEF Emits
<1> QED
  BY <1>2, <1>3, TwoReplies, FirstOfReply

\* oracle_pipeline.
LEMMA PipelineReplies == ASSUME NEW w, NEW late PROVE OraclePipeline(w, late) \in Replies
<1> DEFINE Stage(i) == RunRequiredStage(w, late, PipelineStages[i], "base")
           q == [i \in DOMAIN PipelineStages |-> Stage(i)]
<1>1. DOMAIN PipelineStages = 1 .. 9 /\ \A i \in 1 .. 9 : PipelineStages[i] \in Places
  BY DEF PipelineStages, Places
<1>2. \A i \in 1 .. 9 : Stage(i) \in Replies
  BY <1>1, StageReplies
<1>3. OraclePipeline(w, late) = FirstOf(q)
  BY DEF OraclePipeline
<1> HIDE DEF Stage
<1>4. q \in Seq(Replies)
  BY <1>1, <1>2
<1> HIDE DEF q
<1> QED
  BY <1>3, <1>4, FirstOfReply

\* oracle_artifacts.
LEMMA ArtifactsReplies == ASSUME NEW w, NEW late PROVE OracleArtifacts(w, late) \in Replies
<1> DEFINE stages == <<"facts", "lower-mir", "inspect-ir", "emit-map">>
           Stage(i) == RunRequiredStage(w, late, stages[i], "base")
           runs == [i \in 1 .. 4 |-> Stage(i)]
           checks == <<CheckTrapEdgeCounts(w, "lower-mir"), CheckTrapEdgeCounts(w, "inspect-ir"),
                       CheckCheckedFactsReachIr(w), CheckEmitMap(w)>>
<1>1. \A i \in 1 .. 4 : stages[i] \in Places
  <2>1. /\ stages[1] = "facts" /\ stages[2] = "lower-mir" /\ stages[3] = "inspect-ir"
        /\ stages[4] = "emit-map"
    OBVIOUS
  <2> HIDE DEF stages
  <2>2. \A i \in 1 .. 4 : i = 1 \/ i = 2 \/ i = 3 \/ i = 4
    OBVIOUS
  <2> QED
    BY <2>1, <2>2 DEF Places
<1>2. \A i \in 1 .. 4 : Stage(i) \in Replies
  BY <1>1, StageReplies
<1>3. /\ F("artifacts", "lower-mir", "") \in Replies /\ F("artifacts", "inspect-ir", "") \in Replies
      /\ F("artifacts", "facts", "") \in Replies /\ F("artifacts", "emit-map", "") \in Replies
  BY NamedReplies DEF OracleKinds, Places
<1>4. CheckTrapEdgeCounts(w, "lower-mir") \in Replies /\ CheckTrapEdgeCounts(w, "inspect-ir") \in Replies
  BY <1>3, SilentReplies, Zenon DEF CheckTrapEdgeCounts
<1>5. CheckCheckedFactsReachIr(w) \in Replies
  BY <1>3, SilentReplies, Zenon DEF CheckCheckedFactsReachIr
<1>6. CheckEmitMap(w) \in Replies
  BY <1>3, SilentReplies, Zenon DEF CheckEmitMap
<1>7. OracleArtifacts(w, late) = FirstOf(runs \o checks)
  BY DEF OracleArtifacts
<1> HIDE DEF Stage
<1>8. runs \in Seq(Replies) /\ checks \in Seq(Replies)
  BY <1>2, <1>4, <1>5, <1>6
<1> HIDE DEF runs, checks
<1> QED
  BY <1>7, <1>8, ConcatProperties, FirstOfReply

\* oracle_roundtrip.
LEMMA RoundtripReplies == ASSUME NEW w, NEW late PROVE OracleRoundtrip(w, late) \in Replies
<1> DEFINE Stage(tool, p) == RunRequiredStage(w, late, tool, p)
           Same(a, b, f)  == IF a = b THEN Go ELSE f
           stable == IF Has(w, "fmt", "fmt", "changes") THEN F("roundtrip", "idempotence", "") ELSE Go
           tokens == Same(StrippedLexStream(w, "base"), StrippedLexStream(w, "fmt"),
                          F("roundtrip", "tokens", ""))
           body == Same(RoundtripCBody(w, "base"), RoundtripCBody(w, "fmt"),
                        F("roundtrip", "lowering", ""))
           q == <<Stage("check", "base"), Stage("fmt", "base"), Stage("check", "fmt"),
                  Stage("fmt", "fmt"), stable, Stage("lex", "base"), Stage("lex", "fmt"), tokens,
                  Stage("emit-c", "base"), Stage("emit-c", "fmt"), body>>
<1>1. /\ F("roundtrip", "idempotence", "") \in Replies /\ F("roundtrip", "tokens", "") \in Replies
      /\ F("roundtrip", "lowering", "") \in Replies
  BY NamedReplies DEF OracleKinds, Places
<1>2. stable \in Replies /\ tokens \in Replies /\ body \in Replies
  BY <1>1, SilentReplies
<1>3. \A p : /\ Stage("check", p) \in Replies /\ Stage("fmt", p) \in Replies
             /\ Stage("lex", p) \in Replies /\ Stage("emit-c", p) \in Replies
  <2>1. \A tool \in Places : \A p : Stage(tool, p) \in Replies
    BY StageReplies
  <2> HIDE DEF Stage
  <2> QED
    BY <2>1 DEF Places
<1>4. OracleRoundtrip(w, late) = FirstOf(q)
  BY DEF OracleRoundtrip
<1> HIDE DEF Stage, stable, tokens, body
<1>5. q \in Seq(Replies)
  BY <1>2, <1>3
<1> HIDE DEF q
<1> QED
  BY <1>4, <1>5, FirstOfReply

\* oracle_metamorphic.
LEMMA MetamorphicReplies == ASSUME NEW w PROVE OracleMetamorphic(w) \in Replies
<1> DEFINE base == CompileRunC(w, "base", "-O0")
           var == CompileRunC(w, "variant", "-O0")
           run == CASE "hang" \in {base[1], var[1]} -> Stuck
                    [] base = NotBuilt -> None
                    [] var = NotBuilt  -> F("metamorphic", "compile", "")
                    [] OTHER           -> CompareRuns("metamorphic", base, var)
<1>1. /\ F("metamorphic", "compile", "E_CODE") \in Replies
      /\ F("metamorphic", "compile", FirstError(w, "emit-c", "variant")) \in Replies
      /\ F("metamorphic", "compile", "") \in Replies
  BY NamedReplies DEF OracleKinds, Places
<1>2. CompareRuns("metamorphic", base, var) \in Replies
  BY CompareReplies DEF OracleKinds
<1>3. OracleMetamorphic(w) = FirstOf(Compiles(w, "variant") \o <<run>>)
  BY DEF OracleMetamorphic
<1> HIDE DEF base, var
<1>4. run \in Replies
  BY <1>1, <1>2, SilentReplies
<1> HIDE DEF run
<1>5. Compiles(w, "variant") \in Seq(Replies)
  BY <1>1, CallReplies, TwoReplies DEF Compiles
<1>6. Compiles(w, "variant") \o <<run>> \in Seq(Replies)
  BY <1>4, <1>5, OneReply, ConcatProperties
<1> QED
  BY <1>3, <1>6, FirstOfReply

\* The oracles that compare or judge a run.
LEMMA RunOracleReplies ==
  ASSUME NEW w
  PROVE  OracleOptlevel(w) \in Replies /\ OracleFloatbits(w) \in Replies
         /\ OracleReference(w) \in Replies
<1>1. OracleOptlevel(w) \in Replies
  <2>1. "opt-level" \in OracleKinds
    BY DEF OracleKinds
  <2> QED
    BY <2>1, CompareReplies, SilentReplies DEF OracleOptlevel
<1>2. /\ Untimed(w, "check", "float", None) \in Replies /\ Untimed(w, "check", "ref", None) \in Replies
  BY CallReplies, SilentReplies
<1>3. OracleFloatbits(w) \in Replies
  BY <1>2, DifferentialReplies, TwoReplies, FirstOfReply DEF OracleFloatbits
<1>4. OracleReference(w) \in Replies
  <2> DEFINE r == CompileRunC(w, "ref", "-O0")
             run == CASE r[1] = "hang" -> Stuck
                      [] r = NotBuilt  -> None
                      [] r[1] = "trap" -> F("reference", "trap", "")
                      [] r # Meaning(w, "ref") -> F("reference", "value", "")
                      [] OTHER -> None
  <2>1. F("reference", "trap", "") \in Replies /\ F("reference", "value", "") \in Replies
    BY NamedReplies DEF OracleKinds, Places
  <2>2. OracleReference(w) = FirstOf(<<Untimed(w, "check", "ref", None), run>>)
    BY DEF OracleReference
  <2> HIDE DEF r
  <2>3. run \in Replies
    BY <2>1, SilentReplies
  <2> HIDE DEF run
  <2> QED
    BY <1>2, <2>2, <2>3, TwoReplies, FirstOfReply
<1> QED
  BY <1>1, <1>3, <1>4

\* Whatever is wrong with the compiler, an oracle's answer is a reply: it is not
\* one of run_one's own two findings.
LEMMA OracleReplies ==
  ASSUME NEW o \in ORACLES, NEW w, NEW late
  PROVE  OracleOnSource(o, w, late) \in Replies
<1>1. OracleDifferential(w) \in Replies /\ OracleSanitize(w) \in Replies /\ OracleAsan(w) \in Replies
  BY DifferentialReplies, SanitizedReplies DEF OracleDifferential, OracleSanitize, OracleAsan
<1> QED
  BY <1>1, TrapsiteReplies, CheckOracleReplies, DeterminismReplies, PipelineReplies,
     ArtifactsReplies, RoundtripReplies, MetamorphicReplies, RunOracleReplies
     DEF OracleOnSource, ORACLES

----------------------------------------------------------------------------
(* Triage.                                                                 *)

\* The answers of a quiet machine are those of run_one and of the oracle.
QuietInv ==
  /\ args \in Invocations
  /\ \A s \in Seeds : /\ quiet[s].run = RunOne(args.oracle, world[s], NoneLate)
                      /\ quiet[s].oracle = OracleOnSource(args.oracle, world[s], NoneLate)

\* The records dealt with so far: a bucket that was met has a record that was
\* shrunk or given up, and one is given up only if the source does not show it.
TriageInv ==
  /\ phase \notin {"triage", "shrink", "done"} => repro = << >>
  /\ Len(repro) <= Len(fails)
  /\ phase = "shrink" => Len(repro) < Len(fails)
  /\ phase = "done" /\ verdict = "FAIL" /\ args.shrink => Len(repro) = Len(fails)
  /\ \A i \in 1 .. Len(repro) :
        \E j \in 1 .. Len(repro) : Signature(j) = Signature(i) /\ repro[j] # "seen"
  /\ \A i \in 1 .. Len(repro) :
        repro[i] = "skipped" /\ HasSource(args.oracle) => ~Reproduces(i)

\* The records and the judgement of the oracle about them stay as they are.
LEMMA SameRecords ==
  ASSUME UNCHANGED <<invocation, fails>>
  PROVE  /\ \A i : Signature(i)' = Signature(i) /\ Reproduces(i)' = Reproduces(i)
         /\ Len(fails') = Len(fails) /\ HasSource(args.oracle)' = HasSource(args.oracle)
BY DEF invocation, Signature, Reproduces, Original, HasSource

\* The lengths are numbers.
LEMMA Lengths == CampaignInv => Len(fails) \in Nat /\ Len(repro) \in Nat
BY LenProperties DEF CampaignInv, CampaignTypes

\* Before triage nothing has been dealt with.
LEMMA EarlyTriage ==
  ASSUME CampaignInv', TriageInv, phase \notin {"triage", "shrink", "done"}, repro' = repro,
         phase' # "shrink", phase' = "done" => verdict' # "FAIL" \/ ~args'.shrink
  PROVE  TriageInv'
<1>1. repro' = << >>
  BY DEF TriageInv
<1>2. Len(repro') = 0 /\ 1 .. 0 = {}
  BY <1>1
<1>3. Len(fails') \in Nat
  BY LenProperties DEF CampaignInv, CampaignTypes
<1>4. Len(repro') <= Len(fails')
  BY <1>2, <1>3
<1> QED
  BY <1>1, <1>2, <1>4 DEF TriageInv

\* One more record is dealt with.
LEMMA OneMoreRecord ==
  ASSUME CampaignInv, TriageInv, UNCHANGED <<invocation, fails>>, phase' = "triage",
         Len(repro) < Len(fails),
         NEW what \in {"seen", "skipped", "minimized"}, repro' = Append(repro, what),
         what = "seen" => Seen(Len(repro) + 1),
         what = "skipped" /\ HasSource(args.oracle) => ~Reproduces(Len(repro) + 1)
  PROVE  TriageInv'
<1> DEFINE n == Len(repro)
<1>1. /\ n \in Nat /\ Len(repro') = n + 1
      /\ \A i \in 1 .. n : repro'[i] = repro[i]
      /\ repro'[n + 1] = what
  <2> DEFINE outcomes == {"seen", "skipped", "minimized"}
  <2>1. repro \in Seq(outcomes) /\ what \in outcomes
    BY DEF CampaignInv, CampaignTypes
  <2> HIDE DEF outcomes
  <2> QED
    BY <2>1, Appended
<1>2. Len(fails) \in Nat
  BY Lengths
<1> HIDE DEF n
<1>3. \A i \in 1 .. n + 1 : i \in 1 .. n \/ i = n + 1
  BY <1>1
<1>4. ASSUME NEW i \in 1 .. n
      PROVE  \E j \in 1 .. n + 1 : Signature(j) = Signature(i) /\ repro'[j] # "seen"
  <2>1. PICK j \in 1 .. n : Signature(j) = Signature(i) /\ repro[j] # "seen"
    BY <1>4 DEF TriageInv, n
  <2> QED
    BY <1>1, <2>1
<1>5. \E j \in 1 .. n + 1 : Signature(j) = Signature(n + 1) /\ repro'[j] # "seen"
  <2>1. CASE what # "seen"
    BY <1>1, <2>1
  <2>2. CASE what = "seen"
    <3>1. PICK i \in 1 .. (n + 1) - 1 : Signature(i) = Signature(n + 1)
      BY <2>2 DEF Seen, n
    <3>2. i \in 1 .. n
      BY <1>1
    <3> QED
      BY <1>4, <3>1, <3>2
  <2> QED
    BY <2>1, <2>2
<1>6. \A i \in 1 .. n + 1 : repro'[i] = "skipped" /\ HasSource(args.oracle) => ~Reproduces(i)
  BY <1>1, <1>3 DEF TriageInv, n
<1>7. n + 1 <= Len(fails)
  BY <1>1, <1>2 DEF n
<1>8. \A i \in 1 .. n + 1 :
         \E j \in 1 .. n + 1 : Signature(j) = Signature(i) /\ repro'[j] # "seen"
  BY <1>3, <1>4, <1>5
<1>9. Len(repro') <= Len(fails')
  BY <1>1, <1>7, SameRecords
<1>10. (\A i \in 1 .. Len(repro) :
          \E j \in 1 .. Len(repro) : Signature(j) = Signature(i) /\ repro[j] # "seen")'
  <2>1. Len(repro') = n + 1 /\ \A i : Signature(i)' = Signature(i)
    BY <1>1, SameRecords
  <2> SUFFICES ASSUME NEW i \in 1 .. n + 1
               PROVE  \E j \in 1 .. n + 1 : Signature(j)' = Signature(i)' /\ repro'[j] # "seen"
    BY <2>1
  <2>2. PICK j \in 1 .. n + 1 : Signature(j) = Signature(i) /\ repro'[j] # "seen"
    BY <1>8
  <2>3. Signature(j)' = Signature(i)'
    BY <2>1, <2>2
  <2> QED
    BY <2>2, <2>3
<1>11. (\A i \in 1 .. Len(repro) :
          repro[i] = "skipped" /\ HasSource(args.oracle) => ~Reproduces(i))'
  BY <1>1, <1>6, SameRecords
<1> QED
  BY <1>9, <1>10, <1>11 DEF TriageInv

\* A step that deals with no record.
LEMMA SameTriage ==
  ASSUME TriageInv, UNCHANGED <<invocation, fails, repro>>,
         phase \in {"triage", "shrink", "done"} \/ phase' = phase,
         phase' = "shrink" => Len(repro) < Len(fails),
         phase' = "done" /\ verdict' = "FAIL" /\ args.shrink => Len(repro) = Len(fails),
         phase' \in {"triage", "shrink", "done"} \/ phase' = phase
  PROVE  TriageInv'
<1>1. args' = args
  BY DEF invocation
<1> QED
  BY <1>1, SameRecords DEF TriageInv

\* Every step keeps the account of triage.
LEMMA NextTriage ==
  ASSUME CampaignInv, CampaignInv', TriageInv, [Next]_vars
  PROVE  TriageInv'
<1>1. CASE Start
  BY <1>1, EarlyTriage DEF Start
<1>2. CASE Consume \/ PoolDrained \/ Recheck \/ ReplayFile \/ Take \/ \E s \in Seeds : Finish(s)
  BY <1>2, EarlyTriage DEF Consume, PoolDrained, Recheck, ReplayFile, Take, Finish
<1>3. CASE Summarise
  BY <1>3, EarlyTriage DEF Summarise, invocation
<1>4. CASE CorpusDone
  <2>1. args.cmd = "corpus" /\ args' = args /\ args \in Invocations
    BY <1>4 DEF CorpusDone, CampaignInv, CampaignTypes, PhaseInv, invocation
  <2>2. ~args'.shrink
    BY <2>1, FuzzCampaignAssumption
  <2> QED
    BY <1>4, <2>2, EarlyTriage DEF CorpusDone
<1>5. CASE ShrinkSeed \/ PrintMinimal
  BY <1>5, EarlyTriage DEF ShrinkSeed, PrintMinimal
<1>6. CASE SkipRecord
  <2>1. /\ UNCHANGED <<invocation, fails>> /\ phase' = "triage" /\ Len(repro) + 1 <= Len(fails)
        /\ \/ repro' = Append(repro, "seen") /\ Seen(Len(repro) + 1)
           \/ /\ repro' = Append(repro, "skipped")
              /\ HasSource(args.oracle) => ~Reproduces(Len(repro) + 1)
    BY <1>6 DEF SkipRecord, k
  <2>2. Len(repro) < Len(fails)
    BY <2>1, Lengths
  <2> QED
    BY <2>1, <2>2, OneMoreRecord
<1>7. CASE WriteRepro
  <2>1. /\ UNCHANGED <<invocation, fails>> /\ phase' = "triage" /\ repro' = Append(repro, "minimized")
        /\ Len(repro) < Len(fails)
    BY <1>7 DEF WriteRepro, TriageInv
  <2> QED
    BY <2>1, OneMoreRecord
<1>8. CASE BeginShrink
  <2>1. /\ UNCHANGED <<invocation, fails, repro>> /\ phase = "triage" /\ phase' = "shrink"
        /\ Len(repro) + 1 <= Len(fails)
    BY <1>8 DEF BeginShrink, k
  <2>2. Len(repro) < Len(fails)
    BY <2>1, Lengths
  <2> QED
    BY <2>1, <2>2, SameTriage
<1>9. CASE WriteTriageFindings
  <2>1. /\ UNCHANGED <<invocation, fails, repro>> /\ phase = "triage" /\ phase' = "done"
        /\ Len(repro) + 1 > Len(fails)
    BY <1>9 DEF WriteTriageFindings, k
  <2>2. Len(repro) = Len(fails)
    BY <2>1, Lengths DEF TriageInv
  <2> QED
    BY <2>1, <2>2, SameTriage
<1>10. CASE ShrinkLoop \/ UNCHANGED vars
  <2>1. UNCHANGED <<invocation, fails, repro, phase, verdict>>
    BY <1>10 DEF ShrinkLoop, campaignVars, vars
  <2> QED
    BY <2>1, SameTriage DEF TriageInv
<1> QED
  BY <1>1, <1>2, <1>3, <1>4, <1>5, <1>6, <1>7, <1>8, <1>9, <1>10 DEF Next, Main

\* A record that was given up although the source shows it would have the
\* signature of run_one's own `mcc check`, and no oracle answers with that one.
LEMMA BucketsShrunk ==
  ASSUME CampaignInv, TriageInv, QuietInv PROVE EveryBucketShrunk
<1> SUFFICES ASSUME phase = "done", verdict = "FAIL", args.shrink, HasSource(args.oracle),
                    NEW i \in DOMAIN fails, Original(i) = fails[i].finding
             PROVE  \E j \in DOMAIN repro : repro[j] = "minimized" /\ Signature(j) = Signature(i)
  BY DEF EveryBucketShrunk
<1>1. /\ DOMAIN fails = 1 .. Len(fails) /\ DOMAIN repro = 1 .. Len(repro)
      /\ Len(repro) = Len(fails)
  BY LenProperties DEF CampaignInv, CampaignTypes, TriageInv
<1>2. PICK j \in DOMAIN repro : Signature(j) = Signature(i) /\ repro[j] # "seen"
  BY <1>1 DEF TriageInv
<1>3. repro[j] \in {"seen", "skipped", "minimized"}
  BY ElementOfSeq, <1>1, <1>2 DEF CampaignInv, CampaignTypes
<1>4. ASSUME repro[j] = "skipped" PROVE FALSE
  <2> DEFINE u == fails[j].seed
             v == fails[i].seed
  <2>1. u \in Seeds /\ v \in Seeds /\ j \in DOMAIN fails
    BY <1>1, <1>2, FailsTyped DEF CampaignInv
  <2>2. args.cmd = "run" /\ args.oracle \in ORACLES
    BY FuzzCampaignAssumption DEF QuietInv
  <2>3. fails[j].finding = quiet[u].run /\ IsFinding(fails[j].finding)
    BY <2>1, <2>2 DEF CampaignInv, ReportInv, QuietAnswers
  <2>4. ~Reproduces(j)
    BY <1>1, <1>4 DEF TriageInv
  <2>5. quiet[u].run # quiet[u].oracle
    BY <2>3, <2>4 DEF Reproduces, Original, Signature
  <2>6. /\ quiet[u].run = RunOne(args.oracle, world[u], NoneLate)
        /\ quiet[u].oracle = OracleOnSource(args.oracle, world[u], NoneLate)
        /\ quiet[v].oracle = OracleOnSource(args.oracle, world[v], NoneLate)
    BY <2>1 DEF QuietInv
  <2>7. quiet[u].run \in {F("tool-exec", "check", ""), Stuck, F("generator", "rejected", "")}
    <3> HIDE DEF u, v
    <3> QED
      BY <2>5, <2>6 DEF RunOne
  <2>8. quiet[u].run \in {F("tool-exec", "check", ""), F("generator", "rejected", "")}
    BY <2>3, <2>7 DEF IsFinding
  <2>9. Signature(j) \in {<<"tool-exec", "check">>, <<"generator", "rejected">>}
    <3>1. Signature(j) = FindingSignature(quiet[u].run)
      BY <2>3 DEF Signature
    <3>2. /\ FindingSignature(F("tool-exec", "check", "")) = <<"tool-exec", "check">>
          /\ FindingSignature(F("generator", "rejected", "")) = <<"generator", "rejected">>
      BY DEF FindingSignature, F
    <3> HIDE DEF u
    <3> QED
      BY <2>8, <3>1, <3>2
  <2>10. fails[i].finding \in Replies
    BY <2>2, <2>6, OracleReplies DEF Original
  <2>11. Signature(i)[1] \in OracleKinds \cup {"compiler-error"}
    BY <2>10 DEF Signature, FindingSignature, Replies
  <2> QED
    BY <1>2, <2>9, <2>11 DEF OracleKinds
<1> QED
  BY <1>2, <1>3, <1>4

\* Triage leaves no bucket of a finding that its source shows without a
\* minimized program, in whatever order the records came and whatever signatures
\* they share with run_one's own findings.
THEOREM BucketsAreShrunk == Spec => []EveryBucketShrunk
<1>1. Init => QuietInv /\ TriageInv
  <2> SUFFICES ASSUME Init PROVE QuietInv /\ TriageInv
    OBVIOUS
  <2>1. QuietInv
    BY DEF Init, QuietInv
  <2>2. phase = "start" /\ repro = << >> /\ fails = << >>
    BY DEF Init
  <2>3. Len(repro) = 0 /\ Len(fails) = 0 /\ 1 .. 0 = {}
    BY <2>2
  <2>4. TriageInv
    BY <2>2, <2>3 DEF TriageInv
  <2> QED
    BY <2>1, <2>4
<1>2. QuietInv /\ [Next]_vars => QuietInv'
  <2>1. [Next]_vars => UNCHANGED invocation
    BY DEF Next, Main, Start, Consume, PoolDrained, Recheck, Summarise, SkipRecord, BeginShrink,
           ShrinkLoop, WriteRepro, WriteTriageFindings, ReplayFile, CorpusDone, ShrinkSeed,
           PrintMinimal, Take, Finish, vars, campaignVars
  <2> QED
    BY <2>1 DEF QuietInv, invocation
<1>3. CampaignInv /\ QuietInv /\ TriageInv /\ [Next]_vars => (CampaignInv /\ QuietInv /\ TriageInv)'
  BY <1>2, NextInv, NextTriage
<1>4. CampaignInv /\ QuietInv /\ TriageInv => EveryBucketShrunk
  BY BucketsShrunk
<1> QED
  BY <1>1, <1>3, <1>4, InitInv, PTL DEF Spec

============================================================================
