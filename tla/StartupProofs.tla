--------------------------- MODULE StartupProofs ---------------------------
(***************************************************************************)
(* The properties of Config, Admission and Startup, for any configuration  *)
(* file, any command line, any number of connections and any cap.          *)
(*                                                                         *)
(* The configuration.  ConfigInv says for each stage of build_config how   *)
(* far the process has come, in the terms of ConfigProofs, and what the    *)
(* merge has made of the file and the options when it is done.             *)
(*                                                                         *)
(* The server.  The permits are counted against the handlers that hold     *)
(* one; a permit is lost or doubled nowhere because exactly the            *)
(* connections that are starting up hold one, and each is queued once.     *)
(***************************************************************************)
EXTENDS Startup, ConfigProofs, FiniteSetTheorems

\* Every step is small; what the provers may need is time.
USE ZenonT(60)

-----------------------------------------------------------------------------
(* The configuration, from the command line to build_config's result.      *)

\* No option is lost between two command lines.
Intact == dir = "here" \/ NoEmptyValue

\* What each stage has to do with the file and the options.
InStage ==
    /\ stage = "args" =>
         /\ line = 1 /\ built = Defaults /\ disabled = {}
         /\ \/ dir = "here" /\ tokens = <<>> /\ args = typed
            \/ NoEmptyValue /\ \E n \in Nat : Position(n)
    /\ stage \in {"parsing", "flags"} => SameOptions /\ NoConflict
    /\ stage = "parsing" => /\ NamesFile
                            /\ line \in 1 .. Len(text) + 1
                            /\ Parsed(line - 1)
    /\ stage = "flags" => FileRead
    /\ stage = "configured" =>
         /\ built.anonymous = ~SaysAuth
         /\ \A f \in ListFields : ListOf(built.field, f) \in Seq(Strings)

ConfigInv ==
    /\ text \in Seq(Line) /\ IsCommandLine(typed)
    /\ IsBuilt
    /\ Intact => InStage
    /\ ConfigAsDescribed

\* The invariant holds when the process starts.
LEMMA ConfigStarts ==
    ASSUME ConfigInit
    PROVE  ConfigInv
<1>1. text \in Seq(Line) /\ IsCommandLine(typed)
  BY ConfigAssumption DEF ConfigInit, Line
<1>2. IsBuilt /\ stage = "args"
  BY DEF ConfigInit, IsBuilt, Defaults
<1>3. ASSUME Intact PROVE InStage
  <2>1. CASE dir = "here"
    BY <1>2, <2>1 DEF ConfigInit, InStage
  <2>2. CASE dir = "system"
    <3>1. NoEmptyValue
      BY <1>3, <2>2 DEF Intact
    <3>2. Position(0)
      BY <1>1, <2>2, <3>1, FirstPosition DEF ConfigInit
    <3> QED
      BY <1>2, <3>1, <3>2 DEF ConfigInit, InStage
  <2> QED
    BY <2>1, <2>2 DEF ConfigInit
<1> QED
  BY <1>1, <1>2, <1>3 DEF ConfigInv, ConfigAsDescribed

\* What the file and the options say stays the same.
LEMMA SaidFrame ==
    ASSUME UNCHANGED <<text, typed, dir, home>>
    PROVE  /\ NamesFile' = NamesFile /\ KeysPlaced' = KeysPlaced
           /\ Flawless' = Flawless /\ Intact' = Intact /\ NoEmptyValue' = NoEmptyValue
           /\ SaysAuth' = SaysAuth /\ DisablesKeys' = DisablesKeys /\ NoConflict' = NoConflict
           /\ Said' = Said /\ \A f : SaidOf(f)' = SaidOf(f)
           /\ IsCommandLine(typed)' = IsCommandLine(typed)
<1>1. Said' = Said
  BY DEF Said, Given
<1>2. \A f : SaidOf(f)' = SaidOf(f)
  BY <1>1 DEF SaidOf
<1>3. NoEmptyValue' = NoEmptyValue
  BY DEF NoEmptyValue
<1>4. Intact' = Intact
  BY <1>3 DEF Intact
<1>5. SaysAuth' = SaysAuth /\ DisablesKeys' = DisablesKeys
  BY <1>1 DEF SaysAuth, DisablesKeys
<1>6. NoConflict' = NoConflict
  BY DEF NoConflict, Given
<1>7. Flawless' = Flawless
  BY <1>2, <1>5 DEF Flawless, Given, ListOf
<1>8. IsCommandLine(typed)' = IsCommandLine(typed)
  BY DEF IsCommandLine
<1>9. NamesFile' = NamesFile /\ KeysPlaced' = KeysPlaced
  BY <1>2, <1>5 DEF NamesFile, KeysPlaced, Given
<1> QED
  BY <1>1, <1>2, <1>3, <1>4, <1>5, <1>6, <1>7, <1>8, <1>9

\* What was typed and what the process has stay the same.
LEMMA SameFrame ==
    ASSUME UNCHANGED <<typed, dir, args>>
    PROVE  SameOptions' = SameOptions
  BY DEF SameOptions

\* The configuration stays a record.
LEMMA BuiltKept ==
    ASSUME IsBuilt, ConfigNext
    PROVE  IsBuilt'
<1>1. ASSUME NEW F, built' = [built EXCEPT !.field = F] PROVE IsBuilt'
  BY <1>1 DEF IsBuilt
<1>2. ASSUME NEW b, built' = [built EXCEPT !.anonymous = b], b \in BOOLEAN PROVE IsBuilt'
  BY <1>2 DEF IsBuilt
<1>3. built' = built => IsBuilt'
  BY DEF IsBuilt
<1>4. CASE ParseLine
  <2>1. CASE SetField(text[line])
    BY <1>1, <2>1 DEF SetField
  <2>2. CASE SetAuth(text[line])
    <3>1. built' = [built EXCEPT !.anonymous =
                      built.anonymous /\ text[line].value \notin {"yes", "no"}]
      BY <2>2 DEF SetAuth
    <3>2. (built.anonymous /\ text[line].value \notin {"yes", "no"}) \in BOOLEAN
      OBVIOUS
    <3> QED
      BY <1>2, <3>1, <3>2
  <2> QED
    BY <1>3, <1>4, <2>1, <2>2 DEF ParseLine
<1>5. CASE EndOfFile
  BY <1>1, <1>3, <1>5 DEF EndOfFile, Fail
<1>6. CASE ApplyFlags
  BY <1>1, <1>3, <1>6 DEF ApplyFlags, Fail
<1> QED
  BY <1>3, <1>4, <1>5, <1>6 DEF ConfigNext, from_args, InvalidArgs,
                                        SelectConfig, InvalidLine, Fail

\* A flaw is reported.
LEMMA Failed ==
    ASSUME UNCHANGED <<text, typed, dir, home>>, stage' = "failed", ~Flawless
    PROVE  InStage' /\ ConfigAsDescribed'
<1>1. ~Flawless'
  BY SaidFrame
<1>2. InStage'
  BY DEF InStage
<1> QED
  BY <1>1, <1>2 DEF ConfigAsDescribed

\* The options of the process are complete when tokens are used up.
LEMMA ArgsComplete ==
    ASSUME ConfigInv, Intact, stage = "args", tokens = <<>>
    PROVE  SameOptions
<1>1. \/ dir = "here" /\ args = typed
      \/ NoEmptyValue /\ \E n \in Nat : Position(n)
  BY DEF ConfigInv, InStage
<1>2. IsCommandLine(typed)
  BY DEF ConfigInv
<1> QED
  BY <1>1, <1>2, TypedSame, SavedSame

\* Nothing changes.
LEMMA ConfigKept ==
    ASSUME ConfigInv, UNCHANGED configVars
    PROVE  ConfigInv'
<1>1. UNCHANGED <<text, typed, dir, home, tokens, args, line, disabled, built, stage>>
  BY DEF configVars
<1>2. UNCHANGED <<Flawless, Intact, NoEmptyValue, SaysAuth, DisablesKeys, NamesFile,
                KeysPlaced, NoConflict, Said, SameOptions>>
  BY <1>1, SaidFrame, SameFrame
<1>3. /\ \A f : SaidOf(f)' = SaidOf(f) /\ IsCommandLine(typed)' = IsCommandLine(typed)
      /\ \A f, n : SoFar(f, n)' = SoFar(f, n)
  BY <1>1, SaidFrame, SaidKept
<1>4. Pushes' = Pushes /\ startup_args' = startup_args
  BY <1>1 DEF Pushes, PushedSeq, startup_args, Pushed, Given
<1>5. \A o, n : Taken(o, n)' = Taken(o, n)
  BY <1>4 DEF Taken
<1>6. \A n : Position(n)' = Position(n)
  BY <1>1, <1>4, <1>5 DEF Position
<1>7. \A n : ScalarsRead(n)' = ScalarsRead(n)
  BY <1>1, <1>3 DEF ScalarsRead
<1>8. \A n : Parsed(n)' = Parsed(n)
  BY <1>1, <1>2, <1>3, <1>7 DEF Parsed, ListOf, Given
<1>9. FileRead' = FileRead
  BY <1>1, <1>2, <1>3, <1>7 DEF FileRead, FileList, LabelsValid, ListOf, Given
<1>10. InStage' = InStage
  BY <1>1, <1>2, <1>6, <1>8, <1>9 DEF InStage, Given, ListOf
<1>11. ConfigAsDescribed' = ConfigAsDescribed
  <2>1. \A f : WantedList(f)' = WantedList(f)
    BY <1>1, <1>2, <1>3 DEF WantedList, ListOf, Given
  <2>2. \A f : WantedScalar(f)' = WantedScalar(f) /\ InUse(f)' = InUse(f)
    BY <1>1, <1>3 DEF WantedScalar, InUse, Given
  <2> QED
    BY <1>1, <1>2, <2>1, <2>2 DEF ConfigAsDescribed, ListOf, Given
<1> QED
  BY <1>1, <1>2, <1>3, <1>10, <1>11 DEF ConfigInv, IsBuilt

\* Every step of build_config preserves the invariant.
LEMMA ConfigSteps ==
    ASSUME ConfigInv, ConfigNext
    PROVE  ConfigInv'
<1>1. UNCHANGED <<text, typed, dir, home>>
  BY DEF ConfigNext, from_args, InvalidArgs, SelectConfig, ParseLine, InvalidLine, EndOfFile,
         ApplyFlags, Fail
<1>2. text' \in Seq(Line) /\ IsCommandLine(typed)' /\ IsBuilt'
  BY <1>1, BuiltKept, SaidFrame DEF ConfigInv
<1>3. SUFFICES ASSUME Intact PROVE InStage' /\ ConfigAsDescribed'
  <2>1. CASE Intact
    BY <1>2, <1>3, <2>1 DEF ConfigInv
  <2>2. CASE ~Intact
    <3>1. ~Intact'
      BY <1>1, <2>2, SaidFrame
    <3> QED
      BY <1>2, <3>1 DEF ConfigInv, ConfigAsDescribed, Intact
  <2> QED
    BY <2>1, <2>2
<1>4. InStage /\ text \in Seq(Line) /\ IsCommandLine(typed) /\ IsBuilt
  BY <1>3 DEF ConfigInv
<1>5. \A s : stage' = s /\ s \notin {"failed", "configured"} => ConfigAsDescribed'
  BY DEF ConfigAsDescribed
<1>6. CASE from_args
  <2>1. /\ stage = "args" /\ tokens # <<>> /\ UNCHANGED <<line, built, disabled, stage>>
    BY <1>6 DEF from_args
  <2>2. PICK n \in Nat : Position(n) /\ NoEmptyValue
    BY <1>4, <2>1 DEF InStage
  <2>3. Position(n + 1)' /\ n + 1 \in Nat
    BY <1>4, <1>6, <2>2, TakeNext, SMTT(60)
  <2>4. NoEmptyValue'
    BY <1>1, <2>2, SaidFrame
  <2>5. InStage'
    <3> HIDE DEF Position
    <3> QED
      BY <1>4, <2>1, <2>3, <2>4 DEF InStage
  <2> QED
    BY <1>5, <2>1, <2>5, SMTT(60)
<1>7. CASE InvalidArgs
  <2>1. stage = "args" /\ stage' = "failed"
    BY <1>7 DEF InvalidArgs, Fail
  <2>2. tokens = <<>> /\ ~WellTyped(args)
    <3>1. CASE dir = "here" /\ tokens = <<>> /\ args = typed
      BY <1>7, <3>1 DEF InvalidArgs
    <3>2. CASE NoEmptyValue /\ \E n \in Nat : Position(n)
      BY <1>4, <1>7, <3>2, SavedValid
    <3> QED
      BY <1>4, <2>1, <3>1, <3>2 DEF InStage
  <2>3. SameOptions
    BY <1>3, <2>1, <2>2, ArgsComplete
  <2>4. ~Flawless
    BY <2>2, <2>3, IllTyped
  <2> QED
    BY <1>1, <2>1, <2>4, Failed
<1>8. CASE SelectConfig
  <2>1. stage = "args" /\ tokens = <<>> /\ UNCHANGED <<args, line, built, disabled>>
    BY <1>8 DEF SelectConfig
  <2>2. line = 1 /\ built = Defaults /\ disabled = {}
    BY <1>4, <2>1 DEF InStage
  <2>3. SameOptions
    BY <1>3, <2>1, ArgsComplete
  <2>4. SameOptions' /\ NoConflict' = NoConflict
    BY <1>1, <2>1, <2>3, SameFrame, SaidFrame
  <2>5. CASE stage' = "failed" /\ ~Flawless
    BY <1>1, <2>5, Failed
  <2>6. CASE stage' = "flags" /\ NoConflict /\ ~NamesFile
    <3>1. FileRead
      BY <1>4, <2>2, <2>6, NoFile
    <3>2. FileRead'
      <4>1. \A f, n : SoFar(f, n)' = SoFar(f, n)
        BY <1>1, SaidKept
      <4>2. UNCHANGED <<SaysAuth, DisablesKeys, KeysPlaced, Said>> /\ \A f : SaidOf(f)' = SaidOf(f)
        BY <1>1, SaidFrame
      <4>3. \A n : ScalarsRead(n)' = ScalarsRead(n)
        BY <2>1, <4>1 DEF ScalarsRead
      <4> QED
        BY <2>1, <3>1, <4>2, <4>3 DEF FileRead, FileList, LabelsValid, ListOf, Given
    <3> QED
      BY <1>5, <2>4, <2>6, <3>2, SMTT(60) DEF InStage
  <2>7. CASE stage' = "parsing" /\ NoConflict /\ NamesFile
    <3>1. Parsed(0)'
      <4>1. text' \in Seq(Line) /\ built' = Defaults /\ disabled' = {}
        BY <1>2, <2>1, <2>2
      <4> QED
        BY <1>1, <1>4, <2>1, <2>2, NothingParsed, <4>1, SaidKept
        DEF Parsed, ScalarsRead, ListOf, Given
    <3>2. line' = 1 /\ line' \in 1 .. Len(text') + 1 /\ line' - 1 = 0
      <4>1. Len(text) \in Nat
        BY <1>4, SMTT(60)
      <4> QED
        BY <1>1, <2>1, <2>2, <4>1, SMTT(60)
    <3>3. Parsed(line - 1)'
      BY <3>1, <3>2
    <3>4. NamesFile'
      BY <1>1, <2>7, SaidFrame
    <3> QED
      BY <1>5, <2>4, <2>7, <3>2, <3>3, <3>4, SMTT(60) DEF InStage
  <2> QED
    BY <1>8, <2>3, <2>5, <2>6, <2>7, Selecting
<1>9. CASE ParseLine
  <2>1. /\ stage = "parsing" /\ stage' = "parsing" /\ UNCHANGED <<args>>
    BY <1>9 DEF ParseLine
  <2>2. /\ SameOptions /\ NoConflict /\ NamesFile
        /\ line \in 1 .. Len(text) + 1 /\ Parsed(line - 1)
    BY <1>4, <2>1 DEF InStage
  <2>3. SameOptions' /\ NoConflict'
    BY <1>1, <2>1, <2>2, SameFrame, SaidFrame
  <2>4. PICK n \in Nat : line = n + 1 /\ n = line - 1
    <3>1. line - 1 \in Nat /\ line = (line - 1) + 1
      BY <1>4, <2>2, SMTT(60)
    <3> QED
      BY <3>1
  <2>5. Parsed(n)
    BY <2>2, <2>4
  <2>6. Parsed(n + 1)' /\ line' = (n + 1) + 1 /\ line' \in 1 .. Len(text) + 1
    BY <1>4, <1>9, <2>2, <2>4, <2>5, ParseStep
  <2>7. line' - 1 = n + 1
    BY <2>4, <2>6, SMTT(60)
  <2>8. Parsed(line - 1)'
    BY <2>6, <2>7
  <2>9. NamesFile' /\ line' \in 1 .. Len(text') + 1
    BY <1>1, <2>2, <2>6, SaidFrame
  <2> QED
    BY <1>5, <2>1, <2>3, <2>8, <2>9, SMTT(60) DEF InStage
<1>10. CASE InvalidLine
  <2>1. stage = "parsing" /\ stage' = "failed"
    BY <1>10 DEF InvalidLine, Fail
  <2>2. NamesFile /\ line \in 1 .. Len(text) + 1
    BY <1>4, <2>1 DEF InStage
  <2>3. ~Flawless
    BY <1>4, <1>10, <2>2, BadLine
  <2> QED
    BY <1>1, <2>1, <2>3, Failed
<1>11. CASE EndOfFile
  <2>1. stage = "parsing" /\ UNCHANGED args
    BY <1>11 DEF EndOfFile, Fail
  <2>2. /\ SameOptions /\ NoConflict /\ NamesFile
        /\ line \in 1 .. Len(text) + 1 /\ Parsed(line - 1)
    BY <1>4, <2>1 DEF InStage
  <2>3. SameOptions' /\ NoConflict'
    BY <1>1, <2>1, <2>2, SameFrame, SaidFrame
  <2>4. CASE stage' = "failed" /\ ~Flawless
    BY <1>1, <2>4, Failed
  <2>5. CASE stage' = "flags" /\ FileRead'
    BY <1>5, <2>3, <2>5, SMTT(60) DEF InStage
  <2> QED
    BY <1>4, <1>11, <2>2, <2>4, <2>5, FileEnds
<1>12. CASE ApplyFlags
  <2>1. stage = "flags"
    BY <1>12 DEF ApplyFlags
  <2>2. SameOptions /\ NoConflict /\ FileRead
    BY <1>4, <2>1 DEF InStage
  <2>3. CASE stage' = "failed" /\ ~Flawless
    BY <1>1, <2>3, Failed
  <2>4. CASE /\ stage' = "configured" /\ Flawless /\ FlagsValid /\ IdValid
             /\ built' = [built EXCEPT !.field = Merged]
    <3>1. built.field' = Merged /\ built.anonymous' = built.anonymous
      BY <1>4, <2>4 DEF IsBuilt
    <3>2. UNCHANGED <<SaysAuth, DisablesKeys, Flawless>> /\ \A f : SaidOf(f)' = SaidOf(f)
      BY <1>1, SaidFrame
    <3>3. InStage'
      <4>1. \A f \in ListFields : ListOf(built.field', f) \in Seq(Strings)
        BY <1>4, <2>2, <2>4, <3>1, MergedLists
      <4> QED
        BY <2>2, <2>4, <3>1, <3>2, <4>1 DEF InStage, FileRead
    <3>4. ASSUME NEW f \in ListFields
          PROVE  Located(f, ListOf(built.field, f), dir)' = WantedList(f)'
      <4>1. WantedList(f)' = WantedList(f)
        BY <1>1, <3>2 DEF WantedList, ListOf, Given
      <4>2. Located(f, ListOf(Merged, f), dir) = WantedList(f)
        BY <1>4, <2>2, <2>4, MergedLists
      <4> QED
        BY <1>1, <3>1, <4>1, <4>2
    <3>5. ASSUME NEW f \in ScalarFields
          PROVE  InUse(f)' = WantedScalar(f)'
      <4>1. WantedScalar(f)' = WantedScalar(f)
        BY <1>1, <3>2 DEF WantedScalar, Given
      <4>2. {LocatedValue(f, Merged[g], dir) : g \in {f} \cap DOMAIN Merged} = WantedScalar(f)
        BY <1>4, <2>2, <2>4, MergedScalars
      <4> QED
        BY <1>1, <3>1, <4>1, <4>2 DEF InUse
    <3> QED
      BY <2>4, <3>2, <3>3, <3>4, <3>5 DEF ConfigAsDescribed
  <2> QED
    BY <1>4, <1>12, <2>2, <2>3, <2>4, Applying
<1> QED
  BY <1>6, <1>7, <1>8, <1>9, <1>10, <1>11, <1>12 DEF ConfigNext

-----------------------------------------------------------------------------
(* The server: its invariant.                                              *)

\* The types that the proofs use.
Shape ==
    /\ permits \in Int
    /\ waiting \in Seq(Conns)
    /\ phase \in [Conns -> Phases]
    /\ holds \in [Conns -> BOOLEAN]
    /\ authed \in [Conns -> BOOLEAN]
    /\ attempt \in [Conns -> Attempts \cup {NoAttempt}]
    /\ login \in [Conns -> Attempts \cup {NoAttempt}]

\* A task waits in the semaphore's queue once, and only before it has a permit.
Queued ==
    \A i \in 1 .. Len(waiting) :
        /\ phase[waiting[i]] = "queued"
        /\ \A j \in 1 .. Len(waiting) : waiting[i] = waiting[j] => i = j

\* The phases of a task past the queue.
Startup == {"handshake", "login", "expired", "open"}

\* A handler has its permit until mark_authenticated or its end.
PermitsHeld ==
    \A c \in Conns :
        /\ holds[c] <=> ~authed[c] /\ phase[c] \in Startup
        /\ authed[c] => phase[c] \in {"login", "expired", "open", "direct"}

\* The connections whose handler has a permit.
Holders == {c \in Conns : holds[c]}

\* The semaphore's count.
PermitsCounted == permits + Cardinality(Holders) = Cap

\* The attempts that decide() may accept.
Acceptable == {a \in Attempts : a.method # "key offer" /\ "accept" \in Decide(a)}

\* Who is logged in was accepted by decide().
Granted == \A c \in Conns : authed[c] => login[c] \in Acceptable

\* build() has refused strict mode without anybody to be strict about.
Built == ~(config.strict /\ config.osUser = NoUser /\ config.allow = {})

IInv == Built /\ Shape /\ Queued /\ PermitsHeld /\ PermitsCounted /\ Granted

-----------------------------------------------------------------------------
(* Lemmas about the permits and the decisions.                             *)

\* There are finitely many holders ...
LEMMA HoldersFinite == IsFiniteSet(Holders)
  BY AdmissionAssumption, FS_Subset DEF Holders

\* ... and the semaphore starts with a number of permits.
LEMMA CapNat == Cap \in Nat
  BY AdmissionAssumption DEF Cap

\* acquire_owned: one permit fewer, one holder more.
LEMMA Take ==
    ASSUME Shape, PermitsCounted, NEW c \in Conns, ~holds[c],
           holds' = [holds EXCEPT ![c] = TRUE], permits' = permits - 1
    PROVE  PermitsCounted'
<1>1. Holders' = Holders \cup {c} /\ c \notin Holders
  BY DEF Shape, Holders
<1>2. Cardinality(Holders \cup {c}) = Cardinality(Holders) + 1 /\ Cardinality(Holders) \in Nat
  BY <1>1, HoldersFinite, FS_AddElement, FS_CardinalityType
<1> QED
  BY <1>1, <1>2, CapNat, SMTT(60) DEF PermitsCounted, Shape, Cap

\* A permit that is given back was held.
LEMMA Release ==
    ASSUME Shape, PermitsCounted, NEW c \in Conns, ReleasePermit(c)
    PROVE  permits' \in Int /\ holds' \in [Conns -> BOOLEAN] /\ PermitsCounted'
<1>0. permits' \in Int /\ holds' \in [Conns -> BOOLEAN]
  BY SMTT(60) DEF Shape, ReleasePermit
<1>1. CASE holds[c]
  <2>1. Holders' = Holders \ {c} /\ c \in Holders
    BY <1>1 DEF Shape, Holders, ReleasePermit
  <2>2. Cardinality(Holders \ {c}) = Cardinality(Holders) - 1 /\ Cardinality(Holders) \in Nat
    BY <2>1, HoldersFinite, FS_RemoveElement, FS_CardinalityType
  <2>3. permits' = permits + 1
    BY <1>1 DEF ReleasePermit
  <2> QED
    BY <1>0, <2>1, <2>2, <2>3, CapNat, SMTT(60) DEF PermitsCounted, Shape, Cap
<1>2. CASE ~holds[c]
  <2>1. Holders' = Holders
    BY <1>2 DEF Shape, Holders, ReleasePermit
  <2> QED
    BY <1>0, <1>2, <2>1 DEF PermitsCounted, ReleasePermit, Cap
<1> QED
  BY <1>1, <1>2

-----------------------------------------------------------------------------
(* The invariant is inductive.                                             *)

\* It holds of a server that has been built and that nobody has met.
LEMMA ServerStarts == ServerInit /\ Built => IInv
<1> SUFFICES ASSUME ServerInit, Built PROVE IInv
  OBVIOUS
<1>1. Shape
  BY CapNat, SMTT(60) DEF ServerInit, Shape, Phases
<1>2. Holders = {}
  BY DEF ServerInit, Holders
<1>3. PermitsCounted
  BY <1>2, CapNat, FS_EmptySet, SMTT(60) DEF ServerInit, PermitsCounted
<1>4. Queued /\ PermitsHeld /\ Granted
  BY SMTT(60) DEF ServerInit, Queued, PermitsHeld, Granted, Startup
<1> QED
  BY <1>1, <1>3, <1>4 DEF IInv

\* Init is such a server.
LEMMA InitHolds == Init => IInv
  BY ServerStarts DEF Init, Buildable, Built

\* Decisions depend on the configuration only.
LEMMA AcceptableKept == UNCHANGED config => Acceptable' = Acceptable
  BY SMTT(60) DEF Acceptable, Decide, UserAllowed, AllowedUsers, Anonymous, HasExplicitAuth

\* Dropping session and handler preserves it, in every phase in which it happens.
LEMMA CloseStep ==
    ASSUME IInv, NEW c \in Conns, phase[c] # "queued", Close(c)
    PROVE  IInv'
<1> USE DEF IInv, Close
<1>1. permits' \in Int /\ holds' \in [Conns -> BOOLEAN] /\ PermitsCounted'
  BY Release
<1>2. Shape'
  BY <1>1 DEF Shape, Phases
<1>3. Queued'
  BY SMTT(60) DEF Shape, Queued
<1>4. PermitsHeld'
  BY DEF Shape, PermitsHeld, Startup, ReleasePermit
<1>5. Granted'
  BY AcceptableKept DEF Shape, Granted
<1>6. Built'
  BY DEF Built
<1> QED
  BY <1>1, <1>2, <1>3, <1>4, <1>5, <1>6

\* The count stays right if permits and holders stay.
LEMMA SameHolders == UNCHANGED <<permits, holds>> /\ PermitsCounted => PermitsCounted'
  BY DEF PermitsCounted, Holders, Cap

\* Every step preserves it.
LEMMA NextHolds == IInv /\ [Next]_vars => IInv'
<1> SUFFICES ASSUME IInv, [Next]_vars PROVE IInv'
  OBVIOUS
<1>1. Built'
  BY DEF IInv, Built, Next, vars, Shutdown, Accept, ServeConnection, Task, TakePermit,
     CheckAuthed, Close, HandshakeDone, GraceExpires, Disconnect, BeginAuth, DecideAuth
<1> USE <1>1
<1>2. CASE UNCHANGED vars
  BY <1>2, AcceptableKept, SameHolders
     DEF vars, IInv, Shape, Queued, PermitsHeld, Granted
<1>3. CASE Shutdown
  BY <1>3, AcceptableKept, SameHolders
     DEF Shutdown, IInv, Shape, Queued, PermitsHeld, Granted
<1>4. ASSUME NEW c \in Conns, Accept(c) PROVE IInv'
  <2>1. /\ accepting /\ phase[c] = "idle" /\ phase' = [phase EXCEPT ![c] = "queued"]
        /\ waiting' = Append(waiting, c)
        /\ UNCHANGED <<config, accepting, permits, holds, authed, attempt, login>>
    BY <1>4 DEF Accept
  <2>2. /\ Shape /\ waiting \in Seq(Conns) /\ Queued /\ PermitsHeld /\ PermitsCounted /\ Granted
    BY DEF IInv, Shape
  <2>3. /\ waiting' \in Seq(Conns)
        /\ Len(waiting') = Len(waiting) + 1 /\ waiting'[Len(waiting) + 1] = c
        /\ \A i \in 1 .. Len(waiting) : waiting'[i] = waiting[i] /\ waiting[i] \in Conns
        /\ Len(waiting) \in Nat
    BY <2>1, <2>2, SMTT(60)
  <2>4. phase'[c] = "queued" /\ \A d \in Conns : d # c => phase'[d] = phase[d]
    BY <2>1, <2>2 DEF Shape
  <2>5. Shape'
    BY <2>1, <2>2, <2>3 DEF Shape, Phases
  <2>6. Queued'
    <3>1. \A i \in 1 .. Len(waiting) : waiting[i] # c
      BY <2>1, <2>2 DEF Queued
    <3>2. \A i \in 1 .. Len(waiting') : i = Len(waiting) + 1 \/ i \in 1 .. Len(waiting)
      BY <2>3, SMTT(60)
    <3>3. \A i \in 1 .. Len(waiting') : phase'[waiting'[i]] = "queued"
      BY <2>2, <2>3, <2>4, <3>1, <3>2, ZenonT(60) DEF Queued
    <3>4. \A i, j \in 1 .. Len(waiting') : waiting'[i] = waiting'[j] => i = j
      BY <2>2, <2>3, <3>1, <3>2, SMTT(60) DEF Queued
    <3> QED
      BY <3>3, <3>4 DEF Queued
  <2>7. PermitsHeld' /\ PermitsCounted'
    BY <2>1, <2>2, SameHolders DEF Shape, PermitsHeld, Startup
  <2>8. Granted'
    BY <2>1, <2>2, AcceptableKept DEF Granted
  <2> QED
    BY <1>1, <2>5, <2>6, <2>7, <2>8 DEF IInv
<1>5. ASSUME NEW c \in Conns, ServeConnection(c) PROVE IInv'
  <2> USE <1>5 DEF ServeConnection, IInv
  <2>1. Shape' /\ Queued'
    BY SMTT(60) DEF Shape, Queued, Phases
  <2>2. PermitsHeld' /\ PermitsCounted'
    BY SameHolders DEF Shape, PermitsHeld, Startup
  <2>3. Granted'
    BY AcceptableKept DEF Granted
  <2> QED
    BY <2>1, <2>2, <2>3
<1>6. ASSUME NEW c \in Conns, TakePermit(c) PROVE IInv'
  <2> USE <1>6 DEF TakePermit, IInv
  <2>1. phase[c] = "queued" /\ ~holds[c] /\ ~authed[c]
    BY SMTT(60) DEF Shape, Queued, PermitsHeld, Startup
  <2>2. Shape'
    BY SMTT(60) DEF Shape, Phases
  <2>3. Queued'
    <3>1. /\ Len(waiting') = Len(waiting) - 1
          /\ \A i \in 1 .. Len(waiting') : waiting'[i] = waiting[i + 1]
      BY SMTT(60) DEF Shape
    <3>2. \A i \in 1 .. Len(waiting') : waiting'[i] # c
      BY <3>1, SMTT(60) DEF Shape, Queued
    <3> QED
      BY <3>1, <3>2, SMTT(60) DEF Shape, Queued
  <2>4. PermitsHeld'
    BY <2>1 DEF Shape, PermitsHeld, Startup
  <2>5. PermitsCounted'
    BY <2>1, Take
  <2>6. Granted'
    BY AcceptableKept DEF Granted
  <2> QED
    BY <2>2, <2>3, <2>4, <2>5, <2>6
<1>7. ASSUME NEW c \in Conns, HandshakeDone(c) \/ GraceExpires(c) PROVE IInv'
  <2>1. /\ phase[c] \in {"handshake", "login"}
        /\ \E to \in {"login", "expired"} : phase' = [phase EXCEPT ![c] = to]
        /\ UNCHANGED <<config, accepting, permits, waiting, holds, authed, attempt, login>>
    BY <1>7 DEF HandshakeDone, GraceExpires
  <2> USE <2>1 DEF IInv
  <2>2. Shape' /\ Queued'
    BY SMTT(60) DEF Shape, Queued, Phases
  <2>3. PermitsHeld' /\ PermitsCounted'
    BY SameHolders DEF Shape, PermitsHeld, Startup
  <2>4. Granted'
    BY AcceptableKept DEF Granted
  <2> QED
    BY <2>2, <2>3, <2>4
<1>8. ASSUME NEW c \in Conns, Disconnect(c) PROVE IInv'
  BY <1>8, CloseStep DEF Disconnect
<1>9. ASSUME NEW c \in Conns, CheckAuthed(c) PROVE IInv'
  <2>1. CASE Close(c)
    BY <1>9, <2>1, CloseStep DEF CheckAuthed
  <2>2. CASE ~Close(c)
    <3> USE <1>9, <2>2 DEF CheckAuthed, IInv
    <3>1. Shape' /\ Queued'
      BY SMTT(60) DEF Shape, Queued, Phases
    <3>2. PermitsHeld' /\ PermitsCounted'
      BY SameHolders, SMTT(60) DEF Shape, PermitsHeld, Startup
    <3>3. Granted'
      BY AcceptableKept DEF Granted
    <3> QED
      BY <3>1, <3>2, <3>3
  <2> QED
    BY <2>1, <2>2
<1>10. ASSUME NEW c \in Conns, BeginAuth(c) PROVE IInv'
  <2> USE <1>10 DEF BeginAuth, IInv
  <2>1. Shape' /\ Queued'
    BY SMTT(60) DEF Shape, Queued
  <2>2. PermitsHeld' /\ PermitsCounted'
    BY SameHolders DEF PermitsHeld
  <2>3. Granted'
    BY AcceptableKept DEF Granted
  <2> QED
    BY <2>1, <2>2, <2>3
<1>11. ASSUME NEW c \in Conns, DecideAuth(c) PROVE IInv'
  <2>1. CASE UNCHANGED <<permits, holds, authed, login>>
    <3> USE <1>11, <2>1 DEF DecideAuth, IInv
    <3>1. Shape' /\ Queued'
      BY DEF Shape, Queued
    <3>2. PermitsHeld' /\ PermitsCounted'
      BY SameHolders DEF PermitsHeld
    <3>3. Granted'
      BY AcceptableKept DEF Granted
    <3> QED
      BY <3>1, <3>2, <3>3
  <2>2. CASE /\ "accept" \in Decide(attempt[c]) /\ attempt[c].method # "key offer"
             /\ MarkAuthenticated(c)
    <3> USE <1>11, <2>2 DEF DecideAuth, IInv, MarkAuthenticated
    <3>1. permits' \in Int /\ holds' \in [Conns -> BOOLEAN] /\ PermitsCounted'
      BY Release
    <3>2. Shape' /\ Queued'
      BY <3>1, ZenonT(60) DEF Shape, Queued
    <3>3. PermitsHeld'
      BY DEF Shape, PermitsHeld, ReleasePermit, Startup
    <3>4. attempt[c] \in Acceptable
      BY DEF Shape, Acceptable
    <3>5. Granted'
      BY <3>4, AcceptableKept DEF Granted, Shape
    <3> QED
      BY <3>1, <3>2, <3>3, <3>5
  <2> QED
    BY <1>11, <2>1, <2>2 DEF DecideAuth
<1> QED
  BY <1>2, <1>3, <1>4, <1>5, <1>6, <1>7, <1>8, <1>9, <1>10, <1>11
     DEF Next, Task

-----------------------------------------------------------------------------
(* What it implies.                                                        *)

\* Exactly the connections that are starting up hold a permit.
LEMMA BoundHolds == IInv => StartupsBounded
<1> SUFFICES ASSUME IInv PROVE StartupsBounded
  OBVIOUS
<1>1. {c \in Conns : ~authed[c] /\ phase[c] \in {"handshake", "login", "expired", "open"}}
        = Holders
  BY DEF IInv, PermitsHeld, Holders, Startup
<1> QED
  BY <1>1 DEF IInv, PermitsCounted, StartupsBounded, Holders

\* A login that decide() accepted is one that the configuration entitles to.
LEMMA EntitledHolds == IInv => LoginsEntitled
<1> SUFFICES ASSUME IInv, NEW c \in Conns, authed[c]
             PROVE  /\ config.strict \/ config.allow # {} =>
                         login[c].user \in config.allow
                           \/ (config.strict /\ login[c].user = config.osUser)
                    /\ ~config.hook =>
                         CASE login[c].method = "none" ->
                                config.allowAnonymous /\ ~config.password /\ ~config.keyFiles
                           [] login[c].method = "password" -> config.password
                           [] login[c].method = "key" -> config.keys
                           [] OTHER -> FALSE
  BY DEF LoginsEntitled
<1>1. "accept" \in Decide(login[c])
  BY DEF IInv, Granted, Acceptable
<1>2. UserAllowed(login[c].user)
  BY <1>1 DEF Decide
<1>3. ~config.hook => \/ login[c].method = "none" /\ Anonymous
                      \/ login[c].method = "password" /\ config.password
                      \/ login[c].method = "key" /\ config.keys
  BY <1>1 DEF Decide
<1>4. config.strict \/ config.allow # {} =>
        login[c].user \in config.allow \/ (config.strict /\ login[c].user = config.osUser)
  BY <1>2 DEF IInv, Built, UserAllowed, AllowedUsers
<1>5. CASE ~config.hook
  BY <1>3, <1>4, <1>5 DEF Anonymous, HasExplicitAuth
<1> QED
  BY <1>4, <1>5

\* An accepted method is offered, and an offered one can be accepted.
LEMMA AgreeHolds == IInv => OffersAgree
<1> SUFFICES ASSUME IInv PROVE OffersAgree
  OBVIOUS
<1>1. ASSUME NEW c \in Conns, authed[c] PROVE Kind(login[c].method) \in MethodSet
  BY <1>1 DEF IInv, Granted, Acceptable, Decide, Kind, MethodSet
<1>2. ASSUME NEW k \in MethodSet, NEW u \in Users, UserAllowed(u)
      PROVE  \E m \in Methods \ {"key offer"} :
                Kind(m) = k /\ "accept" \in Decide([user |-> u, method |-> m])
  <2>1. CASE k = "publickey"
    <3>1. config.hook \/ config.keys
      BY <1>2, <2>1 DEF MethodSet
    <3>2. "key" \in Methods \ {"key offer"} /\ Kind("key") = k
      BY <2>1 DEF Methods, Kind
    <3>3. "accept" \in Decide([user |-> u, method |-> "key"])
      BY <1>2, <3>1 DEF Decide
    <3> QED
      BY <3>2, <3>3
  <2>2. CASE k # "publickey"
    BY <1>2, <2>2 DEF MethodSet, Methods, Kind, Decide
  <2> QED
    BY <2>1, <2>2
<1> QED
  BY <1>1, <1>2 DEF OffersAgree

-----------------------------------------------------------------------------
(* The theorems about the server, for any configuration.                   *)

\* The invariant holds in every reachable state of the server.
THEOREM Invariance == Spec => []IInv
  BY InitHolds, NextHolds, PTL DEF Spec

\* At most max_startups connections are past the queue and not authenticated, and these
\* hold the permits that are not available.
THEOREM Startups == Spec => []StartupsBounded
  BY Invariance, BoundHolds, PTL

\* decide() and build() let nobody in whom the allowlist or strict mode excludes, and
\* without a hook nobody by a method that is not configured.
THEOREM Entitlement == Spec => []LoginsEntitled
  BY Invariance, EntitledHolds, PTL

\* method_set and decide() agree, whatever the configuration.
THEOREM Agreement == Spec => []OffersAgree
  BY Invariance, AgreeHolds, PTL

\* What the types say beyond the invariant.
RestShape ==
    /\ config \in Configurations
    /\ accepting \in BOOLEAN
    /\ permits >= 0

\* A permit is taken only if there is one.
LEMMA RestKept == ASSUME IInv, RestShape, [Next]_vars PROVE RestShape'
<1>1. permits \in Int
  BY DEF IInv, Shape
<1>2. config' = config /\ accepting' \in {accepting, FALSE}
  BY DEF RestShape, Next, vars, Shutdown, Accept, ServeConnection, Task, TakePermit,
     CheckAuthed, Close, HandshakeDone, GraceExpires, Disconnect, BeginAuth, DecideAuth
<1>3. ASSUME NEW c \in Conns, ReleasePermit(c) PROVE permits' >= 0
  BY <1>1, <1>3, SMTT(60) DEF ReleasePermit, RestShape
<1>4. ASSUME NEW c \in Conns, TakePermit(c) PROVE permits' >= 0
  BY <1>1, <1>4, SMTT(60) DEF TakePermit
<1>5. permits' = permits \/ \E c \in Conns : TakePermit(c) \/ ReleasePermit(c)
  BY DEF Next, vars, Shutdown, Accept, ServeConnection, Task, CheckAuthed, Close,
     HandshakeDone, GraceExpires, Disconnect, BeginAuth, DecideAuth, MarkAuthenticated
<1>6. permits' >= 0
  BY <1>3, <1>4, <1>5 DEF RestShape
<1> QED
  BY <1>2, <1>6 DEF RestShape

\* Every variable of the server keeps its type; the semaphore's count stays between zero
\* and the permits it was made with.
THEOREM ServerTypes == Spec => []TypeOK
<1>1. Init => RestShape
  <2> SUFFICES ASSUME Init PROVE RestShape
    OBVIOUS
  <2>1. Cap >= 0
    BY AdmissionAssumption, SMTT(60) DEF Cap
  <2>2. permits >= 0
    BY <2>1 DEF Init, ServerInit
  <2> QED
    BY <2>2, AdmissionAssumption DEF Init, ServerInit, RestShape
<1>2. IInv /\ RestShape /\ [Next]_vars => RestShape'
  BY RestKept
<1>3. IInv /\ RestShape => TypeOK
  <2> SUFFICES ASSUME IInv, RestShape PROVE TypeOK
    OBVIOUS
  <2>1. Cardinality(Holders) \in Nat
    BY AdmissionAssumption, FS_Subset, FS_CardinalityType DEF Holders
  <2>2. permits \in Int /\ Cap \in Int
    BY AdmissionAssumption, SMTT(60) DEF IInv, Shape, Cap
  <2>3. permits \in 0 .. Cap
    BY <2>1, <2>2, SMTT(60) DEF IInv, PermitsCounted, RestShape
  <2> QED
    BY <2>3 DEF IInv, Shape, RestShape, TypeOK
<1> QED
  BY <1>1, <1>2, <1>3, Invariance, PTL DEF Spec

-----------------------------------------------------------------------------
(* The server implements LoginGate.                                        *)

\* LoginGate counts as we do.
LEMMA SameCount == \A S : Gate!Cardinality(S) = Cardinality(S)
  BY DEF Cardinality, Gate!Cardinality

\* The connections that are logged in.
Members == {c \in Conns : authed[c]}

\* A connection past the queue does not wait.
LEMMA NotWaiting ==
    ASSUME IInv, NEW c \in Conns, phase[c] # "queued"
    PROVE  ~Gate!Waits(c)
  BY DEF IInv, Queued, Gate!Waits

\* Whoever is accepted is new.
LEMMA Arrives ==
    ASSUME IInv, NEW c \in Conns, Accept(c)
    PROVE  Gate!Arrive(c)
<1>1. phase[c] = "idle" /\ waiting' = Append(waiting, c) /\ UNCHANGED <<holds, authed>>
  BY DEF Accept
<1>2. ~holds[c] /\ ~authed[c]
  BY <1>1 DEF IInv, PermitsHeld, Startup
<1>3. ~Gate!Waits(c)
  BY <1>1, NotWaiting
<1> QED
  BY <1>1, <1>2, <1>3 DEF Gate!Arrive

\* acquire_owned lets one in, if a permit is free.
LEMMA Enters ==
    ASSUME IInv, NEW c \in Conns, TakePermit(c)
    PROVE  Gate!Enter
<1>1. /\ waiting # <<>> /\ Head(waiting) = c /\ waiting' = Tail(waiting)
      /\ permits > 0 /\ holds' = [holds EXCEPT ![c] = TRUE] /\ UNCHANGED authed
  BY DEF TakePermit
<1>2. Holders' = Holders \cup {c}
  BY <1>1 DEF IInv, Shape, Holders
<1>3. Cardinality(Holders) \in Nat /\ permits \in Int /\ Cap \in Nat
  BY HoldersFinite, FS_CardinalityType, CapNat DEF IInv, Shape
<1>4. Cardinality(Holders) < Cap
  BY <1>1, <1>3, SMTT(60) DEF IInv, PermitsCounted
<1>5. Gate!Cardinality(Holders) < Cap
  BY <1>4, SameCount
<1> QED
  BY <1>1, <1>2, <1>5 DEF Gate!Enter, Holders

\* The end of a connection, in whatever phase, takes it out of the gate.
LEMMA Leaves ==
    ASSUME IInv, NEW c \in Conns, Close(c)
    PROVE  Gate!Leave(c) \/ UNCHANGED Gate!gateVars
<1>1. /\ UNCHANGED waiting
      /\ Holders' = Holders \ {c} /\ Members' = Members \ {c}
  BY DEF Close, ReleasePermit, IInv, Shape, Holders, Members
<1>2. CASE c \in Holders \cup Members
  BY <1>1, <1>2 DEF Gate!Leave, Holders, Members
<1>3. CASE c \notin Holders \cup Members
  <2>1. Holders' = Holders /\ Members' = Members
    BY <1>1, <1>3
  <2> QED
    BY <1>1, <2>1 DEF Gate!gateVars, Holders, Members
<1> QED
  BY <1>2, <1>3

\* mark_authenticated gives the permit back with the login.
LEMMA LogsIn ==
    ASSUME IInv, NEW c \in Conns, phase[c] # "queued", MarkAuthenticated(c), UNCHANGED waiting
    PROVE  Gate!LogIn(c) \/ UNCHANGED Gate!gateVars
<1>1. Holders' = Holders \ {c} /\ Members' = Members \cup {c}
  BY DEF MarkAuthenticated, ReleasePermit, IInv, Shape, Holders, Members
<1>2. CASE c \notin Members
  <2>1. ~Gate!Waits(c)
    BY NotWaiting
  <2> QED
    BY <1>1, <1>2, <2>1 DEF Gate!LogIn, Holders, Members
<1>3. CASE c \in Members
  <2>1. c \notin Holders
    BY <1>3 DEF IInv, PermitsHeld, Holders, Members
  <2>2. Holders' = Holders /\ Members' = Members
    BY <1>1, <1>3, <2>1
  <2> QED
    BY <2>2 DEF Gate!gateVars, Holders, Members
<1> QED
  BY <1>2, <1>3

\* Every step of the server is one of LoginGate, or leaves its state.
LEMMA GateStep ==
    ASSUME IInv, [Next]_vars
    PROVE  [Gate!GateNext]_(Gate!gateVars)
<1>1. CASE UNCHANGED <<waiting, holds, authed>>
  <2>1. Holders' = Holders /\ Members' = Members
    BY <1>1 DEF Holders, Members
  <2> QED
    BY <1>1, <2>1 DEF Gate!gateVars, Holders, Members
<1>2. ASSUME NEW c \in Conns, Accept(c) \/ TakePermit(c) PROVE Gate!GateNext
  BY <1>2, Arrives, Enters DEF Gate!GateNext
<1>3. ASSUME NEW c \in Conns, Close(c) PROVE [Gate!GateNext]_(Gate!gateVars)
  BY <1>3, Leaves DEF Gate!GateNext
<1>4. ASSUME NEW c \in Conns, DecideAuth(c) PROVE [Gate!GateNext]_(Gate!gateVars)
  <2>1. /\ phase[c] # "queued" /\ UNCHANGED waiting
        /\ MarkAuthenticated(c) \/ UNCHANGED <<permits, holds, authed, login>>
    BY <1>4 DEF DecideAuth
  <2>2. CASE MarkAuthenticated(c)
    BY <2>1, <2>2, LogsIn DEF Gate!GateNext
  <2> QED
    BY <1>1, <2>1, <2>2
<1>5. CASE UNCHANGED vars \/ Shutdown
  BY <1>1, <1>5 DEF vars, Shutdown
<1>6. ASSUME NEW c \in Conns,
             ServeConnection(c) \/ HandshakeDone(c) \/ GraceExpires(c) \/ BeginAuth(c)
      PROVE  UNCHANGED <<waiting, holds, authed>>
  BY <1>6 DEF ServeConnection, HandshakeDone, GraceExpires, BeginAuth
<1>7. ASSUME NEW c \in Conns, CheckAuthed(c) \/ Disconnect(c)
      PROVE  Close(c) \/ UNCHANGED <<waiting, holds, authed>>
  BY <1>7 DEF CheckAuthed, Disconnect
<1> QED
  BY <1>1, <1>2, <1>3, <1>4, <1>5, <1>6, <1>7 DEF Next, Task

\* Its initial state is the empty gate.
LEMMA GateStarts == ServerInit => Gate!GateInit
  BY DEF ServerInit, Gate!GateInit

\* For any number of connections: they enter in the order of the queue, at most
\* max_startups are inside, and each leaves by its login or its end, exactly once,
\* also if the grace time elapses during a decision or the client goes away.
THEOREM Gated == Spec => GateKept
<1>1. Init => Gate!GateInit
  BY GateStarts DEF Init
<1>2. IInv /\ [Next]_vars => [Gate!GateNext]_(Gate!gateVars)
  BY GateStep
<1> QED
  BY <1>1, <1>2, Invariance, PTL DEF Spec, GateKept, Gate!GateSpec

-----------------------------------------------------------------------------
(* From the configuration to the server.                                   *)

\* No directive sets these fields.
LEMMA SaidNothing ==
    ASSUME text \in Seq(Line), NEW f \in {"password", "strict", "allow-user", "pubkey"}
    PROVE  SaidOf(f) = <<>>
<1>1. \A k \in DOMAIN FieldOf : FieldOf[k] # f
  BY SMTT(60) DEF FieldOf
<1>2. FileAt(f) = {}
  BY <1>1 DEF FileAt
<1> DEFINE ss == Picks(FileValues, {})
<1>3. FileValues \in Seq(Strings)
  BY SaidType
<1>4. Len(FileValues) \in Nat /\ DOMAIN FileValues = 1 .. Len(FileValues)
  BY <1>3, SMTT(60)
<1>5. /\ ss \in [1 .. Len(FileValues) -> Seq({})]
      /\ \A n \in 1 .. Len(FileValues) : ss[n] = <<>>
  BY <1>4, SMTT(60) DEF Picks
<1>6. ss \in Seq(Seq({})) /\ Len(ss) = Len(FileValues)
  <2> HIDE DEF ss
  <2> QED
    BY <1>4, <1>5, SeqOfFcn
<1>7. Joined(ss) = <<>>
  <2> HIDE DEF ss
  <2> QED
    BY <1>5, <1>6, JoinedEmpties
<1> QED
  BY <1>2, <1>7 DEF SaidOf, FileValues, FileAt, Picked, Picks

\* What build() finds in a complete configuration is what Grants says.
LEMMA BuiltAsGranted ==
    ASSUME ConfigInv, Intact, stage = "configured"
    PROVE  /\ Given(built.field, "password") <=> Given(typed, "password")
           /\ Given(built.field, "strict") <=> Given(typed, "strict-user")
           /\ ListOf(built.field, "allow-user") = ListOf(typed, "allow-user")
           /\ ListOf(built.field, "authorized-keys") \o ListOf(built.field, "pubkey") # <<>>
                <=> WantedList("authorized-keys") \o WantedList("pubkey") # <<>>
           /\ built.anonymous = ~SaysAuth
<1>1. /\ \A f \in ListFields : /\ ListOf(built.field, f) \in Seq(Strings)
                               /\ Located(f, ListOf(built.field, f), dir) = WantedList(f)
      /\ \A f \in ScalarFields : InUse(f) = WantedScalar(f)
      /\ built.anonymous = ~SaysAuth
      /\ text \in Seq(Line) /\ IsCommandLine(typed)
  BY DEF ConfigInv, InStage, ConfigAsDescribed, Intact
<1>2. \A f : InUse(f) # {} <=> Given(built.field, f)
  BY DEF InUse, Given
<1>3. Given(built.field, "password") <=> Given(typed, "password")
  <2>1. /\ "password" \in ScalarFields
        /\ \A o \in Switches \ {"no-config"} : SwitchSets[o].field # "password"
    BY FieldNames DEF ScalarFields, ScalarOptions, SwitchFields
  <2>2. WantedScalar("password") =
          IF Given(typed, "password")
          THEN {LocatedValue("password", v, "here") : v \in MeantByOption("password", typed["password"])}
          ELSE {}
    BY <1>1, <2>1, SaidNothing DEF WantedScalar
  <2>3. \A v : MeantByOption("password", v) = {v}
    <3>1. \A v : OptionValue("password", v) = {v}
      BY DEF OptionValue, from_arg_str
    <3>2. "password" \in ScalarOptions
      BY DEF ScalarOptions
    <3> QED
      BY <3>1, <3>2, OptionMeant
  <2>4. WantedScalar("password") # {} <=> Given(typed, "password")
    BY <2>2, <2>3, SMTT(60)
  <2>5. InUse("password") = WantedScalar("password")
    BY <1>1, <2>1
  <2> QED
    BY <1>2, <2>4, <2>5
<1>4. Given(built.field, "strict") <=> Given(typed, "strict-user")
  <2>1. /\ "strict" \in ScalarFields
        /\ \A o \in Switches \ {"no-config"} :
             SwitchSets[o].field = "strict" <=> o = "strict-user"
        /\ "strict-user" \in Switches \ {"no-config"}
    BY DEF ScalarFields, Switches, SwitchSets
  <2>2. ~Given(typed, "strict")
    BY <1>1 DEF IsCommandLine, Given, Switches, Options, ListOptions, ReplacingLists,
                ExtendingLists, ScalarOptions
  <2> DEFINE switches == {o \in Switches \cap DOMAIN typed :
                             o # "no-config" /\ SwitchSets[o].field = "strict"}
  <2>3. switches # {} <=> Given(typed, "strict-user")
    BY <2>1 DEF Given
  <2>4. WantedScalar("strict") =
          IF switches # {} THEN {SwitchSets[o].value : o \in switches} ELSE {}
    BY <1>1, <2>2, SaidNothing DEF WantedScalar
  <2> HIDE DEF switches
  <2>5. WantedScalar("strict") # {} <=> switches # {}
    BY <2>4
  <2> QED
    BY <1>1, <1>2, <2>1, <2>3, <2>5
<1>5. \A f \in {"allow-user", "pubkey"} : \A s, d : Located(f, s, d) = s
  BY DEF Located, PathOptions
<1>6. {"allow-user", "pubkey", "authorized-keys"} \subseteq ListFields
  BY DEF ListFields, ListOptions, ExtendingLists
<1>7. ListOf(built.field, "allow-user") = ListOf(typed, "allow-user")
  <2> DEFINE f == "allow-user"
  <2>1. WantedList(f) = SaidOf(f) \o ListOf(typed, f)
    <3>1. f \notin ReplacingLists /\ f # "authorized-keys"
      BY DEF ReplacingLists
    <3>2. /\ Located(f, SaidOf(f), dir) = SaidOf(f)
          /\ Located(f, ListOf(typed, f), "here") = ListOf(typed, f)
      BY <1>5
    <3> QED
      BY <3>1, <3>2 DEF WantedList
  <2>2. SaidOf(f) = <<>>
    BY <1>1, SaidNothing
  <2>3. ListOf(typed, f) \in Seq(STRING)
    <3>1. f \notin Switches /\ f \in ListOptions
      BY DEF Switches, ListOptions, ExtendingLists
    <3>2. f \in DOMAIN typed => typed[f] \in Seq(STRING)
      BY <1>1, <3>1 DEF IsCommandLine
    <3>3. <<>> \in Seq(STRING)
      BY SMTT(60)
    <3> QED
      BY <3>2, <3>3 DEF ListOf, Given
  <2>4. ASSUME NEW s \in Seq(STRING) PROVE <<>> \o s = s
    BY SMTT(60)
  <2> QED
    BY <1>1, <1>5, <1>6, <2>1, <2>2, <2>3, <2>4
<1>8. ListOf(built.field, "authorized-keys") \o ListOf(built.field, "pubkey") # <<>>
        <=> WantedList("authorized-keys") \o WantedList("pubkey") # <<>>
  <2>1. ASSUME NEW s \in Seq(Strings), NEW t \in Seq(Strings)
        PROVE  s \o t # <<>>
                 <=> Located("authorized-keys", s, dir) \o Located("pubkey", t, dir) # <<>>
    <3> DEFINE u == Located("authorized-keys", s, dir)
               w == Located("pubkey", t, dir)
    <3>1. /\ u \in Seq(Strings \cup {dir}) /\ DOMAIN u = DOMAIN s
          /\ w \in Seq(Strings \cup {dir}) /\ DOMAIN w = DOMAIN t
      <4>1. ASSUME NEW o, NEW v \in Seq(Strings)
            PROVE  /\ Located(o, v, dir) \in Seq(Strings \cup {dir})
                   /\ DOMAIN Located(o, v, dir) = DOMAIN v
        BY LocatedType, SMTT(60)
      <4> QED
        BY <4>1
    <3> HIDE DEF u, w
    <3>2. Len(u) = Len(s) /\ Len(w) = Len(t)
      BY <3>1, SMTT(60)
    <3>3. u \o w # <<>> <=> Len(u) + Len(w) # 0
      BY <3>1, SMTT(60)
    <3>4. s \o t # <<>> <=> Len(s) + Len(t) # 0
      BY SMTT(60)
    <3> QED
      BY <3>2, <3>3, <3>4 DEF u, w
  <2> DEFINE s == ListOf(built.field, "authorized-keys")
             t == ListOf(built.field, "pubkey")
  <2>2. s \in Seq(Strings) /\ t \in Seq(Strings)
    BY <1>1, <1>6
  <2>3. /\ Located("authorized-keys", s, dir) = WantedList("authorized-keys")
        /\ Located("pubkey", t, dir) = WantedList("pubkey")
    BY <1>1, <1>6
  <2> HIDE DEF s, t
  <2>4. s \o t # <<>> <=> Located("authorized-keys", s, dir) \o Located("pubkey", t, dir) # <<>>
    BY <2>1, <2>2
  <2> QED
    BY <2>3, <2>4 DEF s, t
<1> QED
  BY <1>1, <1>3, <1>4, <1>7, <1>8

\* The server has what the file and the options grant.
ServedAs ==
    granted.intact =>
      /\ config.allow = granted.users
      /\ config.strict = granted.strict
      /\ config.password => "password" \in granted.methods
      /\ config.keys => "key" \in granted.methods
      /\ config.allowAnonymous /\ ~config.password /\ ~config.keyFiles
           => "none" \in granted.methods

\* A server is untouched until it is built.
StartupInv ==
    /\ ConfigInv
    /\ IInv
    /\ stage # "serving" => ServerInit
    /\ stage = "serving" => ServedAs

\* It holds at first.
LEMMA StartupStarts == StartupInit => StartupInv
<1> SUFFICES ASSUME StartupInit PROVE StartupInv
  OBVIOUS
<1>1. ConfigInv /\ ServerInit /\ stage = "args"
  BY ConfigStarts DEF StartupInit, ConfigInit
<1>2. Built
  BY DEF StartupInit, NoConfig, Built
<1> QED
  BY <1>1, <1>2, ServerStarts DEF StartupInv

\* build() makes a server that grants what was said.
LEMMA BuildStep ==
    ASSUME StartupInv, Build
    PROVE  StartupInv'
<1>1. /\ ConfigInv /\ ServerInit /\ stage = "configured" /\ stage' = "serving"
      /\ text' = <<>> /\ typed' = NoFields /\ built' = Defaults /\ granted' = Grants
      /\ UNCHANGED <<accepting, permits, waiting, phase, holds, authed, attempt, login>>
  BY DEF StartupInv, Build
<1>2. PICK found \in BOOLEAN, hook \in BOOLEAN, os \in Users \cup {NoUser} :
        /\ found => ListOf(built.field, "authorized-keys") # <<>>
        /\ Buildable(FromConfig(found, hook, os))
        /\ config' = FromConfig(found, hook, os)
  BY DEF Build
<1>3. ConfigInv'
  <2>1. text' \in Seq(Line) /\ IsCommandLine(typed)' /\ IsBuilt'
    BY <1>1, SMTT(60) DEF IsCommandLine, NoFields, Defaults, IsBuilt
  <2>2. InStage' /\ ConfigAsDescribed'
    BY <1>1 DEF InStage, ConfigAsDescribed
  <2> QED
    BY <2>1, <2>2 DEF ConfigInv
<1>4. Built'
  BY <1>2 DEF Buildable, Built
<1>5. ServerInit'
  BY <1>1 DEF ServerInit, Cap
<1>6. IInv'
  <2>1. Holders' = {} /\ Cap' = Cap
    BY <1>5 DEF ServerInit, Holders, Cap
  <2>2. Shape' /\ Queued' /\ PermitsHeld' /\ Granted'
    BY <1>5, CapNat, SMTT(60) DEF ServerInit, Shape, Phases, Queued, PermitsHeld, Granted, Startup, Cap
  <2>3. PermitsCounted'
    BY <1>5, <2>1, CapNat, FS_EmptySet, SMTT(60) DEF ServerInit, PermitsCounted
  <2> QED
    BY <1>4, <2>2, <2>3 DEF IInv
<1>7. ServedAs'
  <2> SUFFICES ASSUME Intact PROVE ServedAs'
    BY <1>1 DEF Grants, Intact, ServedAs
  <2> DEFINE a == ListOf(built.field, "authorized-keys")
             p == ListOf(built.field, "pubkey")
             keys == WantedList("authorized-keys") \o WantedList("pubkey") # <<>>
             password == Given(typed, "password")
  <2>1. /\ Given(built.field, "password") <=> password
        /\ Given(built.field, "strict") <=> Given(typed, "strict-user")
        /\ ListOf(built.field, "allow-user") = ListOf(typed, "allow-user")
        /\ a \o p # <<>> <=> keys
        /\ built.anonymous = ~SaysAuth
    BY <1>1, BuiltAsGranted
  <2>2. /\ config'.allow = Range(ListOf(built.field, "allow-user"))
        /\ config'.strict = Given(built.field, "strict")
        /\ config'.password = Given(built.field, "password")
        /\ config'.keys = (found \/ p # <<>>)
        /\ config'.keyFiles = (a \o p # <<>>)
        /\ config'.allowAnonymous = built.anonymous
    BY <1>2 DEF FromConfig
  <2>3. config'.keys => keys
    <3>1. a \in Seq(Strings) /\ p \in Seq(Strings)
      <4>1. {"pubkey", "authorized-keys"} \subseteq ListFields
        BY DEF ListFields, ListOptions, ExtendingLists
      <4> QED
        BY <1>1, <4>1 DEF ConfigInv, InStage
    <3>2. a # <<>> \/ p # <<>> => a \o p # <<>>
      <4> HIDE DEF a, p
      <4> QED
        BY <3>1, SMTT(60)
    <3> HIDE DEF keys
    <3> QED
      BY <1>2, <2>1, <2>2, <3>2
  <2>4. /\ granted'.users = Range(ListOf(typed, "allow-user"))
        /\ granted'.strict = Given(typed, "strict-user")
        /\ granted'.methods = {m \in {"none", "password", "key"} :
                                 \/ m = "none" /\ ~SaysAuth /\ ~password /\ ~keys
                                 \/ m = "password" /\ password
                                 \/ m = "key" /\ keys}
    BY <1>1 DEF Grants
  <2>5. /\ Given(built.field, "strict") \in BOOLEAN /\ Given(typed, "strict-user") \in BOOLEAN
    BY SMTT(60) DEF Given
  <2> HIDE DEF keys, password, a, p
  <2>6. /\ config'.allow = granted'.users /\ config'.strict = granted'.strict
    BY <2>1, <2>2, <2>4, <2>5
  <2>7. /\ config'.password => "password" \in granted'.methods
        /\ config'.keys => "key" \in granted'.methods
        /\ config'.allowAnonymous /\ ~config'.password /\ ~config'.keyFiles
             => "none" \in granted'.methods
    BY <2>1, <2>2, <2>3, <2>4
  <2> QED
    BY <2>6, <2>7 DEF ServedAs
<1> QED
  BY <1>1, <1>3, <1>6, <1>7 DEF StartupInv

\* Every step preserves it.
LEMMA StartupSteps == StartupInv /\ [StartupNext]_startupVars => StartupInv'
<1> SUFFICES ASSUME StartupInv, [StartupNext]_startupVars PROVE StartupInv'
  OBVIOUS
<1>1. ConfigInv /\ IInv
  BY DEF StartupInv
<1>2. UNCHANGED vars => IInv' /\ ServerInit' = ServerInit /\ config' = config
  <2>1. UNCHANGED vars => IInv'
    BY <1>1, NextHolds
  <2> QED
    BY <2>1 DEF vars, ServerInit
<1>3. UNCHANGED <<vars, granted>> => ServedAs' = ServedAs
  BY <1>2 DEF ServedAs
<1>4. CASE ConfigNext /\ UNCHANGED <<vars, granted>>
  <2>1. ConfigInv'
    BY <1>1, <1>4, ConfigSteps
  <2>2. stage # "serving" /\ stage' # "serving"
    BY <1>4 DEF ConfigNext, from_args, InvalidArgs, SelectConfig, ParseLine, InvalidLine,
                EndOfFile, ApplyFlags, Fail
  <2> QED
    BY <1>2, <1>4, <2>1, <2>2 DEF StartupInv
<1>5. CASE Build
  BY <1>5, BuildStep
<1>6. CASE BuildFails
  <2>1. /\ stage = "configured" /\ stage' = "refused"
        /\ UNCHANGED <<text, typed, dir, home, tokens, args, line, disabled, built, granted, vars>>
    BY <1>6 DEF BuildFails
  <2>2. text' \in Seq(Line) /\ IsCommandLine(typed)' /\ IsBuilt'
    BY <1>1, <2>1, SaidFrame DEF ConfigInv, IsBuilt
  <2>3. InStage' /\ ConfigAsDescribed'
    BY <2>1 DEF InStage, ConfigAsDescribed
  <2>4. ConfigInv'
    BY <2>2, <2>3 DEF ConfigInv
  <2> QED
    BY <1>2, <2>1, <2>4 DEF StartupInv
<1>7. CASE stage = "serving" /\ Next /\ UNCHANGED <<configVars, granted>>
  <2>1. ConfigInv' /\ stage' = "serving"
    BY <1>1, <1>7, ConfigKept DEF configVars
  <2>2. IInv'
    BY <1>1, <1>7, NextHolds
  <2>3. config' = config
    BY <1>7
    DEF Next, Shutdown, Accept, ServeConnection, Task, TakePermit, CheckAuthed, Close,
                HandshakeDone, GraceExpires, Disconnect, BeginAuth, DecideAuth
  <2>4. ServedAs'
    BY <1>7, <2>3 DEF StartupInv, ServedAs
  <2> QED
    BY <2>1, <2>2, <2>4 DEF StartupInv
<1>8. CASE UNCHANGED startupVars
  <2>1. UNCHANGED <<configVars, vars, granted>>
    BY <1>8 DEF startupVars
  <2>2. ConfigInv' /\ stage' = stage
    BY <1>1, <2>1, ConfigKept DEF configVars
  <2> QED
    BY <1>2, <1>3, <2>1, <2>2 DEF StartupInv
<1> QED
  BY <1>4, <1>5, <1>6, <1>7, <1>8 DEF StartupNext

\* The invariant holds from the command line to the last login.
THEOREM StartupInvariance == StartupSpec => []StartupInv
  BY StartupStarts, StartupSteps, PTL DEF StartupSpec

\* For any configuration file and any command line, run_server in the foreground and
\* the server that Windows launches make the configuration that file and options
\* describe, or fail because one of them has a flaw (parse, parse_for_user, build_config).
THEOREM Described == StartupSpec => []ConfigAsDescribed
<1>1. StartupInv => ConfigAsDescribed
  BY DEF StartupInv, ConfigInv
<1> QED
  BY <1>1, StartupInvariance, PTL

\* Whoever decide() lets in has a name and a method that the file and the options grant,
\* for any file, any command line, any number of connections and any hook.
THEOREM Logins == StartupSpec => []LoginsAsDescribed
<1>1. StartupInv => LoginsAsDescribed
  <2> SUFFICES ASSUME StartupInv, granted.intact, NEW c \in Conns, authed[c]
               PROVE  /\ granted.strict \/ granted.users # {} =>
                           \/ login[c].user \in granted.users
                           \/ granted.strict /\ login[c].user = config.osUser
                      /\ ~config.hook => login[c].method \in granted.methods
    BY DEF LoginsAsDescribed
  <2>1. stage = "serving"
    BY DEF StartupInv, ServerInit
  <2>2. ServedAs
    BY <2>1 DEF StartupInv
  <2>3. LoginsEntitled
    BY EntitledHolds DEF StartupInv
  <2>4. granted.strict \/ granted.users # {} =>
          \/ login[c].user \in granted.users
          \/ granted.strict /\ login[c].user = config.osUser
    BY <2>2, <2>3 DEF ServedAs, LoginsEntitled
  <2>5. ~config.hook => login[c].method \in granted.methods
    BY <2>2, <2>3 DEF ServedAs, LoginsEntitled
  <2> QED
    BY <2>4, <2>5
<1> QED
  BY <1>1, StartupInvariance, PTL

\* The bound on unauthenticated connections holds of every server that build() makes of
\* a file and options.
THEOREM StartupsOfServer == StartupSpec => []StartupsBounded
  BY StartupInvariance, BoundHolds, PTL DEF StartupInv

\* method_set and decide() agree in every server that build() makes of a file and options.
THEOREM OffersOfServer == StartupSpec => []OffersAgree
  BY StartupInvariance, AgreeHolds, PTL DEF StartupInv

\* Every server that build() makes of a file and options admits connections as LoginGate
\* says.
THEOREM GateOfServer == StartupSpec => GateKept
<1>1. StartupInit => Gate!GateInit
  BY GateStarts DEF StartupInit
<1>2. StartupInv /\ [StartupNext]_startupVars => [Gate!GateNext]_(Gate!gateVars)
  <2> SUFFICES ASSUME StartupInv, [StartupNext]_startupVars
               PROVE  [Gate!GateNext]_(Gate!gateVars)
    OBVIOUS
  <2>1. CASE UNCHANGED <<waiting, holds, authed>>
    <3>1. Holders' = Holders /\ Members' = Members
      BY <2>1 DEF Holders, Members
    <3> QED
      BY <2>1, <3>1 DEF Gate!gateVars, Holders, Members
  <2>2. CASE Next
    BY <2>2, GateStep DEF StartupInv
  <2>3. Next \/ UNCHANGED <<waiting, holds, authed>>
    BY DEF StartupNext, startupVars, vars, Build, BuildFails
  <2> QED
    BY <2>1, <2>2, <2>3
<1> QED
  BY <1>1, <1>2, StartupInvariance, PTL DEF StartupSpec, GateKept, Gate!GateSpec
=============================================================================
