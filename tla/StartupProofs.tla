----------------------------- MODULE StartupProofs -----------------------------
(***************************************************************************)
(* What plugin_initialize lets pass, for every file of options.            *)
(***************************************************************************)
EXTENDS Startup, TLAPS

(* The lines before the next one, and the map that they have filled.       *)
ReadSoFar ==
  \A i \in 1 .. (next - 1) :
    LET line == options.lines[i] IN
    /\ Len(line) >= 4
    /\ ~ PricesCross(Tactic(line)) /\ ~ TooSmall(Tactic(line))
    /\ line[1] \in DOMAIN tactics_
    /\ tactics_[line[1]] = Tactic(line)

AllRead ==
  \A s \in DOMAIN tactics_ : \E i \in 1 .. (next - 1) : options.lines[i][1] = s

ReadOnce ==
  \A i, j \in 1 .. (next - 1) : options.lines[i][1] = options.lines[j][1] => i = j

SInv ==
  /\ config \in Configs /\ options \in Configs
  /\ next \in 1 .. Len(options.lines) + 1
  /\ proc \in {"account", "running"} => next = Len(options.lines) + 1
  /\ proc \in {"down", "failed"} => next = 1 /\ tactics_ = NoTactics
  /\ proc \notin {"down", "failed"} => exit = "none"
  /\ exit = "refused" => ~ Sound(options)
  /\ ReadSoFar /\ AllRead /\ ReadOnce

LEMMA FileShape ==
  ASSUME NEW c \in Configs
  PROVE  /\ c.lines \in Seq(Lines) /\ Len(c.lines) \in Nat
         /\ DOMAIN c.lines = 1 .. Len(c.lines)
         /\ c.min_number_num \in Int
  BY ConfigAssumption

LEMMA NothingRead ==
  ASSUME next' = 1, tactics_' = NoTactics
  PROVE  ReadSoFar' /\ AllRead' /\ ReadOnce'
<1>1. 1 .. (next' - 1) = {} /\ DOMAIN tactics_' = {}
  BY DEF NoTactics
<1> QED
  BY <1>1 DEF ReadSoFar, AllRead, ReadOnce

LEMMA DieSafe ==
  ASSUME SInv, NEW how, Die(how), how = "refused" => ~ Sound(options)
  PROVE  SInv'
<1>1. ReadSoFar' /\ AllRead' /\ ReadOnce'
  BY NothingRead DEF Die
<1>2. 1 \in 1 .. Len(options.lines) + 1
  BY FileShape DEF SInv
<1> QED
  BY <1>1, <1>2 DEF SInv, Die, Sound

(* A line that is refused is the reason why the file is not sound.         *)
LEMMA RefusedIsUnsound ==
  ASSUME SInv, RefuseLine
  PROVE  ~ Sound(options)
<1> DEFINE line == options.lines[next]
<1>1. next \in DOMAIN options.lines /\ next \in Nat
  BY FileShape DEF RefuseLine, SInv
<1>2. CASE ~ Fields(line)
  BY <1>1, <1>2 DEF Fields, Sound
<1>3. CASE PricesCross(Tactic(line)) \/ TooSmall(Tactic(line))
  BY <1>1, <1>3 DEF PricesCross, TooSmall, Tactic, Sound
<1>4. CASE Known(line)
  <2>1. PICK i \in 1 .. (next - 1) : options.lines[i][1] = line[1]
    BY <1>4 DEF Known, SInv, AllRead
  <2>2. i \in DOMAIN options.lines /\ i # next
    BY <1>1, <2>1, FileShape DEF RefuseLine, SInv
  <2> QED
    BY <1>1, <2>1, <2>2 DEF Sound
<1> QED
  BY <1>2, <1>3, <1>4 DEF RefuseLine, Refused

LEMMA AddSafe ==
  ASSUME SInv, AddLine
  PROVE  SInv'
<1> DEFINE line == options.lines[next]
<1>1. /\ next \in Nat \ {0} /\ next' = next + 1 /\ next <= Len(options.lines)
      /\ Len(options.lines) \in Nat
      /\ options' = options
  BY FileShape DEF AddLine, SInv
<1>2. 1 .. (next' - 1) = 1 .. (next - 1) \cup {next} /\ next \notin 1 .. (next - 1)
  BY <1>1
<1>3. /\ Len(line) >= 4
      /\ ~ PricesCross(Tactic(line)) /\ ~ TooSmall(Tactic(line))
      /\ line[1] \notin DOMAIN tactics_
  BY DEF AddLine, Refused, Fields, Known
<1>4. /\ DOMAIN tactics_' = DOMAIN tactics_ \cup {line[1]}
      /\ tactics_'[line[1]] = Tactic(line)
      /\ \A s \in DOMAIN tactics_ : s # line[1] => tactics_'[s] = tactics_[s]
  BY DEF AddLine, add_tactics
<1>5. ReadSoFar'
  <2> SUFFICES ASSUME NEW i \in 1 .. (next' - 1)
               PROVE  LET l == options.lines[i] IN
                      /\ Len(l) >= 4
                      /\ ~ PricesCross(Tactic(l)) /\ ~ TooSmall(Tactic(l))
                      /\ l[1] \in DOMAIN tactics_'
                      /\ tactics_'[l[1]] = Tactic(l)
    BY <1>1 DEF ReadSoFar, TooSmall
  <2>1. CASE i = next
    BY <1>3, <1>4, <2>1
  <2>2. CASE i \in 1 .. (next - 1)
    BY <1>3, <1>4, <2>2 DEF SInv, ReadSoFar
  <2> QED
    BY <1>2, <2>1, <2>2
<1>6. AllRead'
  BY <1>1, <1>2, <1>4 DEF SInv, AllRead
<1>7. ReadOnce'
  BY <1>1, <1>2, <1>3 DEF SInv, ReadOnce, ReadSoFar
<1>8. next' \in 1 .. Len(options.lines) + 1
  BY <1>1
<1> QED
  BY <1>1, <1>5, <1>6, <1>7, <1>8 DEF SInv, AddLine, Sound

(* A file of which every line has passed is sound.                         *)
LEMMA PassedIsSound ==
  ASSUME SInv, next = Len(options.lines) + 1
  PROVE  Sound(options)
<1>1. DOMAIN options.lines = 1 .. (next - 1)
  BY FileShape DEF SInv
<1> QED
  BY <1>1 DEF SInv, ReadSoFar, ReadOnce, Sound, PricesCross, TooSmall, Tactic

LEMMA OthersSafe ==
  ASSUME SInv, Launch \/ Initialized \/ GetAccount \/ GiveUp \/ IntervalOver
               \/ Edit \/ UNCHANGED startupvars
  PROVE  SInv'
<1>1. CASE Launch
  <2>1. next' = 1 /\ tactics_' = NoTactics /\ options' \in Configs
    BY <1>1 DEF Launch, SInv
  <2>2. 1 \in 1 .. Len(options'.lines) + 1
    BY <2>1, FileShape
  <2> QED
    BY <1>1, <2>1, <2>2, NothingRead DEF Launch, SInv
<1>2. CASE Initialized
  <2>1. next = Len(options.lines) + 1
    BY <1>2, FileShape DEF Initialized, SInv
  <2> QED
    BY <1>2, <2>1 DEF Initialized, SInv, ReadSoFar, AllRead, ReadOnce, Sound,
       TooSmall
<1>3. CASE GetAccount
  BY <1>3 DEF GetAccount, SInv, ReadSoFar, AllRead, ReadOnce, Sound, TooSmall
<1>4. CASE GiveUp \/ IntervalOver \/ Edit \/ UNCHANGED startupvars
  <2>1. /\ UNCHANGED <<options, next, tactics_, exit>>
        /\ config' \in Configs
        /\ \/ proc' = proc
           \/ proc \in {"down", "failed"} /\ proc' \in {"down", "failed"}
    BY <1>4 DEF GiveUp, IntervalOver, Edit, startupvars, SInv
  <2> QED
    BY <2>1 DEF SInv, ReadSoFar, AllRead, ReadOnce, Sound, TooSmall
<1> QED
  BY <1>1, <1>2, <1>3, <1>4

LEMMA StartInit == ASSUME StartupInit PROVE SInv
<1>1. 1 .. (next - 1) = {} /\ DOMAIN tactics_ = {}
  BY DEF StartupInit, NoTactics
<1>2. 1 \in 1 .. Len(options.lines) + 1
  BY FileShape DEF StartupInit
<1> QED
  BY <1>1, <1>2 DEF StartupInit, SInv, ReadSoFar, AllRead, ReadOnce

LEMMA StartNext == ASSUME SInv, [StartupNext]_startupvars PROVE SInv'
<1>1. CASE RefuseLine
  BY <1>1, RefusedIsUnsound, DieSafe DEF RefuseLine
<1>2. CASE AddLine
  BY <1>2, AddSafe
<1>3. CASE NoSuchAccount
  <2>1. Die("account")
    BY <1>3 DEF NoSuchAccount
  <2> QED
    BY <2>1, DieSafe
<1>4. CASE Killed
  <2>1. Die("killed")
    BY <1>4 DEF Killed
  <2> QED
    BY <2>1, DieSafe
<1> QED
  BY <1>1, <1>2, <1>3, <1>4, OthersSafe DEF StartupNext, Process

LEMMA StartInvariance == StartupSpec => []SInv
  BY StartInit, StartNext, PTL DEF StartupSpec

(* plugin_initialize refuses a file of options if and only if it is not    *)
(* sound as a whole, for every file.                                       *)
THEOREM Passes == StartupSpec => []PassesIffSound
<1>1. SInv => PassesIffSound
  BY PassedIsSound DEF SInv, PassesIffSound
<1> QED
  BY <1>1, StartInvariance, PTL

(* Whatever file has passed, a segment is as GridTrade assumes it          *)
(* (TacticsAssumption), unless the operator wrote a NaN.                   *)
THEOREM CanRun == StartupSpec => []GridCanRun
<1>1. SInv => GridCanRun
  <2> SUFFICES ASSUME SInv, NEW s \in DOMAIN tactics_,
                      ~ \E i \in DOMAIN options.lines :
                          /\ options.lines[i][1] = s
                          /\ \E k \in 2 .. 4 : options.lines[i][k] = NaN
               PROVE  LET t == tactics_[s] IN
                      /\ t.sale_price \in Int /\ t.buy_price \in Int
                      /\ t.sale_number \in Int
                      /\ t.sale_price > t.buy_price
                      /\ t.sale_number >= options.min_number_num
    BY DEF GridCanRun
  <2>1. PICK i \in 1 .. (next - 1) : options.lines[i][1] = s
    BY DEF SInv, AllRead
  <2>2. i \in DOMAIN options.lines /\ options.lines[i] \in Lines
    BY <2>1, FileShape DEF SInv
  <2> DEFINE line == options.lines[i]
  <2>3. /\ Len(line) >= 4 /\ tactics_[s] = Tactic(line)
        /\ ~ PricesCross(Tactic(line)) /\ ~ TooSmall(Tactic(line))
    BY <2>1 DEF SInv, ReadSoFar
  <2>4. Len(line) \in Nat /\ \A k \in 2 .. Len(line) : line[k] \in Texts
    BY <2>2 DEF Lines
  <2>5. \A k \in 2 .. 4 : line[k] \in Texts /\ line[k] # NaN
    BY <2>1, <2>2, <2>3, <2>4
  <2>6. \A k \in 2 .. 4 : atof(line[k]) \in Int /\ atof(line[k]) # NaN
    BY <2>5, TextAssumption DEF Texts, atof
  <2>7. 2 \in 2 .. 4 /\ 3 \in 2 .. 4 /\ 4 \in 2 .. 4
    OBVIOUS
  <2>8. options.min_number_num \in Int /\ options.min_number_num # NaN
    BY FileShape, TextAssumption DEF SInv
  <2> HIDE DEF line
  <2> QED
    BY <2>3, <2>6, <2>7, <2>8 DEF Tactic, PricesCross, TooSmall, Leq, Less
<1> QED
  BY <1>1, StartInvariance, PTL

-----------------------------------------------------------------------------
(* A process that runs has a key that the exchange knows and an account.   *)
AccountInv ==
  proc = "running" =>
    /\ secret_key = "good"
    /\ \E list \in Answers : \E i \in DOMAIN list :
         Usable(list[i]) /\ list[i].id = account_id

LEMMA AccountInvariance == StartupSpec => []AccountInv
<1>1. StartupInit => AccountInv
  BY DEF StartupInit, AccountInv
<1>2. AccountInv /\ [StartupNext]_startupvars => AccountInv'
  <2> SUFFICES ASSUME AccountInv, [StartupNext]_startupvars PROVE AccountInv'
    OBVIOUS
  <2>1. CASE GetAccount
    <3>1. PICK list \in Answers : \E i \in DOMAIN list :
            IsFirst(list, i) /\ account_id' = list[i].id
      BY <2>1 DEF GetAccount
    <3>2. \E i \in DOMAIN list : Usable(list[i]) /\ list[i].id = account_id'
      BY <3>1 DEF IsFirst
    <3> QED
      BY <2>1, <3>2 DEF GetAccount, AccountInv
  <2>2. CASE Launch \/ RefuseLine \/ NoSuchAccount \/ Killed \/ Initialized \/ GiveUp
    BY <2>2 DEF Launch, RefuseLine, NoSuchAccount, Killed, Die, Initialized,
       GiveUp, AccountInv
  <2>3. CASE AddLine \/ IntervalOver \/ Edit \/ UNCHANGED startupvars
    <3>1. UNCHANGED <<secret_key, account_id>> /\ proc' \in {proc, "down"}
      BY <2>3 DEF AddLine, IntervalOver, Edit, startupvars
    <3> QED
      BY <3>1 DEF AccountInv
  <2> QED
    BY <2>1, <2>2, <2>3 DEF StartupNext, Process
<1> QED
  BY <1>1, <1>2, PTL DEF StartupSpec

(* The loop runs with every line of one file and with no other, with a key *)
(* that signs, and with an account that can trade.                         *)
THEOREM Whole == StartupSpec => []RunsWhole
<1>1. SInv /\ AccountInv => RunsWhole
  <2> SUFFICES ASSUME SInv, AccountInv, proc = "running" PROVE RunsWhole
    BY DEF RunsWhole
  <2>1. DOMAIN options.lines = 1 .. (next - 1)
    BY FileShape DEF SInv
  <2>2. \A i \in DOMAIN options.lines :
          /\ options.lines[i][1] \in DOMAIN tactics_
          /\ tactics_[options.lines[i][1]] = Tactic(options.lines[i])
    BY <2>1 DEF SInv, ReadSoFar
  <2>3. \A s \in DOMAIN tactics_ : \E i \in DOMAIN options.lines : options.lines[i][1] = s
    BY <2>1 DEF SInv, AllRead
  <2>4. DOMAIN tactics_ = {options.lines[i][1] : i \in DOMAIN options.lines}
    BY <2>2, <2>3
  <2> QED
    BY <2>2, <2>4 DEF AccountInv, RunsWhole
<1> QED
  BY <1>1, StartInvariance, AccountInvariance, PTL

-----------------------------------------------------------------------------
(* What StartupTypeOK says of everything but the lines that were read.     *)
Flags ==
  /\ config \in Configs
  /\ proc \in {"down", "reading", "account", "running", "failed"}
  /\ secret_key \in Keys
  /\ exit \in {"none", "refused", "account", "killed"}
  /\ starts \in 0 .. Burst /\ edits \in 0 .. MaxEdits

LEMMA FlagsInvariance == StartupSpec => []Flags
<1>1. StartupInit => Flags
  BY LimitAssumption DEF StartupInit, Flags, Keys
<1>2. Flags /\ [StartupNext]_startupvars => Flags'
  <2> SUFFICES ASSUME Flags, [StartupNext]_startupvars PROVE Flags'
    OBVIOUS
  <2>1. CASE Launch
    <3>1. LoadedKey \in Keys
      BY ConfigAssumption DEF LoadedKey, Keys, Flags
    <3>2. starts' \in 0 .. Burst
      BY <2>1, LimitAssumption DEF Launch, Flags
    <3> QED
      BY <2>1, <3>1, <3>2 DEF Launch, Flags
  <2>2. CASE RefuseLine \/ NoSuchAccount \/ Killed
    BY <2>2 DEF RefuseLine, NoSuchAccount, Killed, Die, Flags, Keys
  <2>3. CASE AddLine \/ Initialized \/ GetAccount \/ GiveUp \/ UNCHANGED startupvars
    BY <2>3 DEF AddLine, Initialized, GetAccount, GiveUp, startupvars, Flags
  <2>4. CASE IntervalOver \/ Edit
    <3>1. starts' \in 0 .. Burst /\ edits' \in 0 .. MaxEdits
      BY <2>4, LimitAssumption DEF IntervalOver, Edit, Flags
    <3>2. proc' \in {proc, "down"} /\ config' \in Configs
      BY <2>4 DEF IntervalOver, Edit, Flags
    <3> QED
      BY <2>4, <3>1, <3>2 DEF IntervalOver, Edit, Flags
  <2> QED
    BY <2>1, <2>2, <2>3, <2>4 DEF StartupNext, Process
<1> QED
  BY <1>1, <1>2, PTL DEF StartupSpec

(* The process reads the lines of its options and no other, and makes      *)
(* numbers of their texts, or NaN.                                         *)
THEOREM StartupTypes == StartupSpec => []StartupTypeOK
<1>1. SInv /\ Flags => StartupTypeOK
  <2> SUFFICES ASSUME SInv, Flags, NEW s \in DOMAIN tactics_
               PROVE  s \in SegIds /\ tactics_[s] \in
                        [sale_price : Values, buy_price : Values,
                         sale_number : Values]
    BY DEF StartupTypeOK, SInv, Flags
  <2>1. PICK i \in 1 .. (next - 1) : options.lines[i][1] = s
    BY DEF SInv, AllRead
  <2>2. i \in DOMAIN options.lines /\ options.lines[i] \in Lines
    BY <2>1, FileShape DEF SInv
  <2> DEFINE line == options.lines[i]
  <2>3. Len(line) >= 4 /\ tactics_[s] = Tactic(line)
    BY <2>1 DEF SInv, ReadSoFar
  <2>4. /\ Len(line) \in Nat /\ line[1] \in SegIds
        /\ \A k \in 2 .. Len(line) : line[k] \in Texts
    BY <2>2 DEF Lines
  <2>5. 2 \in 2 .. Len(line) /\ 3 \in 2 .. Len(line) /\ 4 \in 2 .. Len(line)
    BY <2>3, <2>4
  <2>6. \A text \in Texts : atof(text) \in Values
    BY TextAssumption DEF Texts, Values, atof
  <2> HIDE DEF line
  <2>7. Tactic(line) \in [sale_price : Values, buy_price : Values, sale_number : Values]
    BY <2>4, <2>5, <2>6 DEF Tactic
  <2> QED
    BY <2>1, <2>3, <2>4, <2>7 DEF line
<1> QED
  BY <1>1, StartInvariance, FlagsInvariance, PTL

=============================================================================
