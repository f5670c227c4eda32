------------------------------- MODULE Startup --------------------------------
(***************************************************************************)
(* From the start of the process to the first round of the loop, and what  *)
(* the options let into the loop.                                          *)
(*                                                                         *)
(* appbase reads the options, initializes the plugins and then starts      *)
(* them, those that others require first: trade_db, trade_api, grid_trade. *)
(* An exception on the way reaches main, and the process ends; systemd     *)
(* starts it again, until it finds that it has done so too often.  The     *)
(* operator may edit the file of the options at any time; a process reads  *)
(* it once.                                                                *)
(*                                                                         *)
(* A line of grid-tactics-config is the sequence of its fields: a seg_id,  *)
(* and texts that atof reads, as a number, as NaN, or not at all.          *)
(***************************************************************************)
EXTENDS Integers, Sequences

CONSTANTS SegIds,
          NaN,      \* the text "nan", and its value
          Garbage,  \* a text that begins with no number
          Configs,  \* the option files of the operator
          Answers,  \* lists of accounts the exchange may answer
          NoAccount,
          Burst,    \* systemd's StartLimitBurst
          MaxEdits  \* bound: edits of the option file

Texts == Int \cup {NaN, Garbage}
Values == Int \cup {NaN}
Lines == {line \in Seq(SegIds \cup Texts) :
            /\ Len(line) >= 1 /\ line[1] \in SegIds
            /\ \A k \in 2 .. Len(line) : line[k] \in Texts}

Keys == {"good", "encrypted", "bad"}

ASSUME TextAssumption ==
  NaN \notin Int /\ Garbage \notin Int /\ NaN # Garbage
ASSUME ConfigAssumption ==
  \A c \in Configs : /\ c.lines \in Seq(Lines)
                     /\ c.min_number_num \in Int
                     /\ c.secret_key \in Keys
                     /\ c.password \in {"no", "right", "wrong"}
ASSUME LimitAssumption == Burst \in Nat \ {0} /\ MaxEdits \in Nat

VARIABLES config,  \* the file as the operator left it
          edits,
          options, \* as the process has read them
          proc,    \* "down", "reading", "account", "running", "failed"
          next,    \* the line of the options that is read next
          tactics_, \* by seg_id
          secret_key,
          account_id,
          exit,    \* history: how the process ended, while it is down
          starts   \* as systemd counts them

startupvars == <<config, edits, options, proc, next, tactics_, secret_key,
                 account_id, exit, starts>>

NoTactics == [s \in {} |-> 0]

StartupInit ==
  /\ config \in Configs /\ edits = 0
  /\ options = config
  /\ proc = "down" /\ next = 1 /\ tactics_ = NoTactics
  /\ secret_key = "bad" /\ account_id = NoAccount
  /\ exit = "none" /\ starts = 0

-----------------------------------------------------------------------------
(* Doubles: a comparison with NaN is false.                                *)
Leq(x, y)  == x # NaN /\ y # NaN /\ x <= y
Less(x, y) == x # NaN /\ y # NaN /\ x < y

mut_GarbageIsNaN(text) == IF text = Garbage THEN NaN ELSE text
atof(text) == IF text = Garbage THEN 0 ELSE text

Tactic(line) ==
  [sale_price  |-> atof(line[2]),
   buy_price   |-> atof(line[3]),
   sale_number |-> atof(line[4])]

-----------------------------------------------------------------------------
(* The process.                                                            *)

(* cfb_aes_decrypt, unless the password is "no"                            *)
mut_NeverDecrypted == config.secret_key
LoadedKey ==
  IF config.password = "no" THEN config.secret_key
  ELSE IF config.password = "right" /\ config.secret_key = "encrypted"
       THEN "good" ELSE "bad"

(* systemd, and the plugins before grid_trade                              *)
Launch ==
  /\ proc = "down" /\ starts < Burst
  /\ proc' = "reading" /\ starts' = starts + 1
  /\ options' = config /\ secret_key' = LoadedKey
  /\ exit' = "none"
  /\ UNCHANGED <<config, edits, next, tactics_, account_id>>

(* mutant: the reading goes on where the last process left it *)
mut_KeepsNext(how) ==
  /\ proc' = "down" /\ exit' = how
  /\ tactics_' = NoTactics
  /\ secret_key' = "bad" /\ account_id' = NoAccount
  /\ UNCHANGED <<config, edits, options, next, starts>>

(* nothing of the process is left                                          *)
Die(how) ==
  /\ proc' = "down" /\ exit' = how
  /\ next' = 1 /\ tactics_' = NoTactics
  /\ secret_key' = "bad" /\ account_id' = NoAccount
  /\ UNCHANGED <<config, edits, options, starts>>

Fields(line) == Len(line) >= 4
mut_LessOnly(t) == Less(t.sale_price, t.buy_price)  \* mutant: < for <=
PricesCross(t) == Leq(t.sale_price, t.buy_price)
TooSmall(t) == Less(t.sale_number, options.min_number_num)
Known(line) == line[1] \in DOMAIN tactics_

(* the loop of plugin_initialize throws at this line                       *)
mut_Overwrites(line) ==  \* mutant: a known seg_id replaces its tactic
  \/ ~ Fields(line)
  \/ Fields(line) /\ (PricesCross(Tactic(line)) \/ TooSmall(Tactic(line)))
Refused(line) ==
  \/ ~ Fields(line)
  \/ /\ Fields(line)
     /\ PricesCross(Tactic(line)) \/ TooSmall(Tactic(line)) \/ Known(line)

RefuseLine ==
  /\ proc = "reading" /\ next <= Len(options.lines)
  /\ Refused(options.lines[next])
  /\ Die("refused")

add_tactics(line) ==
  tactics_' = [s \in DOMAIN tactics_ \cup {line[1]} |->
                 IF s = line[1] THEN Tactic(line) ELSE tactics_[s]]

AddLine ==
  /\ proc = "reading" /\ next <= Len(options.lines)
  /\ ~ Refused(options.lines[next])
  /\ add_tactics(options.lines[next])
  /\ next' = next + 1
  /\ UNCHANGED <<config, edits, options, proc, secret_key, account_id, exit,
                 starts>>

Initialized ==
  /\ proc = "reading" /\ next > Len(options.lines)
  /\ proc' = "account"
  /\ UNCHANGED <<config, edits, options, next, tactics_, secret_key,
                 account_id, exit, starts>>

(* get_account: the first account of the list that is spot and working     *)
Usable(account) == account.type = "spot" /\ account.state = "working"
IsFirst(list, i) ==
  Usable(list[i]) /\ \A j \in 1 .. (i - 1) : ~ Usable(list[j])

(* the exchange knows the key: account_id is set, and the loop begins      *)
GetAccount ==
  /\ proc = "account" /\ secret_key = "good"
  /\ \E list \in Answers : \E i \in DOMAIN list :
       IsFirst(list, i) /\ account_id' = list[i].id
  /\ proc' = "running"
  /\ UNCHANGED <<config, edits, options, next, tactics_, secret_key, exit,
                 starts>>

(* no answer, an answer that is not ok, or no account in it                *)
NoSuchAccount ==
  /\ proc = "account"
  /\ Die("account")

(* whatever else ends it                                                   *)
Killed ==
  /\ proc \in {"reading", "account", "running"}
  /\ Die("killed")

-----------------------------------------------------------------------------
(* Around the process.                                                     *)

(* Restart=always, but not more than Burst starts in the interval          *)
GiveUp ==
  /\ proc = "down" /\ starts = Burst
  /\ proc' = "failed"
  /\ UNCHANGED <<config, edits, options, next, tactics_, secret_key,
                 account_id, exit, starts>>

IntervalOver ==
  /\ proc # "failed" /\ starts > 0
  /\ starts' = 0
  /\ UNCHANGED <<config, edits, options, proc, next, tactics_, secret_key,
                 account_id, exit>>

(* the operator edits the file; and starts a failed unit again with it     *)
Edit ==
  /\ edits < MaxEdits /\ edits' = edits + 1
  /\ config' \in Configs
  /\ IF proc = "failed" THEN proc' = "down" /\ starts' = 0
                        ELSE UNCHANGED <<proc, starts>>
  /\ UNCHANGED <<options, next, tactics_, secret_key, account_id, exit>>

Process == RefuseLine \/ AddLine \/ Initialized \/ GetAccount \/ NoSuchAccount

StartupNext ==
  Launch \/ Process \/ Killed \/ GiveUp \/ IntervalOver \/ Edit

StartupSpec == StartupInit /\ [][StartupNext]_startupvars

(* systemd starts it or gives it up, its calls return, and a process that  *)
(* asks for its account again and again gets it at last.                   *)
StartupLiveSpec ==
  /\ StartupSpec
  /\ WF_startupvars(Launch) /\ WF_startupvars(GiveUp)
  /\ WF_startupvars(Process)
  /\ SF_startupvars(GetAccount)

-----------------------------------------------------------------------------
(* A setting, and a line, may be read but by the process.                  *)
StartupTypeOK ==
  /\ config \in Configs /\ options \in Configs
  /\ proc \in {"down", "reading", "account", "running", "failed"}
  /\ next \in 1 .. Len(options.lines) + 1
  /\ DOMAIN tactics_ \subseteq SegIds
  /\ \A s \in DOMAIN tactics_ :
       tactics_[s] \in [sale_price : Values, buy_price : Values,
                        sale_number : Values]
  /\ secret_key \in Keys
  /\ exit \in {"none", "refused", "account", "killed"}
  /\ starts \in 0 .. Burst /\ edits \in 0 .. MaxEdits

(* What a file of options has to be, read as a whole: the lines are        *)
(* complete, no seg_id comes twice, and none of the prices and numbers     *)
(* that can be compared is the wrong way round.                            *)
Sound(o) ==
  /\ \A i \in DOMAIN o.lines :
       /\ Len(o.lines[i]) >= 4
       /\ ~ Leq(atof(o.lines[i][2]), atof(o.lines[i][3]))
       /\ ~ Less(atof(o.lines[i][4]), o.min_number_num)
  /\ \A i, j \in DOMAIN o.lines : o.lines[i][1] = o.lines[j][1] => i = j

(* The loop over the lines lets a file pass if and only if it is sound,    *)
(* wherever in the file the fault is, and whatever the operator does to    *)
(* the file meanwhile.                                                     *)
PassesIffSound ==
  /\ proc \in {"account", "running"} => Sound(options)
  /\ exit = "refused" => ~ Sound(options)

(* The loop runs with all lines of one file, with an account of its own    *)
(* that can trade, and with a key that signs: no start gets through with   *)
(* half of them, none of them is left of an earlier process.               *)
RunsWhole ==
  proc = "running" =>
    /\ DOMAIN tactics_ = {options.lines[i][1] : i \in DOMAIN options.lines}
    /\ \A i \in DOMAIN options.lines :
         tactics_[options.lines[i][1]] = Tactic(options.lines[i])
    /\ secret_key = "good"
    /\ \E list \in Answers : \E i \in DOMAIN list :
         Usable(list[i]) /\ list[i].id = account_id

(* What GridTrade assumes of a segment (TacticsAssumption): it sells above *)
(* the price it buys at, and enough.  A segment for which it fails has a   *)
(* NaN that the operator wrote: a text that is no number is 0, and passes  *)
(* only as a price to buy at, or where 0 is enough.                        *)
GridCanRun ==
  \A s \in DOMAIN tactics_ :
    LET t == tactics_[s] IN
    \/ /\ t.sale_price \in Int /\ t.buy_price \in Int /\ t.sale_number \in Int
       /\ t.sale_price > t.buy_price
       /\ t.sale_number >= options.min_number_num
    \/ \E i \in DOMAIN options.lines :
         /\ options.lines[i][1] = s
         /\ \E k \in 2 .. 4 : options.lines[i][k] = NaN

(* With options that are sound and a key that the exchange knows, the loop *)
(* comes up after every end of the process, if it is not killed before it  *)
(* does, and unless it ends so often at once that systemd gives up: the    *)
(* unit file leaves that limit as it is.                                   *)
GoodConfig ==
  /\ Sound(config)
  /\ \/ config.password = "no" /\ config.secret_key = "good"
     \/ config.password = "right" /\ config.secret_key = "encrypted"

Undisturbed == <>[][Killed => proc = "running"]_startupvars

ComesUp ==
  <>[]GoodConfig /\ Undisturbed => []<>(proc \in {"running", "failed"})

=============================================================================
