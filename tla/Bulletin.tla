-------------------------------- MODULE Bulletin --------------------------------
(***************************************************************************)
(* What the bot tells of the status in Discord: one message that it edits  *)
(* in place, and a post when a component goes down or comes back.  And the *)
(* welcome message, which an administrator has it post, and which is kept  *)
(* in the same way: where it is stands in discord_settings, in a statement *)
(* of its own after the message was sent.                                  *)
(*                                                                         *)
(* The bot is a process beside the website (-mode bot), and remembers what *)
(* it saw last.  Its presence, pinning and the wording are left out; what  *)
(* becomes of a post after EnqueueNow is Delivery's.                       *)
(***************************************************************************)
EXTENDS Monitor

CONSTANTS
    Channels,       \* of the guild
    NoChannel,
    Pages,          \* requests for the welcome message
    MaxPosted

ASSUME BulletinAssumption == "live" \notin Pages

VARIABLES
    setting,        \* channel.server_status and channel.welcome, by topic
    pointer,        \* state.status_message and state.welcome_message: [channel, id]
    sent,           \* the bot's messages, by id: [topic, channel, gone, shows]
    bot,            \* the process: [up, next, prev]
    job,            \* what RunStatus and each request are doing
    news            \* the posts: [component, is, seen]

bulletinVars == <<setting, pointer, sent, bot, job, news>>

Topics == {"status", "welcome"}
Live == "live"
Jobs == {Live} \cup Pages
NoJob == [at |-> "idle"]
Nothing == [channel |-> NoChannel, id |-> 0]
\* Of a job that could not read where the message is: it takes it that there is none.
Unread == [channel |-> NoChannel, id |-> 1]

\* What a pass knew: nothing, at the start of the process.
NoPrev == [c \in {} |-> "up"]

\* The bot is a tick behind the website, until one of them is started again.
BulletinInit ==
    /\ \E c \in Channels : setting = [t \in Topics |-> c]
    /\ pointer = [t \in Topics |-> Nothing] /\ sent = <<>>
    /\ bot = [up |-> TRUE, next |-> 1, prev |-> NoPrev, saw |-> FALSE]
    /\ job = [j \in Jobs |-> NoJob] /\ news = <<>>

With(record, more) ==
    [k \in DOMAIN record \cup DOMAIN more |-> IF k \in DOMAIN more THEN more[k] ELSE record[k]]

Does(j, next) == job' = [job EXCEPT ![j] = next]
Topic(j) == IF j = Live THEN "status" ELSE "welcome"

\* How a job ends: a pass goes on to compare, a request answers.
Leaves(j) ==
    IF j = Live THEN [job[j] EXCEPT !.at = "compare", !.left = Components] ELSE NoJob

-------------------------------------------------------------------------------
\* The settings' page: a channel is chosen among those there are, or none.
Save(t, c) ==
    /\ database /\ setting[t] # c /\ Trouble
    /\ setting' = [setting EXCEPT ![t] = c]
    /\ UNCHANGED <<now, checks, website, database, well, pointer, sent, bot, job, news>>

\* Somebody deletes a message of the bot's; or it is another bot's since the token changed.
DeleteMessage(i) ==
    /\ ~sent[i].gone /\ Trouble
    /\ sent' = [sent EXCEPT ![i].gone = TRUE]
    /\ UNCHANGED <<now, checks, website, database, well, setting, pointer, bot, job, news>>

-------------------------------------------------------------------------------
\* A pass of RunStatus, once in an interval; PostWelcome.

\* Snapshot; without one the pass is over.  Components that are up or down are known.
ReadStatus ==
    /\ bot.up /\ job[Live] = NoJob /\ bot.next = now
    /\ bot' = [bot EXCEPT !.next = now + Interval]
    /\ IF database
       THEN Does(Live, [at |-> "channel", seen |-> Len(checks), headline |-> Headline,
                        states |-> [c \in {k \in Keys : StateOf(k) \in {"up", "down"}} |-> StateOf(c)]])
       ELSE UNCHANGED job
    /\ UNCHANGED <<monitorVars, setting, pointer, sent, news>>

\* DiscordPostWelcome, of an administrator.
PostWelcome(j) ==
    /\ website.up /\ job[j] = NoJob
    /\ Does(j, [at |-> "channel"])
    /\ UNCHANGED <<monitorVars, setting, pointer, sent, bot, news>>

\* Settings.Get: a channel that is not set, or cannot be read, is none.
ReadChannel(j) ==
    /\ job[j].at = "channel"
    /\ LET c == IF database THEN setting[Topic(j)] ELSE NoChannel
           read == With(job[j], [channel |-> c, at |-> "pointer", left |-> Components])
       IN Does(j, IF c # NoChannel THEN read
                  ELSE IF j = Live THEN [read EXCEPT !.at = "compare"] ELSE NoJob)
    /\ UNCHANGED <<monitorVars, setting, pointer, sent, bot, news>>

\* Settings.state: a read that fails finds nothing.
ReadPointer(j) ==
    /\ job[j].at = "pointer"
    /\ LET old == IF database THEN pointer[Topic(j)] ELSE Unread IN
       Does(j, With(job[j], [old |-> old, at |-> IF old.channel = job[j].channel THEN "edit" ELSE "send"]))
    /\ UNCHANGED <<monitorVars, setting, pointer, sent, bot, news>>

Shows(j) == IF j = Live THEN job[j].headline ELSE "welcome"

\* Only a message that is gone, or not ours, is posted anew; anything else is tried again
\* the next time.
EditMessage(j) ==
    /\ job[j].at = "edit"
    /\ LET i == job[j].old.id IN
       \/ /\ ~sent[i].gone
          /\ sent' = [sent EXCEPT ![i].shows = Shows(j)] /\ Does(j, Leaves(j)) /\ UNCHANGED troubles
       \/ sent[i].gone /\ Does(j, [job[j] EXCEPT !.at = "send"]) /\ UNCHANGED <<sent, troubles>>
       \/ Trouble /\ Does(j, Leaves(j)) /\ UNCHANGED sent
    /\ UNCHANGED <<now, checks, website, database, well, setting, pointer, bot, news>>

\* It is there, or Discord refuses it, or it is there and the answer is lost.
SendMessage(j) ==
    /\ job[j].at = "send"
    /\ LET there == Len(sent) < MaxPosted /\ sent' = Append(sent, [topic |-> Topic(j), channel |-> job[j].channel,
                                          gone |-> FALSE, shows |-> Shows(j)])
       IN \/ /\ there /\ UNCHANGED troubles
             /\ Does(j, [job[j] EXCEPT !.at = "save", !.old = [channel |-> job[j].channel, id |-> Len(sent) + 1]])
          \/ there /\ Trouble /\ Does(j, Leaves(j))
          \/ UNCHANGED <<sent, troubles>> /\ Does(j, Leaves(j))
    /\ UNCHANGED <<now, checks, website, database, well, setting, pointer, bot, news>>

\* setState.
SavePointer(j) ==
    /\ job[j].at = "save"
    /\ pointer' = IF database THEN [pointer EXCEPT ![Topic(j)] = job[j].old] ELSE pointer
    /\ Does(j, Leaves(j))
    /\ UNCHANGED <<monitorVars, setting, sent, bot, news>>

-------------------------------------------------------------------------------
\* Posts

\* Mutant: a component of which nothing is known counts as down.
HasChangedUnknown(c) ==
    LET is == IF c \in DOMAIN job[Live].states THEN job[Live].states[c] ELSE "down" IN
    bot.saw /\ job[Live].channel # NoChannel /\ c \in DOMAIN bot.prev /\ bot.prev[c] # is

\* A component that this pass and the one before know, and know otherwise.
HasChanged(c) ==
    /\ bot.saw /\ job[Live].channel # NoChannel
    /\ c \in DOMAIN bot.prev \cap DOMAIN job[Live].states
    /\ bot.prev[c] # job[Live].states[c]

Post(c) ==
    [component |-> c, seen |-> job[Live].seen,
     is |-> IF c \in DOMAIN job[Live].states THEN job[Live].states[c] ELSE "down"]

\* EnqueueNow, of each; one that fails is not tried again.
Compare ==
    /\ job[Live].at = "compare" /\ job[Live].left # <<>>
    /\ LET c == Head(job[Live].left) IN
       news' = IF HasChanged(c) /\ database THEN Append(news, Post(c)) ELSE news
    /\ Does(Live, [job[Live] EXCEPT !.left = Tail(@)])
    /\ UNCHANGED <<monitorVars, setting, pointer, sent, bot>>

PassOver ==
    /\ job[Live].at = "compare" /\ job[Live].left = <<>>
    /\ bot' = [bot EXCEPT !.prev = job[Live].states, !.saw = TRUE]
    /\ Does(Live, NoJob)
    /\ UNCHANGED <<monitorVars, setting, pointer, sent, news>>

-------------------------------------------------------------------------------
\* The bot's process ends, and forgets what it saw; the website's, and its requests.
BotDown ==
    /\ bot.up /\ Trouble
    /\ bot' = [bot EXCEPT !.up = FALSE, !.prev = NoPrev, !.saw = FALSE]
    /\ well' = well \ {BotKey} /\ Does(Live, NoJob)
    /\ UNCHANGED <<now, checks, website, database, setting, pointer, sent, news>>

BotUp ==
    /\ ~bot.up
    /\ bot' = [bot EXCEPT !.up = TRUE, !.next = now]
    /\ well' = well \cup ({BotKey} \cap Keys)
    /\ UNCHANGED <<now, checks, website, database, troubles, setting, pointer, sent, job, news>>

WebsiteStopsHere ==
    /\ WebsiteDown
    /\ job' = [j \in Jobs |-> IF j = Live THEN job[j] ELSE NoJob]
    /\ UNCHANGED <<setting, pointer, sent, bot, news>>

Tick ==
    /\ OnTime
    /\ bot.up => job[Live] = NoJob /\ bot.next > now
    /\ now' = now + 1
    /\ UNCHANGED <<checks, website, database, well, troubles, bulletinVars>>

Keep(j) == ReadChannel(j) \/ ReadPointer(j) \/ EditMessage(j) \/ SendMessage(j) \/ SavePointer(j)

Settle(t) ==
    \/ \E c \in Channels \cup {NoChannel} : Save(t, c)
    \/ \E i \in DOMAIN sent : DeleteMessage(i)
    \/ DatabaseChanges /\ UNCHANGED bulletinVars
    \/ WebsiteStopsHere
    \/ WebsiteUp /\ UNCHANGED bulletinVars

\* The monitor and the bot, as time goes by.
StatusNext ==
    \/ Tick \/ Settle("status")
    \/ (StartPass \/ RecordCheck \/ \E c \in Keys : HealthChanges(c)) /\ UNCHANGED bulletinVars
    \/ ReadStatus \/ Keep(Live) \/ Compare \/ PassOver \/ BotDown \/ BotUp

\* Requests for the welcome message, at any one time.
WelcomeNext == Settle("welcome") \/ \E j \in Pages : PostWelcome(j) \/ Keep(j)

-------------------------------------------------------------------------------
\* What was known of a component after some of the checks.
Known(c, n) == {i \in 1..n : checks[i].component = c}

\* A post is true: that a component is back up is only told when it was recorded down and
\* then up, and that it is down the other way round, whatever was not recorded in between
\* ("a separate post when a component goes down or comes back", status_live.go:17).
PostsAreTrue ==
    \A i \in DOMAIN news :
        LET k == Known(news[i].component, news[i].seen) IN
        /\ k # {} /\ checks[Max(k)].ok = (news[i].is = "up")
        /\ \E j \in k : checks[j].ok # (news[i].is = "up")

Alive(t) == pointer[t].id # 0 /\ ~sent[pointer[t].id].gone

\* "so they're edited in place rather than reposted" (settings.go:39): not so when where
\* the message is cannot be read, nor when two requests post the welcome message.
NeverReposted ==
    [][\A i \in DOMAIN sent' \ DOMAIN sent :
         ~(Alive(sent'[i].topic) /\ pointer[sent'[i].topic].channel = sent'[i].channel)]_<<sent, pointer>>

\* What was last told of a component is how the bot has seen it since ("a separate post
\* when a component goes down or comes back", status_live.go:17): not so when what lies
\* between was not recorded, when the bot was started in between, or when the post could
\* not be queued.
LastTold(c) == SelectSeq(news, LAMBDA n : n.component = c)
ChangesTold ==
    (bot.saw /\ job[Live] = NoJob) =>
        \A c \in DOMAIN bot.prev : LastTold(c) # <<>> => Last(LastTold(c)).is = bot.prev[c]

===============================================================================
