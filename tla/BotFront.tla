------------------------------- MODULE BotFront -------------------------------
(***************************************************************************)
(* The bot from its start to its answers: main() opens the connection      *)
(* pool, migrates the schema, seeds the settings, builds the authority and *)
(* serves updates.  It may be killed and started again at any point, and   *)
(* `cmlb --migrate-only' may run beside it.                                *)
(***************************************************************************)
EXTENDS Dispatcher, SchemaMigrator

CONSTANTS Bot,  \* the bot as a process that migrates
          Cli   \* cmlb --migrate-only

ASSUME FrontAssumption ==
    /\ Clients = Handlers \union {Main} /\ Main \notin Handlers
    /\ Migrators = {Bot, Cli} /\ Bot # Cli

VARIABLES
    stage,    \* where main() is
    unseeded  \* whether this start failed to seed the settings

vars == <<poolVars, migrateVars, settingsVars, dispatchVars, stage, unseeded>>

TypeOK ==
    /\ PoolTypes
    /\ MigrateTypes
    /\ SettingsTypes
    /\ DispatchTypes
    /\ stage \in {"down", "migrating", "seeding", "authority", "serving"}
    /\ unseeded \in BOOLEAN

Init ==
    /\ free = [i \in Slots |-> i] /\ queue = <<>> /\ held = [c \in Clients |-> 0]
    /\ MigrateInit
    /\ SettingsInit
    /\ auth = DefaultBot
    /\ job = [h \in Handlers |-> NoUpdate]
    /\ at = [h \in Handlers |-> "idle"]
    /\ answers = [h \in Handlers |-> 0]
    /\ ran = {}
    /\ result = [h \in Handlers |-> "ok"]
    /\ stage = "down"
    /\ unseeded = FALSE

-----------------------------------------------------------------------------
(***************************************************************************)
(* Start and end of the bot.                                               *)
(***************************************************************************)

\* All that a process has in memory is as new.
Fresh ==
    /\ PoolOpens
    /\ NoHandlers
    /\ call' = [c \in Clients |-> NoCall]
    /\ stale' = {}
    /\ auth' = DefaultBot
    /\ unseeded' = FALSE
    /\ UNCHANGED <<user, bot, want>>

\* The pool is opened.
Start ==
    /\ stage = "down"
    /\ stage' = "migrating"
    /\ mp' = [mp EXCEPT ![Bot] = "start"]
    /\ Fresh
    /\ UNCHANGED <<rows, schema, writer, dirty, next>>

\* main() returns, its process gone with all it had in memory.
Exit ==
    /\ stage' = "down"
    /\ MigratorDies(Bot)
    /\ Fresh

Killed == stage # "down" /\ Exit

\* migrate() on a connection of the pool.
MigrateBorrows ==
    /\ stage = "migrating"
    /\ Acquire(Main)
    /\ UNCHANGED <<migrateVars, settingsVars, dispatchVars, stage, unseeded>>

BotMigrates ==
    /\ stage = "migrating" /\ held[Main] # 0
    /\ MigrateStep(Bot)
    /\ UNCHANGED <<poolVars, settingsVars, dispatchVars, stage, unseeded>>

MigrateEnds ==
    /\ stage = "migrating"
    /\ \/ /\ mp[Bot] = "ok"
          /\ Release(Main)
          /\ stage' = "seeding"
          /\ \E config \in Configs : StartSeed(Main, config)
          /\ UNCHANGED <<migrateVars, user, bot, want, stale, dispatchVars, unseeded>>
       \/ mp[Bot] = "failed" /\ Exit

\* The settings are seeded if they have no owner; that this failed is not looked
\* at.
SeedEnds ==
    /\ stage = "seeding"
    /\ ~Calling(Main)
    /\ stage' = "authority"
    /\ unseeded' = (call[Main].at = "error")
    /\ StartCall(Main, "authority")
    /\ UNCHANGED <<poolVars, migrateVars, user, bot, want, stale, dispatchVars>>

\* An authority built from whatever could be loaded.
AuthorityEndsAnyway ==
    /\ stage = "authority" /\ ~Calling(Main)
    /\ auth' = IF call[Main].at = "ok" THEN call[Main].rec ELSE DefaultBot
    /\ stage' = "serving"
    /\ Taken(Main)
    /\ UNCHANGED <<poolVars, migrateVars, user, bot, want, stale,
                   job, at, answers, ran, result, unseeded>>

\* build_authority(); then the handlers are wired and the bot serves.
AuthorityEnds ==
    /\ stage = "authority"
    /\ \/ /\ call[Main].at = "ok"
          /\ auth' = call[Main].rec
          /\ stage' = "serving"
          /\ Taken(Main)
          /\ UNCHANGED <<poolVars, migrateVars, user, bot, want, stale,
                         job, at, answers, ran, result, unseeded>>
       \/ call[Main].at = "error" /\ Exit

\* The calls of main() and of the handlers on the repositories.
RepositoryStep(c) ==
    /\ stage \in {"seeding", "authority", "serving"}
    /\ Borrow(c) \/ Load(c) \/ Save(c, writer # Nobody)
    /\ UNCHANGED <<migrateVars, dispatchVars, stage, unseeded>>

-----------------------------------------------------------------------------
\* TDLib delivers an update to a coroutine.  (Bound: not while the command line
\* tool runs, which finds nothing to do then.)
Update(h) ==
    /\ stage = "serving" /\ mp[Cli] = "down"
    /\ \E u \in Updates[h] : Chatter(h, u) \/ Refuse(h, u) \/ Accept(h, u) \/ Tap(h, u)
    /\ UNCHANGED <<migrateVars, stage, unseeded>>

Handle(h) ==
    /\ HandlerStep(h)
    /\ UNCHANGED <<migrateVars, stage, unseeded>>

\* Somebody runs cmlb --migrate-only, which ends or is killed.  (Bound: not while
\* the bot serves.)
CliStarts ==
    /\ mp[Cli] = "down" /\ stage # "serving"
    /\ mp' = [mp EXCEPT ![Cli] = "start"]
    /\ UNCHANGED <<rows, schema, writer, dirty, next, poolVars, settingsVars, dispatchVars,
                   stage, unseeded>>

CliStep ==
    /\ MigrateStep(Cli)
    /\ UNCHANGED <<poolVars, settingsVars, dispatchVars, stage, unseeded>>

CliEnds ==
    /\ mp[Cli] # "down"
    /\ MigratorDies(Cli)
    /\ UNCHANGED <<poolVars, settingsVars, dispatchVars, stage, unseeded>>

Next ==
    \/ Start \/ Killed
    \/ MigrateBorrows \/ BotMigrates \/ MigrateEnds
    \/ SeedEnds \/ AuthorityEnds
    \/ \E c \in Clients : RepositoryStep(c)
    \/ \E h \in Handlers : Update(h) \/ Handle(h)
    \/ CliStarts \/ CliStep \/ CliEnds

\* A repository call and a step of a handler are not put off for ever: the
\* executor runs them, SQLite answers or gives up, and so does Telegram.  A use case
\* need not end: one that mirrors takes as long as its download and its uploads.
Fairness ==
    /\ \A c \in Clients : WF_vars(RepositoryStep(c))
    /\ \A h \in Handlers : WF_vars(at[h] # "run" /\ Handle(h))

Spec == Init /\ [][Next]_vars /\ Fairness

-----------------------------------------------------------------------------
\* While the bot serves, its authority is what the database holds, and knows an
\* owner; unless this start could not seed the settings, which leaves the bot
\* with an owner nobody is.
OwnerKnown ==
    stage = "serving" =>
        /\ auth = OrDefault(bot, DefaultBot)
        /\ ~unseeded => auth \in Configs

\* The handler of an update ends, or the process is killed, however the connections
\* are shared and whatever other handlers are stuck in.  That supposes of the handler
\* itself that the use cases it runs come to an end.
UpdateHandled ==
    \A h \in Handlers :
        []<>(at[h] # "run") => (~Free(h) ~> Free(h) \/ stage = "down")
=============================================================================
