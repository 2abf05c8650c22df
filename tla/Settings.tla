------------------------------- MODULE Settings -------------------------------
(***************************************************************************)
(* The settings of a user and of the bot: their repositories, which borrow *)
(* a connection for each call, and the use cases that load a record, change*)
(* it and save it, with another connection and nothing held in between.    *)
(***************************************************************************)
EXTENDS ConnectionPool

CONSTANTS Main,    \* main(), which seeds the settings of the bot and reads them
          Configs  \* owner, sudo users and chats of the configuration file, which
                   \* may be edited between two starts

None == [none |-> TRUE]

ASSUME ConfigAssumption == \A c \in Configs : c # None /\ c.owner # "none"

VARIABLES
    user,     \* the row of user_settings of the one user there is, and
    bot,      \* the row of bot_settings; None without one
    call,     \* what a coroutine asks of the settings and how far that is
    want,     \* the changes of the user that were saved, applied one by one
    stale     \* those whose record was saved by another since they loaded it

settingsVars == <<user, bot, call, want, stale>>

NoCall == [what |-> "nothing", at |-> "idle", rec |-> None]

\* UserSettingsRecord, as far as the buttons change it, and BotSettingsRecord.
Destinations == {"telegram", "gdrive", "rclone"}
DefaultUser == [destination |-> "gdrive", document |-> FALSE]
DefaultBot == [owner |-> "none", sudo |-> {}, chats |-> {}]
UserRecords == [destination : Destinations, document : BOOLEAN]
BotRecords == Configs \union {DefaultBot}

Whats == {"nothing", "view", "cycle", "toggle", "botview", "seed", "authority", "query"}
OfUser == {"view", "cycle", "toggle"}

SettingsTypes ==
    /\ user \in UserRecords \union {None}
    /\ bot \in BotRecords \union {None}
    /\ call \in [Clients -> [what : Whats,
                             at : {"idle", "load", "save", "ok", "error"},
                             rec : UserRecords \union BotRecords \union {None}]]
    /\ want \in UserRecords \union {None}
    /\ stale \subseteq Clients

SettingsInit ==
    /\ user = None
    /\ bot = None
    /\ call = [c \in Clients |-> NoCall]
    /\ want = None
    /\ stale = {}

-----------------------------------------------------------------------------
\* next_destination().
NextDestination(d) ==
    CASE d = "telegram" -> "gdrive"
      [] d = "gdrive" -> "rclone"
      [] d = "rclone" -> "telegram"

\* The mutators that the dispatchers pass.
Mutate(what, rec) ==
    CASE what = "cycle" -> [rec EXCEPT !.destination = NextDestination(@)]
      [] what = "toggle" -> [rec EXCEPT !.document = ~@]
      [] OTHER -> rec

OrDefault(row, default) == IF row = None THEN default ELSE row

\* The record a call is about, as loaded.
Stored(what) ==
    IF what \in OfUser THEN OrDefault(user, DefaultUser) ELSE OrDefault(bot, DefaultBot)

\* execute(), load() or a query of another repository is called.
StartCall(c, what) ==
    call' = [call EXCEPT ![c] = [what |-> what, at |-> "load", rec |-> None]]

\* main() seeds the settings with those of the configuration.
StartSeed(c, config) ==
    call' = [call EXCEPT ![c] = [what |-> "seed", at |-> "load", rec |-> config]]

Calling(c) == call[c].at \in {"load", "save"}

\* pool_.acquire() of the next repository call.
Borrow(c) ==
    /\ Calling(c)
    /\ Acquire(c)
    /\ UNCHANGED settingsVars

\* What is to be saved, or returned to the caller.
Changed(what, given, rec) ==
    CASE what = "seed" -> given
      [] what = "query" -> None
      [] OTHER -> Mutate(what, rec)

\* A call that ends when it has read: a query, the record of the authority, and
\* a seeding that finds an owner.
OnlyReads(what, rec) ==
    \/ what \in {"authority", "query"}
    \/ what = "seed" /\ rec.owner # "none"

\* A use case that takes a record it could not load for one that is not there.
LoadOrDefault(c) ==
    /\ call[c].at = "load"
    /\ Release(c)
    /\ \E rec \in {Stored(call[c].what), DefaultUser, DefaultBot} :
          /\ (call[c].what \in OfUser) = (rec \in UserRecords)
          /\ call' = [call EXCEPT ![c].rec = Changed(call[c].what, @, rec),
                                  ![c].at = IF OnlyReads(call[c].what, rec) THEN "ok" ELSE "save"]
    /\ stale' = stale \ {c}
    /\ UNCHANGED <<user, bot, want>>

\* get() or load(), and the change of what it returned.
Load(c) ==
    /\ call[c].at = "load"
    /\ Release(c)
    /\ LET what == call[c].what
           rec == Stored(what)
       IN  \/ call' = [call EXCEPT ![c].rec = Changed(what, @, rec),
                                   ![c].at = IF OnlyReads(what, rec) THEN "ok" ELSE "save"]
           \/ call' = [call EXCEPT ![c].at = "error"]
    /\ stale' = stale \ {c}
    /\ UNCHANGED <<user, bot, want>>

\* save() of the settings of a user.  What others have loaded is old by then.
StoreUser(c) ==
    /\ user' = call[c].rec
    /\ want' = IF c \in stale THEN call[c].rec
               ELSE Mutate(call[c].what, OrDefault(want, DefaultUser))
    /\ stale' = {d \in Clients : call[d].at = "save" /\ call[d].what \in OfUser} \ {c}
    /\ UNCHANGED bot

\* save() of the settings of the bot.
StoreBot(c) ==
    /\ bot' = call[c].rec
    /\ UNCHANGED <<user, want, stale>>

\* SQLite refuses to write while another process does for too long.
Save(c, locked) ==
    /\ call[c].at = "save"
    /\ Release(c)
    /\ \/ /\ ~locked
          /\ call' = [call EXCEPT ![c].at = "ok"]
          /\ IF call[c].what \in OfUser THEN StoreUser(c) ELSE StoreBot(c)
       \/ /\ call' = [call EXCEPT ![c].at = "error"]
          /\ stale' = stale \ {c}
          /\ UNCHANGED <<user, bot, want>>

\* The caller has the result.
Taken(c) == call' = [call EXCEPT ![c] = NoCall]

-----------------------------------------------------------------------------
\* UpdateUserSettings: the stored settings of a user are the changes that were
\* saved, one after the other, whatever failed or was killed in between.  Only a
\* save that another one overtook since its load may undo that one's change.
ChangesKept == user = want
=============================================================================
