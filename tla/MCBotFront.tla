----------------------------- MODULE MCBotFront -----------------------------
(***************************************************************************)
(* Two updates at a time that share one connection.                        *)
(***************************************************************************)
EXTENDS BotFront, TLC

CONSTANTS h1, h2, main, botp, cli

MCHandlers == {h1, h2}
MCClients == {h1, h2, main}
MCMigrators == {botp, cli}
MCConfigs == {[owner |-> "owner", sudo |-> {"sudo"}, chats |-> {"group"}],
              [owner |-> "owner", sudo |-> {}, chats |-> {"group"}]}

Message(name, arg, sender, chat) ==
    [kind |-> "message", name |-> name, arg |-> arg, sender |-> sender, chat |-> chat]
Button(name, arg) ==
    [kind |-> "query", name |-> name, arg |-> arg, sender |-> "member", chat |-> "group"]

\* What meets in the database.
Shared ==
    {Message("settings", "nothing", "member", "elsewhere")}

MCUpdates ==
    h1 :> (Shared \union
             {Message("botsettings", "nothing", "sudo", "elsewhere"),
              Button("toggle", "no message"),
              Message("chatter", "nothing", "member", "group"),
              Message("frobnicate", "nothing", "owner", "group"),
              Message("m", "url", "member", "group"),
              Message("m", "url", "member", "elsewhere"),
              Message("cancel", "nothing", "member", "group"),
              Message("ping", "nothing", "member", "group"),
              Message("status", "id", "member", "group"),
              Message("stats", "nothing", "member", "group"),
              Message("log", "nothing", "owner", "group"),
              Message("rss", "list", "member", "group"),
              Button("close", "message"),
              Button("task", "id")})
    @@ h2 :> (Shared \union {Button("cycle", "message")})
=============================================================================
