---------------------------- MODULE MCBotLifecycle ----------------------------
(* Small bots: one or two processors, one or two io_context threads.         *)
EXTENDS BotLifecycle
===============================================================================
