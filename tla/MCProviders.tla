---------------------------- MODULE MCProviders ----------------------------
(* A small instance of Providers: a conversation with a system text in the *)
(* middle, and one with a stream flag.                                     *)
EXTENDS Providers

MCRequests ==
    LET message(role, text) == [role |-> role, content |-> <<text>>]
    IN  {[messages |-> <<message("system", "s"), message("user", "u"),
                         message("assistant", "a"), message("system", "t"), message("user", "v")>>,
          stream |-> FALSE],
         [messages |-> <<message("user", "u")>>, stream |-> TRUE]}

=============================================================================
