---------------------------- MODULE MCPlatforms ----------------------------
(***************************************************************************)
(* macOS: every sink, a child within and beyond its memory limit, none, as *)
(* many denials as the pipe of `log show` holds, and more; a PTY, alone    *)
(* and with a redirection.  Windows: two sandboxes that share a path, one  *)
(* with a path in both of its lists, two of one name, and a directory and  *)
(* a path below it, of one sandbox in either order and of two.             *)
(***************************************************************************)
EXTENDS Platforms, TLC

CONSTANTS w1, w2

MacBase ==
    [sink |-> "none", limit |-> FALSE, network |-> FALSE, tty |-> FALSE,
     redirect |-> FALSE, denials |-> 0, hungry |-> FALSE, use |-> "wait"]
MCMacConfigs ==
    {[MacBase EXCEPT !.limit = TRUE, !.hungry = h, !.use = u]
        : h \in BOOLEAN, u \in {"wait", "drop"}}
    \cup {[MacBase EXCEPT !.sink = k, !.denials = d, !.tty = TRUE]
        : k \in {"optional", "mandatory"}, d \in {0, LogPipe, LogPipe + 1}}
    \cup {[MacBase EXCEPT !.sink = "mandatory", !.network = TRUE, !.use = "drop"],
          [MacBase EXCEPT !.tty = TRUE, !.redirect = TRUE]}

Win(name, reads, writes, use) == [name |-> name, reads |-> reads, writes |-> writes, use |-> use]
MCWinConfigs ==
    {(w1 :> Win("a", <<"p">>, <<>>, "wait")) @@ (w2 :> Win("b", <<>>, <<"p">>, "drop")),
     (w1 :> Win("a", <<"p">>, <<"p">>, "wait")) @@ (w2 :> Win("b", <<"q">>, <<>>, "wait")),
     (w1 :> Win("a", <<>>, <<"p">>, "drop")) @@ (w2 :> Win("a", <<"q">>, <<>>, "wait")),
     (w1 :> Win("a", <<"p">>, <<"d">>, "wait")) @@ (w2 :> Win("b", <<"q">>, <<>>, "wait")),
     (w1 :> Win("a", <<"d">>, <<"p">>, "wait")) @@ (w2 :> Win("b", <<"q">>, <<>>, "wait")),
     (w1 :> Win("a", <<"d">>, <<>>, "wait")) @@ (w2 :> Win("b", <<>>, <<"p">>, "drop"))}
MCTree == {<<"d", "p">>}
=============================================================================
