---------------------------- MODULE MCDirectory ----------------------------
(* Two publishers, of one service or of two of which one name begins the other. *)
EXTENDS Directory, TLC

CONSTANTS p1, p2, s1, a1, a2, LocalPort

TwoOffers ==
  {(p1 :> "NEWS" @@ p2 :> "NEWS"), (p1 :> "NEWS" @@ p2 :> "NEWSFLASH")}
\* Two hosts and one port; the subscriber runs on the first host.
SamePort == (a1 :> LocalPort @@ a2 :> LocalPort)
OnFirstHost == {<<s1, a1>>}

NewsBeginsNewsflash == {<<"NEWS", "NEWSFLASH">>}
=============================================================================
