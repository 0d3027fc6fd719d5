----------------------------- MODULE MCResearch -----------------------------
(***************************************************************************)
(* Small instances of the studies: one archive of phase 3A and two that    *)
(* phase 3C acquires, four hypotheses (about funding, news, liquidity and  *)
(* the share of the creator), nine tokens and samples of six.              *)
(*                                                                         *)
(* A world says which tokens an archive polls and what becomes of each.    *)
(***************************************************************************)
EXTENDS Research

\* When an archive starts; it assesses its tokens ten, twenty ... later.
StartOf == ("A" :> 0) @@ ("N1" :> 100) @@ ("N2" :> 200)

Exchange(endpoint, token, sent, came, answer) ==
    [endpoint |-> endpoint, token |-> token, wallet |-> token, signature |-> None, purpose |-> None,
     sent |-> sent, came |-> came, answer |-> answer]

Articles(items) == [form |-> "items", items |-> items]
Article(time) == [url |-> "story", time |-> time]
Share(token, pct) == [form |-> "info", about |-> token, developer |-> "dev", pct |-> pct, holders |-> None]
Transfer(token, time) ==
    [form |-> "tx", signature |-> "sig", time |-> time, failed |-> FALSE, vaults |-> None,
     transfers |-> <<[formed |-> TRUE, sides |-> {token}]>>]

\* What the chain says of a token: the pool that was found with it, a
\* transaction of its creator and one of its pool.
Vaults(base, quote) == [created |-> FALSE, base |-> base, quote |-> quote]
OnChain(e, purpose) == [e EXCEPT !.purpose = purpose, !.signature = "sig"]
Traced(token, s) ==
    <<[Exchange("pools", token, s, s + 1, [pools |-> {[pool |-> "pool", base |-> token, created |-> s],
                                                      [pool |-> "later", base |-> token, created |-> s + 50]}])
            EXCEPT !.token = None],
      OnChain(Exchange("transaction", token, s + 4, s + 5, Transfer(token, s + 3)), "funding"),
      OnChain(Exchange("transaction", token, s + 14, s + 15,
                       [Transfer(token, s + 3) EXCEPT !.vaults = Vaults(2, 3)]), "liquidity")>>
Quiet(token, s) ==
    <<OnChain(Exchange("transaction", token, s + 4, s + 5, [form |-> "null"]), "funding"),
      OnChain(Exchange("transaction", token, s + 4, s + 5,
                       [Transfer(token, s + 3) EXCEPT !.vaults = Vaults(2, -3)]), "liquidity")>>
Broken(token, s) ==
    <<OnChain(Exchange("signatures", token, s + 4, None, None), "funding"),
      OnChain(Exchange("transaction", token, s + 4, s + 5, [Transfer(token, s) EXCEPT !.signature = "other"]), "liquidity")>>

\* The exchanges about a token, s after the start of the archive.
News(story, token, s) ==
    CASE story = "told"    -> <<Exchange("gdelt", token, s + 4, s + 5, Articles({Article(s + 3)}))>>
      [] story = "nothing" -> <<Exchange("gdelt", token, s + 4, s + 5, Articles({}))>>
      [] story = "late"    -> <<Exchange("gdelt", token, s + 4, s + 5, Articles({})),
                                Exchange("gdelt", token, s + 14, s + 15, Articles({Article(s + 3)}))>>
      [] story = "failed"  -> <<Exchange("gdelt", token, s + 4, None, None)>>
      [] story = "garbled" -> <<Exchange("gdelt", token, s + 4, s + 5, [form |-> "other"])>>
      [] story = "dropped" -> <<Exchange("gdelt", token, s + 4, s + 5, Articles({[url |-> None, time |-> s]}))>>
      [] story = "ahead"   -> <<Exchange("gdelt", token, s + 4, s + 5, Articles({Article(s + 50)}))>>
      [] story = "refused" -> <<Exchange("transaction", token, s + 4, s + 5, Transfer(token, s + 50))>>
      [] story = "unasked" -> <<>>
      [] story = "traced"  -> Traced(token, s)
      [] story = "quiet"   -> Quiet(token, s)
      [] story = "broken"  -> Broken(token, s)

Shares(pct, token, s) ==
    IF ~Has(pct) THEN <<>>
    ELSE <<Exchange("token_info", token, s + 1, s + 2, Share(token, 50 - pct)),
           Exchange("token_info", token, s + 6, s + 7, Share(token, pct)),
           Exchange("token_info", token, s + 16, s + 17, Share("another", pct))>>

\* token, its news, the creator's share, and what it is after each assessment.
Polled(token, story, pct, moves) == [token |-> token, story |-> story, pct |-> pct, moves |-> moves]

Move(m) == IF m = 0 THEN [class |-> "UNCLASSIFIED", direction |-> 0] ELSE [class |-> "MOVE", direction |-> m]

Archive(a, polled) ==
    LET s == StartOf[a]
        steps(p) == [i \in DOMAIN p.moves |-> [asOf |-> s + 10 * i] @@ Move(p.moves[i])]
    IN  [started |-> s,
         universe |-> {polled[i].token : i \in DOMAIN polled},
         entries |-> FlattenSeq([i \in DOMAIN polled |->
                        News(polled[i].story, polled[i].token, s) \o Shares(polled[i].pct, polled[i].token, s)]) \o <<>>,
         journal |-> <<>> @@ [t \in {polled[i].token : i \in DOMAIN polled} |->
                        steps(polled[CHOOSE i \in DOMAIN polled : polled[i].token = t]) \o <<>>]]

World(a, n1, n2) == [A |-> Archive("A", a), N1 |-> Archive("N1", n1), N2 |-> Archive("N2", n2)]

\* Tokens whose news go with their moves, and tokens where they do not.
With(t1, t2, t3, pct) ==
    <<Polled(t1, "told", pct, <<0, 1>>), Polled(t2, "nothing", pct, <<0, 0>>), Polled(t3, "ahead", None, <<0, 1>>)>>
Against(t1, t2, t3) ==
    <<Polled(t1, "told", None, <<0, 0>>), Polled(t2, "nothing", None, <<0, 1>>), Polled(t3, "failed", None, <<0, 1>>)>>

MCContents == <<
    \* every archive has it, on tokens of its own; few tokens tell the share
    World(<<Polled("t1", "told", 9, <<0, 1>>), Polled("t2", "nothing", 2, <<0, 0>>), Polled("t3", "told", 5, <<0, -1>>)>>,
          With("t4", "t5", "t6", None), With("t7", "t8", "t9", None)),
    \* the last archive polls the tokens of the first again
    World(With("t1", "t2", "t3", 3), With("t4", "t5", "t6", None), With("t1", "t2", "t3", 7)),
    \* six tokens in the first archive, each assessed more than once
    World(<<Polled("t1", "told", 9, <<0, 1, 1>>), Polled("t2", "nothing", 1, <<0, 0, 0>>), Polled("t3", "late", 3, <<0, 0, 1>>),
            Polled("t4", "told", 8, <<0, -1, 1>>), Polled("t5", "failed", 2, <<0, 0, 0>>), Polled("t6", "told", 7, <<0, 1, 1>>)>>,
          Against("t7", "t8", "t9"), <<>>),
    \* little is known: late, dropped and garbled answers, one the contract refuses
    World(<<Polled("t1", "late", 4, <<0, 1>>), Polled("t2", "dropped", 6, <<0, 0>>), Polled("t3", "garbled", None, <<0, 1>>)>>,
          <<Polled("t4", "unasked", None, <<0, 1>>), Polled("t7", "refused", None, <<0, 1>>)>>,
          <<Polled("t4", "late", 4, <<0, 1>>), Polled("t5", "late", 2, <<0, 1>>), Polled("t6", "told", 6, <<0, 1, 0>>)>>),
    \* what the chain says
    World(<<Polled("t1", "traced", None, <<0, 1>>), Polled("t2", "quiet", None, <<0, 0>>), Polled("t3", "broken", None, <<0, 1>>)>>,
          <<Polled("t4", "traced", None, <<0, 1>>), Polled("t5", "traced", None, <<0, 1>>), Polled("t6", "quiet", None, <<0, 0>>)>>,
          <<>>)>>

MCFeature ==
    ("H1" :> "funding_transfer") @@ ("H8" :> "news") @@ ("H9" :> "liquidity_event") @@ ("H10" :> "creator_state")
MCHypothesisIds == <<"H1", "H8", "H9", "H10">>
MCArchiveOrder == <<"A", "N1", "N2">>
MCTokenOrder == <<"t1", "t2", "t3", "t4", "t5", "t6", "t7", "t8", "t9">>
=============================================================================
