-------------------------------- MODULE MCOffice -------------------------------
(* Ann and Cat are staff with the support panel, Bob is a player. *)
EXTENDS Office

CONSTANTS ann, bob, cat, lo, moe, ned, g, w1, w2, ch1, ch2

\* Requests differ in nothing but their name.
Alike == Permutations({w1, w2}) \cup Permutations(Channels)

\* Bounds: the priority and the category of a ticket, which nothing depends on, are changed
\* before anybody answers; the standing of a reader and what
\* they were shown before the first save; one card is saved with other labels.
\* The status is watched for five intervals.
Few ==
    /\ \A t \in DOMAIN tickets :
          tickets[t].urgent \/ tickets[t].sub # 0 => Len(messages) = 1 /\ desk = [c \in Clerks |-> AtRest]
    /\ standing # FirstStanding \/ opened # {} => \A i \in DOMAIN copies : copies[i] = <<>>
    /\ offered = "labels" => moves <= 1
    /\ now < MaxTime

FirstStaffValue == (ann :> "active") @@ (bob :> "none") @@ (cat :> "active")
ParentValue == (1 :> 0) @@ (2 :> 1)

\* Two texts that differ in one rule, one that numbers its rules otherwise, one that is
\* refused, and one with a line that goes on.
L(is, num, word) == Line(is, num, <<word>>)
TextFormsValue ==
    { <<L("head", <<>>, "t"), L("rule", <<1, 1>>, "a")>>,
      <<L("head", <<>>, "t"), L("rule", <<1, 1>>, "b"), L("rule", <<1, 2>>, "a"), L("point", <<>>, "p"), L("more", <<>>, "q")>>,
      <<L("head", <<>>, "t"), L("rule", <<1, 1>>, "a"), L("rule", <<1, 1>>, "b")>> }

R(word, points) == [text |-> <<word>>, points |-> points]
P(words, sub) == [text |-> words, sub |-> sub]
SectionFormsValue ==
    { [intro |-> << <<"i">>, <<>> >>,
       sections |-> << [title |-> <<"t">>, intro |-> <<"i">>, rules |-> <<R("a", <<P(<<"p">>, << <<"q">>, <<>> >>), P(<<>>, << >>)>>)>>,
                        subs |-> << [title |-> <<"u">>, intro |-> <<>>, rules |-> <<R("b", << >>), R("a", << >>)>>] >>] >>],
      [intro |-> << >>,
       sections |-> << [title |-> <<"t">>, intro |-> <<>>, rules |-> << >>, subs |-> << >>] >>] }

Member == [member |-> TRUE, ok |-> FALSE, commands |-> FALSE, audit |-> FALSE, configure |-> FALSE, in |-> {"d"}, leads |-> {}]
Leader == [Member EXCEPT !.ok = TRUE, !.leads = {"d"}]
Editor == [Member EXCEPT !.member = FALSE, !.configure = TRUE]
StandingsValue == {Leader, Editor}
FormsValue == {[dept |-> "wide", vis |-> "members"], [dept |-> "d", vis |-> "command"]}
FirstStandingValue == bob :> Editor

LowerValue == ("Core" :> "core") @@ ("core" :> "core") @@ ("Police" :> "police")

LeadersValue == ("reds" :> lo) @@ ("blues" :> moe)
NamesValue == (lo :> "lo") @@ (ann :> "lo") @@ (moe :> "moe") @@ (ned :> "ned")
ComponentsValue == <<"game", "website">>

===============================================================================
