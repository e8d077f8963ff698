----------------------------- MODULE MCPlatform -----------------------------
(***************************************************************************)
(* The services that the rest of the program stands on, model-checked in   *)
(* one run.  They share no state, so the behaviours of each are those it   *)
(* has while the others rest: `moving` names the one that moves.           *)
(***************************************************************************)
EXTENDS UserAccess, TTLCache, GoogleAdsClient, EmailTransport, Budgets, Scorecards

VARIABLE moving

platformVars == <<moving, accessVars, cacheVars, clientVars, mailVars, budgetVars,
                  scorecardVars>>

\* The overview asks for 45 seconds, which is the default, ideas for longer.
Ttls == [k \in Keys |-> IF k = "ideas" THEN 3 ELSE 0]

\* Powers of two: no two sets of days cost the same, so a day in the wrong week shows.
DailySpend == [d \in 0..LastDay |-> 2 ^ d]

\* The name of one campus is a part of the name of the other.
Names == {<<c, c>> : c \in Campuses} \cup {<<"IMS Noida", "IMS">>}

Init ==
  /\ moving \in {"access", "cache", "client", "mail", "budgets", "scorecards"}
  /\ AccessInit /\ CacheInit /\ ClientInit /\ BudgetInit /\ ScorecardInit
  /\ MailInit /\ (moving # "mail" => settings = {})

ClientMoves ==
  /\ moving = "client" /\ ClientNext
  /\ UNCHANGED <<moving, accessVars, cacheVars, mailVars, budgetVars, scorecardVars>>

Next ==
  \/ ClientMoves
  \/ /\ moving = "access" /\ AccessNext
     /\ UNCHANGED <<moving, cacheVars, clientVars, mailVars, budgetVars, scorecardVars>>
  \/ /\ moving = "cache" /\ CacheNext
     /\ UNCHANGED <<moving, accessVars, clientVars, mailVars, budgetVars, scorecardVars>>
  \/ /\ moving = "mail" /\ MailNext
     /\ UNCHANGED <<moving, accessVars, cacheVars, clientVars, budgetVars, scorecardVars>>
  \/ /\ moving = "budgets" /\ BudgetNext
     /\ UNCHANGED <<moving, accessVars, cacheVars, clientVars, mailVars, scorecardVars>>
  \/ /\ moving = "scorecards" /\ ScorecardNext
     /\ UNCHANGED <<moving, accessVars, cacheVars, clientVars, mailVars, budgetVars>>

\* The thread that makes the call goes on, and the API answers or raises.
Spec == Init /\ [][Next]_platformVars /\ WF_platformVars(ClientMoves)
=============================================================================
