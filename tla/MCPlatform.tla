----------------------------- MODULE MCPlatform -----------------------------
(***************************************************************************)
(* Instances of Platform for TLC. Runs, requests and posts are the same    *)
(* three model values, browsers, tabs and windows the same two: each is    *)
(* only used by the part that a behaviour explores, so a permutation of    *)
(* them is a symmetry of every part. The texts of a supplier response are  *)
(* two others.                                                             *)
(***************************************************************************)
EXTENDS Platform, TLC

CONSTANTS p1, p2, p3, b1, b2, c1, c2, c3, sA, sB, m1, m2

Three == {p1, p2, p3}
Two == {b1, b2}
Messages == {m1, m2}
Cases == {c1, c2, c3}
OneSupplier == {sA}
TwoSuppliers == {sA, sB}

Symmetry == Permutations(Three) \cup Permutations(Two)

AllParts == {"memory", "quota", "access", "evidence", "pipeline", "response"}
EvidenceOnly == {"evidence"}
PipelineOnly == {"pipeline"}

-----------------------------------------------------------------------------
\* Category memory: a share that stays, that moves, that is high with a clause
\* that quotes a percentage, and none.
SteadyFacts ==
  [subject |-> sA, share |-> (sA :> 30), outgrows |-> {}, open |-> {},
   mechanism |-> FALSE, quotes |-> <<>>, disproved |-> FALSE, price |-> None,
   spend |-> None, specified |-> FALSE, drivers |-> FALSE]

FactsSeen ==
  {SteadyFacts,
   [SteadyFacts EXCEPT !.share = (sA :> 40)],
   [SteadyFacts EXCEPT !.share = (sA :> 60), !.mechanism = TRUE, !.quotes = <<6>>],
   [SteadyFacts EXCEPT !.share = (sA :> None), !.mechanism = TRUE]}

-----------------------------------------------------------------------------
\* Evidence: what the model and the patterns find in the first text.
N(n) == <<"number", n>>
X(n) == <<"text", n>>

FOB == X(1)
CIF == X(3)

Terms(inco) ==
  [incoterm |-> inco, region |-> Absent, currency |-> Absent, freight |-> Absent,
   otif |-> Absent, spend |-> Absent, prior |-> Absent]

\* The two sources differ, agree, and one has a number in words.
Disputed ==
  [type |-> "price_increase", mode |-> "supplier_request", vendors |-> <<>>,
   llm |-> ("incoterm" :> CIF @@ "requested_increase_percent" :> N(9) @@
            "suppliers_stated_justification" :> X(1) @@ "annual_spend_usd" :> X(7)),
   found |-> ("incoterm" :> FOB @@ "annual_spend_usd" :> N(50) @@
              "requested_increase_percent" :> N(9))]

\* The percentage is missing, and freight matters.
Unquantified ==
  [type |-> "price_increase", mode |-> "supplier_request", vendors |-> <<>>,
   llm |-> ("current_price_or_terms" :> N(4) @@
            "suppliers_stated_justification" :> X(1) @@
            "how_critical_is_this_supplier_relationship" :> X(1)),
   found |-> ("incoterm" :> FOB)]

\* Quotes on different terms, complete but for the price.
Quoted2 ==
  [type |-> "quote_comparison", mode |-> "supplier_request",
   vendors |-> (sA :> Terms(FOB) @@ sB :> Terms(CIF)),
   llm |-> [f \in RequiredOf["quote_comparison"] \ {"price_per_supplier"} |-> X(1)],
   found |-> ("incoterm" :> FOB)]

Strategic ==
  [type |-> "price_increase", mode |-> "category_strategy", vendors |-> <<>>,
   llm |-> <<>>, found |-> <<>>]

Problem ==
  [type |-> "problem_solving", mode |-> "supplier_request", vendors |-> <<>>,
   llm |-> <<>>, found |-> <<>>]

\* A strategy case whose only figure is that of a supplier.
Measured ==
  [Strategic EXCEPT !.vendors = (sA :> [Terms(CIF) EXCEPT !.spend = N(80)])]

TextsSeen == {Disputed, Unquantified, Quoted2, Strategic, Measured, Problem}

\* A percentage that changes; a supplier and terms that make freight matter.
UpdatesSeen ==
  {[vendors |-> <<>>, llm |-> ("requested_increase_percent" :> N(12)), found |-> <<>>],
   [vendors |-> (sA :> Terms(FOB)), llm |-> <<>>, found |-> ("incoterm" :> FOB)]}

AnswersSeen == {X(2), N(9)}

-----------------------------------------------------------------------------
\* The pipeline. A figure, of so much in such a currency, for these dimensions.
Figure(exposure, currency, costed) ==
  {[exposure |-> exposure, currency |-> currency, costed |-> costed]}

\* A sound draft, and drafts that each fail some of the checks. The second and
\* the fourth bring a figure of their own, one of them without an amount, and
\* the fifth a market verification.
Sound ==
  [level |-> "high", methods |-> {}, covers |-> {}, impact |-> {},
   notCalculable |-> FALSE, scenarios |-> FALSE, named |-> {}, claims |-> {},
   numbers |-> {}, boundary |-> FALSE, quoted |-> FALSE, capped |-> FALSE,
   noted |-> FALSE, market |-> "none", stance |-> "challenge", audit |-> NoPosition]

DraftsSeen ==
  {Sound,
   [Sound EXCEPT !.methods = {"tco"}, !.named = {sB},
                 !.impact = Figure("large", "EUR", {"freight"}),
                 !.claims = {<<"market_context", "case">>}],
   [Sound EXCEPT !.methods = {"tco", "kraljic"}, !.covers = {"freight"},
                 !.notCalculable = TRUE],
   [Sound EXCEPT !.notCalculable = TRUE, !.impact = Figure("none", "USD", {}),
                 !.methods = {"tco"}, !.covers = {"freight", "duty"}],
   [Sound EXCEPT !.methods = {"kraljic"}, !.covers = {"freight", "supply_risk"},
                 !.level = "low", !.market = "inconclusive",
                 !.claims = {<<"qualified", sB>>, <<"guaranteed", "case">>},
                 !.numbers = {<<"opening_position", "percentage">>,
                              <<"opening_ask", "verbal">>}],
   [Sound EXCEPT !.claims = {<<"contracted", "case">>}, !.stance = "investigate",
                 !.numbers = {<<"walk_away", "duration">>}]}

Maker(s, qualification) ==
  [incumbent |-> s = sA, qualification |-> qualification, history |-> "limited",
   certified |-> FALSE, preferred |-> FALSE, price |-> "none", quoted |-> FALSE,
   rushed |-> FALSE]

Alternative ==
  [s \in {sA, sB} |-> Maker(s, IF s = sA THEN "complete" ELSE "in_progress")]

Stated(source, conflicting) == [source |-> source, conflicting |-> conflicting]

\* Each supplier has an entry of its own beside the fields.
Sources(fields, suppliers) ==
  [f \in fields \cup suppliers |->
     Stated(IF f \in suppliers THEN "llm_extraction" ELSE "both_agree", FALSE)]

Increase ==
  [type |-> "price_increase", mode |-> "supplier_request", explicit |-> TRUE,
   continuation |-> FALSE, spend |-> TRUE,
   prov |-> Sources(LoadBearing["price_increase"], {sA}),
   makers |-> (sA :> Maker(sA, "complete")), views |-> {}, warnings |-> FALSE,
   disputed |-> FALSE, relevant |-> {}, figure |-> Figure("small", "USD", {}),
   volume |-> FALSE, contract |-> TRUE, justified |-> FALSE, checkable |-> FALSE,
   researchable |-> FALSE, drivers |-> {}, notStated |-> {}, periods |-> {},
   cues |-> {}]

Driver(share, moved) == [share |-> share, moved |-> moved]

\* Complete; with a justification that is borne out and can be checked; with one
\* that only research looks into, and a currency too ambiguous to compute a figure
\* in; with an alternative and landed cost; a problem in an inferred mode; a market
\* signal; and a conflict over the spend between two stakeholders of different
\* minds.
FilesSeen ==
  {Increase,
   [Increase EXCEPT !.justified = TRUE, !.checkable = TRUE,
                    !.drivers = {Driver(TRUE, TRUE)}],
   [Increase EXCEPT !.justified = TRUE, !.researchable = TRUE, !.figure = {},
                    !.drivers = {Driver(TRUE, FALSE)}, !.relevant = {"freight"},
                    !.prov = "supplier_currency" :> Stated("llm_extraction", TRUE) @@
                             Sources(LoadBearing["price_increase"], {sA}),
                    !.periods = {<<"supplier", "spend">>, <<sA, "spend">>, <<sA, "volume">>}],
   [Increase EXCEPT !.makers = Alternative, !.relevant = {"freight", "duty"},
                    !.prov = Sources(LoadBearing["price_increase"], {sA, sB}),
                    !.justified = TRUE, !.checkable = TRUE,
                    !.periods = {"supplier", "category"} \X {"spend"}],
   [Increase EXCEPT !.makers = Alternative, !.type = "problem_solving",
                    !.mode = "commercial_signal", !.explicit = FALSE,
                    !.prov = Sources({}, {sA, sB}), !.figure = {}, !.contract = FALSE],
   [Increase EXCEPT !.makers = Alternative, !.type = "quote_comparison",
                    !.prov = Sources({}, {sA, sB}), !.mode = "market_intelligence",
                    !.figure = {}, !.volume = TRUE],
   [Increase EXCEPT !.makers = Alternative, !.disputed = TRUE,
                    !.prov = [Sources(LoadBearing["price_increase"], {sA, sB})
                                EXCEPT !["annual_spend_usd"] =
                                  Stated("deterministic_fallback", TRUE)],
                    !.views = {[by |-> "ops", favours |-> {sA}, concern |-> TRUE],
                               [by |-> "qa", favours |-> {sB}, concern |-> FALSE]}]}

Second(level, numeric) ==
  [level |-> level, verdict |-> "agree", numeric |-> numeric,
   marketMisused |-> FALSE, unsupported |-> FALSE]

OpinionsSeen ==
  {Second("none", {}), Second("material", {}), Second("none", {"opening_position"})}
=============================================================================
