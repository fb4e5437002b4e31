------------------------ MODULE MCConfiguredTraffic ------------------------
(***************************************************************************)
(* A small installation: routes chat (inline, with a rule of its own),     *)
(* shadow (asynchronous) and old (disabled), two upstream providers, one   *)
(* verdict provider and one policy bundle.                                 *)
(***************************************************************************)
EXTENDS ConfiguredTraffic

Row(name) == <<1, name>>

MCSeed ==
    [providers |-> {[id |-> Row(p), credential |-> TRUE] : p \in {"azure", "local"}},
     mappings |-> {[id |-> Row("map"), target |-> Row("local"), model |-> "small",
                    routeKey |-> "shadow", provider |-> "", enabled |-> TRUE]},
     routes |-> {
        [id |-> Row("chat"), enabled |-> TRUE, mapping |-> NoID, provider |-> "azure",
         execution |-> "inline", fallback |-> "shadow_log", upstream |-> ""],
        [id |-> Row("shadow"), enabled |-> TRUE, mapping |-> Row("map"), provider |-> "azure",
         execution |-> "async_shadow", fallback |-> "block", upstream |-> "large"],
        [id |-> Row("old"), enabled |-> FALSE, mapping |-> NoID, provider |-> "azure",
         execution |-> "inline", fallback |-> "allow", upstream |-> ""]},
     limits |-> {[route |-> Row("chat"), enabled |-> TRUE]},
     overrides |-> {[client |-> "app", route |-> Row("chat"), enabled |-> TRUE]},
     verdictProviders |-> {[id |-> Row("judge"), endpoint |-> TRUE, enabled |-> TRUE,
                            credential |-> TRUE]},
     verdictBindings |-> {[route |-> Row("chat"), provider |-> Row("judge"), enabled |-> TRUE,
                           execution |-> "inline", priority |-> 1]},
     bundles |-> {[id |-> Row("base"), enabled |-> TRUE, action |-> "allow"]},
     detectors |-> {[id |-> <<1, "base", d>>, bundle |-> Row("base"), enabled |-> TRUE] :
                        d \in {"card", "mail"}},
     rules |-> {[id |-> <<1, "base", "pii">>, bundle |-> Row("base"), enabled |-> TRUE,
                 action |-> "redact"]},
     ruleDetectors |-> {[rule |-> <<1, "base", "pii">>, detector |-> <<1, "base", d>>] :
                            d \in {"card", "mail"}},
     ruleScopes |-> {[rule |-> <<1, "base", "pii">>, route |-> Row("chat"),
                      provider |-> Row("azure"), model |-> "", direction |-> "request"],
                     [rule |-> <<1, "base", "pii">>, route |-> NoID,
                      provider |-> Row("local"), model |-> "small", direction |-> "both"]},
     routeBindings |-> {[route |-> Row("chat"), bundle |-> Row("base")]},
     sinks |-> {[id |-> Row("clickhouse"), enabled |-> TRUE]},
     retention |-> {[name |-> "week", sink |-> Row("clickhouse")]},
     rawCapture |-> {[route |-> Row("chat"), direction |-> "request", enabled |-> TRUE]}]

Scope(route, direction) ==
    [route |-> route, provider |-> "", model |-> "", direction |-> direction]
Bundle(action, scope) ==
    [key |-> "extra", action |-> action, detectors |-> {"card"},
     rules |-> {[key |-> "stop", enabled |-> TRUE, action |-> "block",
                 detectors |-> {"card"}, scope |-> scope]}]
MCBundles == {Bundle("allow", Scope("", "output")), Bundle("redact", NoScope),
              Bundle("shadow_log", Scope("shadow", "input"))}

MCMappings ==
    {[key |-> "local", model |-> "large", routeKey |-> "chat", provider |-> p, enabled |-> TRUE] :
        p \in {"local", "unknown"}}
    \union {[key |-> "again", model |-> "small", routeKey |-> "chat", provider |-> "local",
             enabled |-> TRUE]}

(* The last two are filed under the name of another and under their ID.    *)
Provider(id, name, enabled) ==
    [id |-> id, name |-> name, endpoint |-> TRUE, enabled |-> enabled, credential |-> TRUE]
MCVerdictProviders == {Provider("judge", "judge", FALSE), Provider("other", "judge", TRUE),
                       Provider("spare", "", FALSE)}

MCLimits == {[route |-> "old", enabled |-> TRUE], [route |-> "shadow", enabled |-> TRUE]}
MCOverrides == {[client |-> "app", route |-> "chat", enabled |-> TRUE]}
MCActivationKeys == {{"base"}, {"base", "extra"}}

(* Two texts of four and three bytes, joined at byte 4; byte 2 is inside a *)
(* rune.  The findings overlap, touch, cross the separator or cut the rune.*)
MCTextLengths == <<4, 0, 3>>
MCRunes == {0, 1, 3, 4, 5, 6, 7}
Found(card, mail) ==
    [d \in {"base", "extra"} \X {"card", "mail"} |-> IF d[2] = "card" THEN card ELSE mail]
MCMatches == {Found({}, {}), Found({<<0, 3>>}, {<<1, 4>>}), Found({<<3, 6>>}, {}),
              Found({}, {<<1, 2>>, <<5, 7>>}), Found({<<0, 1>>}, {<<5, 6>>, <<6, 7>>})}
MCVerdicts ==
    {[action |-> "allow", failed |-> FALSE, fallbackUsed |-> FALSE, spans |-> {}],
     [action |-> "redact", failed |-> FALSE, fallbackUsed |-> FALSE, spans |-> {<<0, 1>>}],
     [action |-> "block", failed |-> FALSE, fallbackUsed |-> TRUE, spans |-> {}],
     [action |-> "", failed |-> TRUE, fallbackUsed |-> FALSE, spans |-> {}]}
=============================================================================
