-------------------------------- MODULE Website --------------------------------
(***************************************************************************)
(* Buckets served as websites (websiteGet, websiteHead) and to scripts of  *)
(* other origins (corsPreflight, and the headers that collectCorsHeaders   *)
(* adds to every answer).  The bucket record, the object and the error     *)
(* document are read one after the other.                                  *)
(***************************************************************************)
EXTENDS Requests, Sequences

WX == INSTANCE SequencesExt

\* A directory, its index document, another page and the error document.
Pages == {"docs/", "docs/index", "page", "error"}
Prefixed(key, prefix) == key = prefix \/ (prefix = "docs/" /\ key = "docs/index")
WithIndex(key) == IF key = "docs/" THEN "docs/index" ELSE key

NoSuchKey == 404
AccessDenied == 403
PreconditionFailed == 412

RoutingRules == [prefix : {None, "docs/", "docs/index"}, code : {None, NoSuchKey, AccessDenied}]

\* What _validateWebsiteConfigXml lets through: a redirection of everything
\* alone, or an index document with or without an error document and rules.
ValidSites ==
    {[all |-> TRUE, error |-> FALSE, rules |-> <<>>]} \cup
    {[all |-> FALSE, error |-> e, rules |-> s] :
        e \in BOOLEAN, s \in WX!BoundedSeq(RoutingRules, IF "changeObject" \in scene.ops THEN 1 ELSE 2)}

Methods == {"GET", "PUT"}
Origins == {<<"a">>, <<"a", "b">>}
CorsRules ==
    [origins : {{<<"*">>}, {<<"a">>}, {<<"a", "*">>}}, methods : {{"GET"}, Methods},
     headers : {None, {"x"}, {"x", "y"}}]

\* A rule is a rule, an answer an answer.
ASSUME SiteAssumption ==
    None \notin RoutingRules \cup CorsRules
               \cup [origin : Origins \cup {<<"*">>}, credentials : BOOLEAN, methods : SUBSET Methods]

\* An object that everybody may read or not, that redirects or not.
SiteObjects == [public : BOOLEAN, redirect : BOOLEAN]

\* listed: everybody may list the bucket.
SiteInit ==
    /\ In("site")
    /\ \E config \in IF "cors" \in scene.ops
                     THEN {[all |-> TRUE, error |-> FALSE, rules |-> <<>>]} ELSE ValidSites,
          index, error \in {None} \cup [public : BOOLEAN, redirect : {FALSE}],
          cors \in IF "cors" \in scene.ops THEN WX!BoundedSeq(CorsRules, 2) ELSE {<<>>},
          listed \in BOOLEAN :
        /\ "websiteHead" \in scene.ops => error = None      \* it shows none
        /\ "cors" \in scene.ops => <<index, error, listed>> = <<None, None, TRUE>>
        /\ store = [config |-> config, cors |-> cors, listed |-> listed,
                    objects |-> [k \in Pages |-> CASE k = "docs/index" -> index
                                                   [] k = "error" -> error [] OTHER -> None]]
    /\ pc = [r \in Reqs |-> "idle"]
    /\ ctx = [r \in Reqs |-> None]

-----------------------------------------------------------------------------
(* websiteServing.js *)

\* Mutant: a prefix that matches is enough.
PrefixIsEnough(rule, key, code) ==
    IF rule.prefix # None THEN Prefixed(key, rule.prefix)
    ELSE rule.code # None /\ rule.code = code

\* A rule applies when the key has its prefix and the error its code, as far as
\* it has them.
RuleApplies(rule, key, code) ==
    /\ rule.prefix # None => Prefixed(key, rule.prefix)
    /\ rule.code # None => rule.code = code

Conditional(rule) == rule.prefix # None \/ rule.code # None

\* The rules up to the first that applies; one without conditions has none to
\* look at, and the request is never answered.
FindRoutingRule(rules, key, code) ==
    LET i == WX!SelectInSeq(rules, LAMBDA rule : ~Conditional(rule) \/ RuleApplies(rule, key, code))
    IN  IF i = 0 THEN None ELSE rules[i]

-----------------------------------------------------------------------------
(* websiteGet and websiteHead *)

\* Answer: the status, what it redirects to and the page it shows.
SiteAnswer(r, status, redirect, page) ==
    /\ Carry(r, [ctx[r] EXCEPT !.status = status, !.redirect = redirect, !.page = page])
    /\ Goto(r, "ok")
    /\ UNCHANGED store

\* A redirection by rule, for the error code found; without conditions, the
\* process dies.
Redirect(r, rule, status) ==
    IF Conditional(rule) THEN SiteAnswer(r, status, <<"rule", rule>>, None) ELSE Refuse(r)

\* The record of the bucket: redirect everything, redirect by the key, or go on
\* to the object, that of the index for a directory.  GET looks for a rule
\* before it adds the index document, HEAD after.
ReadSite(r, op) ==
    /\ Sent(r, op)
    /\ \E key \in Pages :
        LET site == store.config
            looked == IF op = "websiteHead" THEN WithIndex(key) ELSE key
            rule == FindRoutingRule(site.rules, looked, None)
            start == [op |-> op, key |-> key, site |-> store,
                      status |-> 0, redirect |-> None, page |-> None]
        IN  IF site.all
            THEN /\ Carry(r, [start EXCEPT !.status = 301, !.redirect = <<"all">>])
                 /\ Goto(r, "ok")
            ELSE IF rule = None THEN Carry(r, start) /\ Goto(r, "getObjectMD")
            ELSE IF Conditional(rule)
            THEN /\ Carry(r, [start EXCEPT !.status = 301, !.redirect = <<"rule", rule>>])
                 /\ Goto(r, "ok")
            ELSE Goto(r, "failed") /\ UNCHANGED ctx
    /\ UNCHANGED store

WebsiteGet(r) == ReadSite(r, "websiteGet")
WebsiteHead(r) == ReadSite(r, "websiteHead")

\* _errorActions: a rule for the error, else the error document (GET only),
\* else the error page of the server.
ErrorActions(r, code) ==
    LET site == ctx[r].site.config
        rule == FindRoutingRule(site.rules, ctx[r].key, code)
    IN  IF rule # None THEN Redirect(r, rule, code)
        ELSE IF ctx[r].op = "websiteGet" /\ site.error
        THEN /\ Carry(r, [ctx[r] EXCEPT !.status = code])
             /\ Goto(r, "getErrorDocument")
             /\ UNCHANGED store
        ELSE SiteAnswer(r, code, None, None)

\* Mutant: HEAD does not hide that there is no such object.
MissingToGet(r) ==
    IF ctx[r].op = "websiteHead" \/ ctx[r].site.listed THEN NoSuchKey ELSE AccessDenied

\* Who may not list the bucket is not told that there is no such object.
Missing(r) == IF ctx[r].site.listed THEN NoSuchKey ELSE AccessDenied

\* The conditions of the headers may fail (validateConditionalHeaders).
LookAtObject(r) ==
    LET object == store.objects[WithIndex(ctx[r].key)]
    IN  /\ pc[r] = "getObjectMD"
        /\ IF object = None THEN ErrorActions(r, Missing(r))
           ELSE IF ~object.public THEN ErrorActions(r, AccessDenied)
           ELSE \/ "conditions" \in scene.ops /\ ErrorActions(r, PreconditionFailed)
                \/ object.redirect /\ SiteAnswer(r, 301, <<"object">>, None)
                \/ ~object.redirect /\ SiteAnswer(r, 200, None, [of |-> object, key |-> WithIndex(ctx[r].key)])

GetSiteObject(r) == Running(r) /\ ctx[r].op = "websiteGet" /\ LookAtObject(r)
HeadSiteObject(r) == Running(r) /\ ctx[r].op = "websiteHead" /\ LookAtObject(r)

\* Mutant: the error document is shown whoever may read it.
ShowErrorDocument(r) ==
    LET document == store.objects["error"]
    IN  /\ pc[r] = "getErrorDocument"
        /\ IF document = None THEN SiteAnswer(r, ctx[r].status, None, None)
           ELSE SiteAnswer(r, ctx[r].status, None, [of |-> document, key |-> "error"])

GetErrorDocument(r) ==
    LET document == store.objects["error"]
    IN  /\ pc[r] = "getErrorDocument"
        /\ IF document = None \/ ~document.public
           THEN SiteAnswer(r, ctx[r].status, None, None)
           ELSE SiteAnswer(r, ctx[r].status, None, [of |-> document, key |-> "error"])

\* Clients put, close and delete objects meanwhile.
ChangeSiteObject(r) ==
    /\ Sent(r, "changeObject")
    /\ \E k \in {"docs/index", "error"}, o \in {None} \cup SiteObjects :
           store' = [store EXCEPT !.objects[k] = o]
    /\ Goto(r, "ok")
    /\ UNCHANGED ctx

-----------------------------------------------------------------------------
(* corsResponse.js *)

\* At most one wildcard.
MatchesValue(allowed, value) ==
    LET i == WX!SelectInSeq(allowed, LAMBDA c : c = "*")
    IN  IF i = 0 THEN allowed = value
        ELSE /\ WX!IsPrefix(SubSeq(allowed, 1, i - 1), value)
             /\ WX!IsSuffix(SubSeq(allowed, i + 1, Len(allowed)), value)

FindCorsRule(rules, origin, method, headers) ==
    LET i == WX!SelectInSeq(rules, LAMBDA rule :
                /\ method \in rule.methods
                /\ \E o \in rule.origins : MatchesValue(o, origin)
                /\ headers # None => rule.headers # None /\ headers \subseteq rule.headers)
    IN  IF i = 0 THEN None ELSE rules[i]

\* Any origin, without credentials, or this one.
GenerateCorsResHeaders(rule, origin) ==
    [origin |-> IF <<"*">> \in rule.origins THEN <<"*">> ELSE origin,
     credentials |-> <<"*">> \notin rule.origins, methods |-> rule.methods]

\* Mutant: the answer is for requests without headers, not for any.
CollectForNoHeaders(origin, method, rules) ==
    LET rule == FindCorsRule(rules, origin, method, {})
    IN  IF rule = None THEN None ELSE GenerateCorsResHeaders(rule, origin)

CollectCorsHeaders(origin, method, rules) ==
    LET rule == FindCorsRule(rules, origin, method, None)
    IN  IF rule = None THEN None ELSE GenerateCorsResHeaders(rule, origin)

\* A browser asks whether a script of the origin may send the request, and the
\* request is sent.
CorsPreflight(r) ==
    /\ Sent(r, "cors")
    /\ \E origin \in Origins, method \in Methods, headers \in {None, {"x"}, {"x", "y"}} :
        LET rule == FindCorsRule(store.cors, origin, method, headers)
        IN  IF rule = None THEN Refuse(r)
            ELSE /\ Carry(r, [op |-> "preflight", origin |-> origin, method |-> method,
                              told |-> GenerateCorsResHeaders(rule, origin), answer |-> None])
                 /\ Goto(r, "request")
                 /\ UNCHANGED store

CorsRequest(r) ==
    /\ pc[r] = "request"
    /\ Carry(r, [ctx[r] EXCEPT !.answer = CollectCorsHeaders(ctx[r].origin, ctx[r].method, store.cors)])
    /\ Goto(r, "ok")
    /\ UNCHANGED store

SiteNext ==
    /\ In("site")
    /\ \E r \in Reqs : \/ WebsiteGet(r) \/ WebsiteHead(r) \/ GetSiteObject(r) \/ HeadSiteObject(r)
                       \/ GetErrorDocument(r) \/ ChangeSiteObject(r) \/ CorsPreflight(r) \/ CorsRequest(r)
    /\ UNCHANGED scene

-----------------------------------------------------------------------------
(* Properties *)

SiteAnswered(r) == Answered(r) /\ ctx[r] # None /\ ctx[r].op \in {"websiteGet", "websiteHead"}

\* Whatever changes between the reads, a page that is shown is that of an
\* object that everybody could read when it was read: the object of the
\* request, with success, or the error document, with the error.
ShownPagesArePublic ==
    In("site") => \A r \in Reqs : SiteAnswered(r) /\ ctx[r].page # None =>
        /\ ctx[r].page.of.public
        /\ IF ctx[r].status = 200 THEN ctx[r].page.key = WithIndex(ctx[r].key)
           ELSE ctx[r].page.key = "error" /\ ctx[r].status \in {403, 404, 412}

\* The first rule whose conditions are satisfied is used, for the key when there
\* is no error and for the key and the error when there is one: so a page is
\* shown only when no rule applies, and a rule for an error without that error
\* never redirects.
FirstRuleIsUsed ==
    In("site") => \A r \in Reqs :
        SiteAnswered(r) /\ ctx[r].op = "websiteGet" /\ ctx[r].redirect \notin {<<"all">>, <<"object">>} =>
            LET rules == ctx[r].site.config.rules
                code == IF ctx[r].status \in {403, 404, 412} THEN ctx[r].status ELSE None
                applies == {i \in DOMAIN rules :
                              /\ rules[i].prefix # None => Prefixed(ctx[r].key, rules[i].prefix)
                              /\ rules[i].code # None => rules[i].code = code}
            IN  IF applies = {} THEN ctx[r].redirect = None
                ELSE ctx[r].redirect = <<"rule", rules[CHOOSE i \in applies : \A j \in applies : i <= j]>>

\* While nothing changes, HEAD answers with the status and the redirection of
\* GET, unless the index document of a directory has a rule that the directory
\* has not: GET and HEAD look for the rule of different keys.
HeadIsLikeGet ==
    In("site") => \A r, q \in Reqs :
        /\ SiteAnswered(r) /\ SiteAnswered(q)
        /\ ctx[r].op = "websiteGet" /\ ctx[q].op = "websiteHead"
        /\ ctx[r].key = ctx[q].key /\ ctx[r].site = ctx[q].site
        /\ "changeObject" \notin scene.ops /\ "conditions" \notin scene.ops
        /\ \A i \in DOMAIN ctx[r].site.config.rules :
              ctx[r].site.config.rules[i].prefix \notin {"docs/index"}
        => ctx[r].status = ctx[q].status /\ ctx[r].redirect = ctx[q].redirect

\* What a preflight allows is allowed by the answer to the request that follows:
\* the rule that is found for the answer, without the headers, lets the origin
\* and the method through too.
PreflightIsHonoured ==
    In("site") => \A r \in Reqs :
        Answered(r) /\ ctx[r] # None /\ ctx[r].op = "preflight" =>
            /\ ctx[r].answer # None
            /\ ctx[r].answer.origin \in {<<"*">>, ctx[r].origin}
            /\ ctx[r].method \in ctx[r].answer.methods

\* Visitors of a site, by GET, HEAD or script, see what its owner published.
SiteIsAsConfigured ==
    ShownPagesArePublic /\ FirstRuleIsUsed /\ HeadIsLikeGet /\ PreflightIsHonoured
=============================================================================
