---------------------------- MODULE Subscriptions ---------------------------
(***************************************************************************)
(* From handler patterns to broker subscriptions and back: what Redis,     *)
(* NATS and RabbitMQ are asked for (redismq/pattern.go, natsmq/subject.go, *)
(* rabbitmq/routing.go), what they deliver for one published message, and  *)
(* which of the deliveries the transport accepts.  On Redis the reply of   *)
(* the handler is published too, on a channel under the same prefix.       *)
(*                                                                         *)
(* The brokers are external.  Redis and NATS deliver a message once per    *)
(* matching subscription, RabbitMQ once per queue.                         *)
(***************************************************************************)
EXTENDS Pattern

CONSTANTS
    PatternLists,     \* the handlers' patterns, in the order of Router.Patterns
    Services,         \* the prefixes of the services that share the broker
    Published,        \* the subjects that are published
    ReplyNamespace,   \* "reply:", as characters
    ClientId          \* the random part of a reply channel

ASSUME SubscriptionsAssumption ==
    /\ PatternLists \subseteq Seq(Seq(Chars)) /\ Published \subseteq Seq(Chars)
    /\ Services \subseteq Seq(Chars) /\ ReplyNamespace \in Seq(Chars) /\ ClientId \in Seq(Chars)

VARIABLES
    broker,      \* "redis", "nats" or "rabbit"
    prefix,      \* Options.Prefix of the listening service, or its exchange
    patterns,    \* its patterns
    phase,       \* "new", "refused", "up", "message" or "reply"
    plan,        \* its subscriptions, when it is up
    message,     \* the channel of the last message, its subject and its sender
    copies,      \* the deliveries of it that were not looked at yet
    handled,     \* history: the accepted deliveries of the message
    echoed       \* history: the accepted deliveries of its reply

subsVars == <<broker, prefix, patterns, phase, plan, message, copies, handled, echoed>>

StartsWith(s, p) == Len(p) <= Len(s) /\ SubSeq(s, 1, Len(p)) = p
InSeq(c, s) == \E i \in DOMAIN s : s[i] = c

-----------------------------------------------------------------------------
(***************************************************************************)
(* Redis: SUBSCRIBE for literals, PSUBSCRIBE for wildcards.                *)
(***************************************************************************)
Escape(s, meta) ==
    LET e[i \in 0..Len(s)] ==
          IF i = 0 THEN <<>>
          ELSE e[i - 1] \o (IF s[i] \in meta THEN <<"\\", s[i]>> ELSE <<s[i]>>)
    IN  e[Len(s)]

toRedisPattern(p) == Escape(p, {"[", "]", "\\"})
escapeGlob(s) == Escape(s, {"*", "?", "[", "]", "\\"})

\* Redis and NATS keep services apart by a prefix and a separator.
Under(service, separator) == service \o <<separator>>
ChannelOf(service, s) == Under(service, ":") \o s
SubjectOf(service, s) == Under(service, ".") \o s

GlobOf(p) == escapeGlob(Under(prefix, ":")) \o toRedisPattern(p)

\* Redis's own glob matcher.  An element of a glob is a character, an escaped
\* character or a class; a backslash at the end of the glob is a character.
Escapes(g, i) == g[i] = "\\" /\ i < Len(g)
ClassEnd(g, i) == CHOOSE k \in (i + 1)..(Len(g) + 1) :
                     /\ k <= Len(g) => g[k] = "]"
                     /\ \A x \in (i + 1)..(k - 1) : g[x] # "]"

\* Where the element after the one at i begins.
GlobAfter(g, i) ==
    CASE g[i] = "[" -> ClassEnd(g, i) + 1
      [] Escapes(g, i) -> i + 2
      [] OTHER -> i + 1

\* The element at i, unless a star, matches the character c.
GlobFits(g, i, c) ==
    CASE g[i] = "?" -> TRUE
      [] g[i] = "[" -> \E x \in (i + 1)..(ClassEnd(g, i) - 1) : g[x] = c
      [] Escapes(g, i) -> g[i + 1] = c
      [] OTHER -> g[i] = c

\* GlobSuffix(g, s)[i]: the j such that g from i on matches s from j on.
GlobSuffix(g, s) ==
    LET m[i \in 1..(Len(g) + 2)] ==
          IF i > Len(g) THEN {Len(s) + 1}
          ELSE LET rest == m[GlobAfter(g, i)]
               IN  IF g[i] = "*" THEN {j \in 1..(Len(s) + 1) : \E k \in rest : j <= k}
                   ELSE {j \in 1..Len(s) : GlobFits(g, i, s[j]) /\ j + 1 \in rest}
    IN  m

GlobMatches(g, s) == 1 \in GlobSuffix(g, s)[1]

ReservedNothing(p) == FALSE
Reserved(p) == StartsWith(p, ReplyNamespace)
Literals == {i \in DOMAIN patterns : ~IsWildcard(patterns[i])}
Wild == DOMAIN patterns \ Literals

newPlan == [channels |-> {ChannelOf(prefix, patterns[i]) : i \in Literals},
            globs    |-> {GlobOf(patterns[i]) : i \in Wild}]

AcceptEverything(delivered, channel) == TRUE

\* The first glob whose pattern matches owns the channel.
accept(delivered, channel) ==
    LET subject == SubSeq(channel, Len(prefix) + 2, Len(channel))
        hits == {i \in Wild : Matches(patterns[i], subject)}
    IN  IF channel \in plan.channels THEN delivered = <<>>
        ELSE \/ delivered = <<>>
             \/ ~StartsWith(channel, Under(prefix, ":"))
             \/ hits = {}
             \/ \E i \in hits : (\A k \in hits : i <= k) /\ GlobOf(patterns[i]) = delivered

\* <<>> is a plain delivery, a glob one of PSUBSCRIBE.
RedisCopies(channel) ==
    {<<>> : c \in {channel} \cap plan.channels} \cup {g \in plan.globs : GlobMatches(g, channel)}

-----------------------------------------------------------------------------
(***************************************************************************)
(* NATS and RabbitMQ: one subscription or binding per literal, or a        *)
(* catch-all when there is a wildcard, whose matching is then the          *)
(* Router's.                                                               *)
(***************************************************************************)
validatePattern(p) == p # <<>> /\ ~InSeq(".", p) /\ ~InSeq(">", p)
validKey(p) == p # <<>> /\ ~InSeq(".", p) /\ ~InSeq("#", p)

CatchAllOrLiterals(all) == IF Wild # {} THEN {<<all>>} ELSE {patterns[i] : i \in Literals}

subjectPlan == CatchAllOrLiterals(">")
planBindings == CatchAllOrLiterals("#")

validatePrefix(p) ==
    /\ p # <<>> /\ ~InSeq(">", p) /\ ~InSeq("*", p)
    /\ p[1] # "." /\ p[Len(p)] # "."
    /\ \A i \in 1..(Len(p) - 1) : p[i] # "." \/ p[i + 1] # "."

\* A prefix may hold several tokens, and the catch-all is for all below it.
NatsCopies(subject) ==
    {k \in plan : IF k = <<">">> THEN StartsWith(subject, Under(prefix, "."))
                  ELSE SubjectOf(prefix, k) = subject}

\* The queue is bound to the exchange of its own service.
RabbitCopies(service, s) == {k \in {s} : service = prefix /\ plan \cap {s, <<"#">>} # {}}

-----------------------------------------------------------------------------
Valid(p) ==
    CASE broker = "redis" -> p # <<>> /\ ~Reserved(p)
      [] broker = "nats" -> validatePattern(p)
      [] broker = "rabbit" -> validKey(p)

SubsInit ==
    /\ broker \in {"redis", "nats", "rabbit"}
    /\ prefix \in Services /\ patterns \in PatternLists
    /\ broker = "nats" => validatePrefix(prefix)
    /\ phase = "new" /\ plan = {}
    /\ message = [channel |-> <<>>, subject |-> <<>>, by |-> prefix]
    /\ copies = {} /\ handled = 0 /\ echoed = 0

Listen ==
    /\ phase = "new"
    /\ \/ /\ \E i \in DOMAIN patterns : ~Valid(patterns[i])
          /\ phase' = "refused" /\ UNCHANGED plan
       \/ /\ \A i \in DOMAIN patterns : Valid(patterns[i])
          /\ phase' = "up"
          /\ plan' = CASE broker = "redis" -> newPlan
                       [] broker = "nats" -> subjectPlan
                       [] broker = "rabbit" -> planBindings
    /\ UNCHANGED <<broker, prefix, patterns, message, copies, handled, echoed>>

\* The publisher validates as the listener does; only NATS and RabbitMQ
\* refuse a wildcard (the Client above all three does).
Publish(service, s) ==
    /\ phase = "up" /\ phase' = "message"
    /\ Valid(s)
    /\ broker # "redis" => ~IsWildcard(s)
    /\ broker = "nats" => validatePrefix(service)
    /\ message' = [channel |-> IF broker = "redis" THEN ChannelOf(service, s) ELSE s,
                   subject |-> s, by |-> service]
    /\ copies' = CASE broker = "redis" -> RedisCopies(ChannelOf(service, s))
                   [] broker = "nats" -> NatsCopies(SubjectOf(service, s))
                   [] broker = "rabbit" -> RabbitCopies(service, s)
    /\ UNCHANGED <<broker, prefix, patterns, plan, handled, echoed>>

Accepts(copy) == broker = "redis" => accept(copy, message.channel)

Receive(copy) ==
    /\ phase = "message" /\ copy \in copies
    /\ copies' = copies \ {copy}
    /\ handled' = handled + (IF Accepts(copy) THEN 1 ELSE 0)
    /\ UNCHANGED <<broker, prefix, patterns, phase, plan, message, echoed>>

ReplyChannel == ChannelOf(prefix, ReplyNamespace \o ClientId)

\* handleMessage publishes the reply on env.ReplyTo.
RedisReplies ==
    /\ broker = "redis" /\ phase = "message" /\ copies = {} /\ handled > 0
    /\ phase' = "reply" /\ message' = [message EXCEPT !.channel = ReplyChannel]
    /\ copies' = RedisCopies(ReplyChannel)
    /\ UNCHANGED <<broker, prefix, patterns, plan, handled, echoed>>

\* A reply is an envelope like any other and would be dispatched.
ReceiveReply(copy) ==
    /\ phase = "reply" /\ copy \in copies
    /\ copies' = copies \ {copy}
    /\ echoed' = echoed + (IF Accepts(copy) THEN 1 ELSE 0)
    /\ UNCHANGED <<broker, prefix, patterns, phase, plan, message, handled>>

SubsNext ==
    \/ Listen \/ RedisReplies
    \/ \E service \in Services, s \in Published : Publish(service, s)
    \/ \E copy \in copies : Receive(copy) \/ ReceiveReply(copy)

-----------------------------------------------------------------------------
\* No service's prefix, with its separator, begins another's.
SeparateServices ==
    \A r, s \in Services : r # s =>
        \A separator \in {":", "."} : ~StartsWith(s, Under(r, separator))

Covered(s) == \E i \in DOMAIN patterns : Matches(patterns[i], s)
Delivered == phase = "reply" \/ (phase = "message" /\ copies = {})

(* A message that some handler's pattern covers is handled exactly once,   *)
(* whatever characters the patterns hold and however they overlap          *)
(* (redismq/pattern.go:158-167, natsmq/subject.go:63-68); what another     *)
(* service publishes under its own prefix is not handled at all.  Prefixes *)
(* that nest, "a" and "a:b" on Redis or "a" and "a.b" on NATS, do not keep *)
(* services apart: SeparateServices.                                       *)
HandledOnce ==
    Delivered =>
        /\ message.by # prefix => handled = 0
        /\ message.by = prefix /\ Covered(message.subject) => handled = 1
        /\ ~Covered(message.subject) => handled <= 1 /\ (broker = "redis" => handled = 0)

(* A reply is handled as a message by the service whose wildcard lies      *)
(* across the reply namespace without naming it, such as "*", and by none  *)
(* other: patterns that name the namespace are refused                     *)
(* (redismq/pattern.go:128-132).  Once, however many of its patterns match *)
(* (accept).                                                               *)
RepliesEchoOnceWhereStraddled ==
    (phase = "reply" /\ copies = {}) =>
        echoed = IF \E i \in DOMAIN patterns : /\ ~StartsWith(patterns[i], ReplyNamespace)
                                                /\ Matches(patterns[i], ReplyNamespace \o ClientId)
                 THEN 1 ELSE 0

(* "A handler pattern may not start with it, so no handler subscription    *)
(* can ever straddle another client's reply inbox"                         *)
(* (redismq/pattern.go:10-12): no reply reaches a handler.  The pattern    *)
(* "*" does not start with the namespace and matches all of it.            *)
RepliesReachNoHandler == echoed = 0
=============================================================================
