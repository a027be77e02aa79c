---------------------------- MODULE AdapterProbe ----------------------------
(***************************************************************************)
(* One probe: the worker's AdapterRegistry asks an adapter over HTTP, the  *)
(* adapter runs a TLS client (adapters/cli drives a command and parses     *)
(* what it prints, adapters/go uses crypto/tls) against the server under   *)
(* test, and two timeouts, the adapter's and the worker's, race with it.   *)
(*                                                                         *)
(* Groups are groups, whatever their spelling (stack_group). Signature     *)
(* algorithms, certificates, byte counts and texts are left out, and so is *)
(* the mock backend.                                                       *)
(***************************************************************************)
EXTENDS Integers, Sequences

CONSTANTS
    Group,
    Classical,  \* the groups without a post-quantum part
    Known,      \* the groups that the adapter's stack implements
    Default,    \* the groups that each client offers when it is told none
    Requests,   \* lists of groups that a handler may ask for
    Timeout,    \* timeout_ms of the request
    Outer,      \* the timeout of the worker's HTTP client
    DH,         \* finite-field Diffie-Hellman, a TLS 1.2 key exchange without a group
    None

Backend == {"openssl", "boringssl", "wolfssl", "go"}
Stage == {"dns", "tcp", "tls_handshake", "http_request", "complete"}

\* What the output says besides the names of groups.
Word == {"suite", "0000", "(NONE)", "NONE", "<NULL>", "ECDH"}

\* wolfSSL prefers classical curves by itself.
ASSUME AdapterAssumption ==
    /\ Classical \subseteq Group
    /\ Default \in [Backend -> SUBSET Known]
    /\ Default["wolfssl"] \subseteq Classical
    /\ Known \subseteq Group
    /\ Requests \subseteq Seq(Group)
    /\ Timeout \in Nat \ {0}
    /\ Outer \in Nat
    /\ (Group \cup {DH}) \cap Word = {}
    /\ DH \notin Group
    /\ None \notin Group \cup {DH} \cup Word

VARIABLES
    backend,
    kem_groups,  \* of the request
    phase,       \* what goes on: in the worker, the adapter or its client
    reached,     \* how far the client and the server really got
    group,       \* what they agreed on
    alerted,     \* an alert was seen
    clock,       \* time since the worker's request
    deadline,    \* when the adapter stops waiting
    dialled,     \* how long it took to connect
    lost,        \* the adapter or its client died or could not be heard
    answer       \* the ProbeResponse that the worker gets

env == <<backend, kem_groups>>
net == <<reached, group, alerted>>
time == <<clock, deadline, dialled>>
vars == <<env, phase, net, time, lost, answer>>

Cli == backend # "go"

\* The groups that the client puts into its ClientHello: openssl and bssl take
\* the list as it is; wolfSSL takes the first group, and only if it is a
\* post-quantum one; crypto/tls takes those it knows.
Listed == {kem_groups[i] : i \in DOMAIN kem_groups}
curves == Listed \cap Known
pqc == kem_groups # << >> /\ kem_groups[1] \notin Classical
Offered ==
    CASE backend \in {"openssl", "boringssl"} ->
            IF kem_groups = << >> THEN Default[backend] ELSE Listed
      [] backend = "wolfssl" -> IF pqc THEN {kem_groups[1]} ELSE Default[backend]
      [] backend = "go" -> IF curves = {} THEN Default[backend] ELSE curves

HandshakeDone == reached \in {"tls", "http"}

\* What two sides can agree on.
KeyExchange == Group \cup {DH, None}

NoAnswer == [handshake_success |-> FALSE, group |-> None, messages |-> << >>,
             http |-> FALSE, failed_stage |-> "none"]

\* Nothing has been sent yet.
Fresh ==
    /\ phase = "send"
    /\ reached = "none"
    /\ group = None
    /\ alerted = FALSE
    /\ clock = 0
    /\ deadline = 0
    /\ dialled = 0
    /\ lost = FALSE
    /\ answer = NoAnswer

Init ==
    /\ backend \in Backend
    /\ kem_groups \in Requests
    /\ Fresh

-----------------------------------------------------------------------------
(***************************************************************************)
(* Answers                                                                 *)
(***************************************************************************)

\* ProbeResponse::failure: nothing reached the wire, as far as anybody knows.
failure(stage) == [handshake_success |-> FALSE, group |-> None, messages |-> << >>,
                   http |-> FALSE, failed_stage |-> stage]

\* build_response, and the same record as the Go adapter fills it in.
build_response(success, g, alert, http) ==
    [handshake_success |-> success,
     group |-> g,
     messages |-> IF success THEN <<"ClientHello", "ServerHello">>
                  ELSE IF alert THEN <<"ClientHello", "Alert">> ELSE <<"ClientHello">>,
     http |-> http,
     failed_stage |-> IF ~success THEN "tls_handshake"
                      ELSE IF http THEN "complete" ELSE "http_request"]

Answers(r) == /\ answer' = r
              /\ phase' = "done"

-----------------------------------------------------------------------------
(***************************************************************************)
(* What the commands print and how it is read. An output has, for each     *)
(* label, the values behind it line by line; a line without a value says   *)
(* nothing (value_after). "suite" stands for any cipher suite.             *)
(***************************************************************************)

Label == {"Cipher    : ", "Cipher is ", "Negotiated TLS1.3 group: ", "Peer Temp Key: ",
          "Server Temp Key: ", "Cipher: ", "ECDHE group: ", "ECDHE curve: ", "Group: ",
          "SSL cipher suite is ", "Using Post-Quantum KEM: ", "SSL curve name is ",
          "HTTP/1.", "alert"}

Silent == [l \in Label |-> << >>]

\* A line that is printed or not; an output with these lines for a label.
Maybe(value) == {<< >>, <<value>>}
Line(out, l, values) == [out EXCEPT ![l] = values]

\* external: s_client names post-quantum groups on a line of their own, others
\* in the line of the key, behind the mechanism for the NIST curves.
KeyLabel == {"Peer Temp Key: ", "Server Temp Key: "}
KeyParts == {<<group, "bits">>} \cup (IF group = DH THEN {} ELSE {<<"ECDH", group, "bits">>})
KeyLines == {Line(Silent, l, <<parts>>) : l \in KeyLabel, parts \in KeyParts}
openssl_key ==
    IF group = None THEN {Silent}
    ELSE IF group \in Group \ Classical THEN {Line(Silent, "Negotiated TLS1.3 group: ", <<group>>)}
    ELSE KeyLines

\* external: placeholders are "how a failure actually looks"; the session, with
\* its line, is not always printed.
Ciphers(out, new, session) == Line(Line(out, "Cipher is ", <<new>>), "Cipher    : ", session)
NoKey(key) == Line(Silent, "Negotiated TLS1.3 group: ", key)
openssl_connected == {Ciphers(key, "suite", session) :
                         key \in openssl_key, session \in Maybe("suite")}
openssl_failed == {Ciphers(NoKey(key), "(NONE)", session) :
                      key \in Maybe("<NULL>"), session \in Maybe("0000")}
openssl_prints == IF HandshakeDone THEN openssl_connected ELSE {Silent} \cup openssl_failed

\* external: bssl prints a summary of a connection, if there is one.
boringssl_prints ==
    IF HandshakeDone
    THEN {Line(Line(Silent, "Cipher: ", <<"suite">>),
               l, IF group = None THEN << >> ELSE <<group>>) :
             l \in {"ECDHE group: ", "ECDHE curve: ", "Group: "}}
    ELSE {Silent}

\* external: the client of wolfSSL says that it uses a KEM when it offers it, and
\* "reports the ECC curve even when a post-quantum KEM was used".
wolfssl_prints ==
    {Line(Line(Line(Silent, "SSL cipher suite is ", IF HandshakeDone THEN <<"suite">> ELSE << >>),
               "Using Post-Quantum KEM: ", IF pqc THEN <<kem_groups[1]>> ELSE << >>),
          "SSL curve name is ", curve) :
        curve \in IF ~HandshakeDone THEN {<< >>}
                  ELSE IF group \in Classical THEN {<<group>>}
                  ELSE {<< >>} \cup {<<c>> : c \in Classical}}

Summaries == CASE backend = "openssl" -> openssl_prints
               [] backend = "boringssl" -> boringssl_prints
               [] backend = "wolfssl" -> wolfssl_prints

\* external: the alert is printed by a number or name that the parser knows, or
\* by another; the HTTP answer follows the summary.
Outputs ==
    {Line(Line(summary, "HTTP/1.", IF reached = "http" THEN <<"status">> ELSE << >>), "alert", alert) :
        summary \in Summaries, alert \in IF alerted THEN Maybe("alert") ELSE {<< >>}}

\* Option::or_else and Option::filter.
or_else(value, other) == IF value = None THEN other ELSE value
filter(value, placeholders) == IF value \in placeholders THEN None ELSE value

value_after(out, l) == IF out[l] = << >> THEN None ELSE out[l][1]

\* "Returning ECDH there would put a meaningless entry" into the order.
strip_key_size(parts) == IF parts[1] = "ECDH" THEN parts[2] ELSE parts[1]
temp_key(out, l) == IF out[l] = << >> THEN None ELSE strip_key_size(out[l][1])

\* Defect: placeholders count as ciphers.
openssl_suite_any(out) == or_else(value_after(out, "Cipher    : "), value_after(out, "Cipher is "))

openssl_suite(out) ==
    filter(or_else(value_after(out, "Cipher    : "), value_after(out, "Cipher is ")),
           {"0000", "(NONE)", "NONE"})

openssl_group(out) ==
    filter(or_else(value_after(out, "Negotiated TLS1.3 group: "),
                   or_else(temp_key(out, "Peer Temp Key: "), temp_key(out, "Server Temp Key: "))),
           {"<NULL>", "(NONE)"})

cipher_suite(out) ==
    CASE backend = "openssl" -> openssl_suite(out)
      [] backend = "boringssl" -> value_after(out, "Cipher: ")
      [] backend = "wolfssl" -> value_after(out, "SSL cipher suite is ")

\* For wolfSSL "the PQ line wins when present".
negotiated_group(out) ==
    CASE backend = "openssl" -> openssl_group(out)
      [] backend = "boringssl" ->
            or_else(value_after(out, "ECDHE group: "),
                    or_else(value_after(out, "ECDHE curve: "), value_after(out, "Group: ")))
      [] backend = "wolfssl" ->
            or_else(value_after(out, "Using Post-Quantum KEM: "),
                    value_after(out, "SSL curve name is "))

parse_http(out) == out["HTTP/1."] # << >>
parse_alert(out) == out["alert"] # << >>

\* Defect: an alert means that the handshake failed.
handshake_success_no_alert(out) ==
    (cipher_suite(out) # None \/ parse_http(out)) /\ ~parse_alert(out)

\* "An alert after that belongs to a later stage".
handshake_success(out) == cipher_suite(out) # None \/ parse_http(out)

-----------------------------------------------------------------------------
(***************************************************************************)
(* The worker                                                              *)
(***************************************************************************)

\* The adapter is not configured, or nothing listens at its address.
unreachable ==
    /\ phase = "send"
    /\ lost' = TRUE
    /\ Answers(failure("tcp"))
    /\ UNCHANGED <<env, net, time>>

\* Defect: crypto/tls is used although it knows none of the groups.
post_always ==
    /\ phase = "send"
    /\ phase' = IF Cli THEN "spawn" ELSE "dial"
    /\ deadline' = clock + Timeout
    /\ UNCHANGED <<env, net, clock, dialled, lost, answer>>

\* POST /probe: the adapter starts its client. crypto/tls is not used when it
\* knows none of the groups; see not_implemented.
post ==
    /\ phase = "send"
    /\ Cli \/ kem_groups = << >> \/ curves # {}
    /\ phase' = IF Cli THEN "spawn" ELSE "dial"
    /\ deadline' = clock + Timeout
    /\ UNCHANGED <<env, net, clock, dialled, lost, answer>>

\* The adapter dies, or its answer cannot be read: the HTTP call fails.
adapter_dies ==
    /\ phase \notin {"send", "done"}
    /\ lost' = TRUE
    /\ Answers(failure("tcp"))
    /\ UNCHANGED <<env, net, time>>

\* The container is wedged: it neither answers nor closes the connection.
wedges ==
    /\ phase \notin {"send", "done", "wedged"}
    /\ phase' = "wedged"
    /\ lost' = TRUE
    /\ UNCHANGED <<env, net, time, answer>>

\* Defect: there is no outer bound for an adapter that hangs.
gives_up_if_alive ==
    /\ phase \notin {"send", "done", "wedged"}
    /\ clock = Outer
    /\ Answers(failure("tcp"))
    /\ UNCHANGED <<env, net, time, lost>>

\* The timeout of the worker's HTTP client.
gives_up ==
    /\ phase \notin {"send", "done"}
    /\ clock = Outer
    /\ Answers(failure("tcp"))
    /\ UNCHANGED <<env, net, time, lost>>

-----------------------------------------------------------------------------
(***************************************************************************)
(* The adapter                                                             *)
(***************************************************************************)

\* Go: "crypto/tls does not implement".
not_implemented ==
    /\ phase = "send"
    /\ ~Cli /\ kem_groups # << >> /\ curves = {}
    /\ Answers(build_response(FALSE, None, FALSE, FALSE))
    /\ UNCHANGED <<env, net, time, lost>>

\* "Cannot launch": the command cannot be started; "client failed": it cannot be
\* waited for.
launch_fails ==
    /\ Cli
    /\ phase \in {"spawn", "dial", "handshake", "http", "exit"}
    /\ lost' = TRUE
    /\ Answers(failure("tcp"))
    /\ UNCHANGED <<env, net, time>>

\* The command has its HTTP request on stdin; the timeout starts here.
launch ==
    /\ phase = "spawn"
    /\ phase' = "dial"
    /\ deadline' = clock + Timeout
    /\ UNCHANGED <<env, net, clock, dialled, lost, answer>>

\* Defect: every backend starts its timeout again once it is connected.
connected_anew ==
    /\ phase = "dial"
    /\ phase' = "handshake"
    /\ reached' = "tcp"
    /\ dialled' = clock
    /\ deadline' = clock + Timeout
    /\ UNCHANGED <<env, group, alerted, clock, lost, answer>>

\* The dialer of the Go adapter and its TLS connection have a timeout each.
connected ==
    /\ phase = "dial"
    /\ phase' = "handshake"
    /\ reached' = "tcp"
    /\ dialled' = clock
    /\ deadline' = IF Cli THEN deadline ELSE clock + Timeout
    /\ UNCHANGED <<env, group, alerted, clock, lost, answer>>

\* A command prints its story and exits; the Go adapter answers at once.
ClientEnds(r) == IF Cli THEN phase' = "exit" /\ UNCHANGED answer ELSE Answers(r)

\* Go: the dialer returned an error.
dial_failure == [handshake_success |-> FALSE, group |-> None, messages |-> <<"ClientHello">>,
                 http |-> FALSE, failed_stage |-> "tcp"]

\* No connection, or a command that does not take its arguments.
refused ==
    /\ phase = "dial"
    /\ ClientEnds(dial_failure)
    /\ UNCHANGED <<env, net, time, lost>>

\* Key exchanges of TLS 1.2 that use none of the groups on offer: the requests ask
\* for 1.3 and 1.2, and only openssl is told when it is 1.3 alone. external: which
\* clients still offer them; wolfSSL is run with 1.3, crypto/tls has ECDHE only.
Groupless ==
    CASE backend = "openssl" -> {None, DH}
      [] backend = "boringssl" -> {None}
      [] OTHER -> {}

\* The server chooses one of the groups on offer, or an older version and none.
negotiates(g) ==
    /\ phase = "handshake"
    /\ Offered \cap Known # {}
    /\ g \in (Offered \cap Known) \cup Groupless
    /\ phase' = "http"
    /\ reached' = "tls"
    /\ group' = g
    /\ UNCHANGED <<env, alerted, time, lost, answer>>

\* The server ends the handshake, with an alert or without.
rejects ==
    /\ phase = "handshake"
    /\ alerted' \in BOOLEAN
    /\ ClientEnds(build_response(FALSE, None, alerted', FALSE))
    /\ UNCHANGED <<env, reached, group, time, lost>>

\* The server answers the HTTP request, or closes the connection without one;
\* either way there may be an alert.
responds ==
    /\ phase = "http"
    /\ reached' \in {"tls", "http"}
    /\ alerted' \in BOOLEAN
    /\ ClientEnds(build_response(TRUE, group, FALSE, reached' = "http"))
    /\ UNCHANGED <<env, group, time, lost>>

\* parse_openssl, parse_boringssl and parse_wolfssl.
parse ==
    /\ phase = "exit"
    /\ \E out \in Outputs :
          Answers(build_response(handshake_success(out), negotiated_group(out),
                                 parse_alert(out), parse_http(out)))
    /\ UNCHANGED <<env, net, time, lost>>

\* What the command printed is dropped with it.
cli_times_out ==
    /\ Cli
    /\ phase \in {"dial", "handshake", "http"}
    /\ clock = deadline
    /\ Answers(failure("tls_handshake"))
    /\ UNCHANGED <<env, net, time, lost>>

\* In Go the call that waits returns an error. What was read of an HTTP answer
\* that is not complete is used.
go_times_out ==
    /\ ~Cli
    /\ clock = deadline
    /\ \/ phase = "dial" /\ refused
       \/ /\ phase = "handshake"
          /\ Answers(build_response(FALSE, None, FALSE, FALSE))
          /\ UNCHANGED <<env, net, time, lost>>
       \/ /\ phase = "http"
          /\ reached' \in {"tls", "http"}
          /\ Answers(build_response(TRUE, group, FALSE, reached' = "http"))
          /\ UNCHANGED <<env, group, alerted, time, lost>>

\* Time passes while somebody waits, but not beyond a timeout that is due.
Tick ==
    /\ phase \in {"dial", "handshake", "http", "wedged"}
    /\ clock < Outer
    /\ phase # "wedged" => clock < deadline
    /\ clock' = clock + 1
    /\ UNCHANGED <<env, phase, net, deadline, dialled, lost, answer>>

-----------------------------------------------------------------------------

Next ==
    \/ unreachable
    \/ post
    \/ adapter_dies
    \/ wedges
    \/ gives_up
    \/ not_implemented
    \/ launch_fails
    \/ launch
    \/ connected
    \/ refused
    \/ \E g \in KeyExchange : negotiates(g)
    \/ rejects
    \/ responds
    \/ parse
    \/ cli_times_out
    \/ go_times_out
    \/ Tick

Spec == Init /\ [][Next]_vars

\* Processes go on, time passes and timers fire; the server need not answer.
Fairness ==
    /\ WF_vars(post \/ not_implemented)
    /\ WF_vars(launch)
    /\ WF_vars(parse)
    /\ WF_vars(cli_times_out \/ go_times_out)
    /\ WF_vars(gives_up)
    /\ WF_vars(Tick)

-----------------------------------------------------------------------------
(***************************************************************************)
(* Properties                                                              *)
(***************************************************************************)

Kinds == {"ClientHello", "ServerHello", "Alert"}

TypeOK ==
    /\ backend \in Backend
    /\ kem_groups \in Seq(Group)
    /\ phase \in {"send", "spawn", "dial", "handshake", "http", "exit", "wedged", "done"}
    /\ reached \in {"none", "tcp", "tls", "http"}
    /\ group \in KeyExchange
    /\ alerted \in BOOLEAN
    /\ clock \in Nat
    /\ deadline \in Nat
    /\ dialled \in Nat
    /\ lost \in BOOLEAN
    /\ answer \in [handshake_success : BOOLEAN, group : KeyExchange,
                   messages : Seq(Kinds), http : BOOLEAN, failed_stage : Stage \cup {"none"}]
    /\ (phase = "done") <=> (answer.failed_stage # "none")

\* A green cell is green: success is only read out of the output of a handshake
\* that was completed, and the group is its group or missing, never a placeholder,
\* a mechanism or the curve beside a KEM ("treating that as success once made
\* every failing subtask show up green").
NoFalseGreen ==
    answer.handshake_success => HandshakeDone /\ answer.group \in {group, None}

\* The groups of a reported handshake are those that were asked for: the
\* adapters pin the group, or refuse, and never fall back to what their stack
\* prefers. The code has two exceptions: wolfSSL with a classical group, and a
\* server that makes openssl or bssl fall back to TLS 1.2 without a group.
PinnedGroup ==
    (/\ answer.handshake_success
     /\ kem_groups # << >>
     /\ backend = "wolfssl" => pqc) => group \in Listed \cup Groupless

\* "Must not turn a working key exchange into a red cell": a handshake that
\* was completed is reported as failed only if the adapter was lost or a
\* timeout passed before the probe was over; late alerts do no harm.
RedOnlyByTimeout ==
    (phase = "done" /\ HandshakeDone /\ ~answer.handshake_success) =>
        lost \/ clock >= Timeout \/ clock >= Outer

\* "The adapter itself enforces the per-handshake timeout; this is the outer
\* bound that covers a wedged container": the worker gives up on an adapter that
\* works only if its timeout is not the larger one, or, since the Go adapter
\* waits twice, if that one spent the difference connecting.
OuterBoundForWedged ==
    (phase \notin {"send", "done"} /\ clock = Outer /\ ~lost) =>
        \/ Timeout >= Outer
        \/ ~Cli /\ dialled + Timeout >= Outer

\* What OuterBoundForWedged rests on: nobody waits longer than its timeout.
TimersHold ==
    /\ phase \in {"send", "spawn"} => clock = 0 /\ dialled = 0
    /\ phase \notin {"send", "done"} => deadline = IF Cli THEN Timeout ELSE dialled + Timeout
    /\ (phase \notin {"send", "done", "wedged"}) => clock <= deadline
    /\ clock <= Outer
    /\ phase = "wedged" => lost

=============================================================================
