----------------------------- MODULE DnsMessages -----------------------------
(***************************************************************************)
(* The messages of the DNS clients, as async_dns_client_noblock.c and          *)
(* sync_dns_client.c build and read them, and the synchronous client, which asks *)
(* for one name after the other on a socket each and waits for the answer without *)
(* a timeout.  Messages are sequences of bytes, read as if zeros followed (the    *)
(* buffer is cleared first); a pointer is kept modulo PtrBase, 256 in the code.   *)
(* The name server (external) compresses names or not, and its answers may get    *)
(* lost.                                                                        *)
(***************************************************************************)
EXTENDS Integers, Sequences, SequencesExt, FiniteSetsExt

CONSTANTS
  Hosts,        \* host names asked for, as bytes
  Answers,      \* sequences of [type, form], what the server puts into an answer
  PtrBase, MaxQueries

VARIABLES
  query,        \* the queries sent so far
  at,           \* "commit", "recv", or "lost": in recvfrom for ever
  host, request,
  answers,      \* what the last answer consisted of
  found         \* what dns_parse_response made of it: domain and address, for each
vars == <<query, at, host, request, answers, found>>

DOT == 46
DNS_HOST == 1
DNS_CNAME == 5
NS == 2          \* a type the client does not know
Flat(s) == FoldLeft(LAMBDA all, x : all \o x, <<>>, s)

-----------------------------------------------------------------------------
\* dns_create_question.  strtok skips empty labels, while the length counts their
\* dots: what follows the name then is what malloc left there.
Labels(name) ==
  LET step(done, c) == IF c = DOT THEN Append(done, <<>>)
                       ELSE Append(Front(done), Append(Last(done), c))
  IN SelectSeq(FoldLeft(step, <<<<>>>>, name), LAMBDA label : label # <<>>)
GARBAGE == -1
dns_create_question(name) ==
  LET qname == Flat([i \in DOMAIN Labels(name) |->
                       <<Len(Labels(name)[i])>> \o Labels(name)[i]]) \o <<0>>
      length == Len(name) + 2
  IN [i \in 1..length |-> IF i <= Len(qname) THEN qname[i] ELSE GARBAGE]

\* dns_create_header and dns_build_request: an id, flags, one question, its type and class.
dns_build_request(qname) ==
  <<7, 7, 1, 0, 0, 1, 0, 0, 0, 0, 0, 0>> \o qname \o <<0, 1, 0, 1>>

-----------------------------------------------------------------------------
\* dns_parse_response; offsets count from 0 as in C.
Byte(b, p) == IF p < Len(b) THEN b[p + 1] ELSE 0
Short(b, p) == 256 * Byte(b, p) + Byte(b, p + 1)
is_pointer(flag) == flag >= 192

RECURSIVE dns_parse_name(_, _)
dns_parse_name(b, p) ==
  LET flag == Byte(b, p)
      next == p + 1 + flag
  IN IF flag = 0 THEN <<>>
     ELSE IF is_pointer(flag) THEN dns_parse_name(b, Byte(b, p + 1))
     ELSE [i \in 1..flag |-> Byte(b, p + i)]
            \o (IF Byte(b, next) # 0 THEN <<DOT>> ELSE <<>>)
            \o dns_parse_name(b, next)

RECURSIVE PastName(_, _)
PastName(b, p) == IF Byte(b, p) = 0 THEN p + 1 ELSE PastName(b, p + 1 + Byte(b, p))

\* An answer's name is taken for a pointer of two bytes, its data is skipped only for
\* the two types that are known.
RECURSIVE Items(_, _, _)
Items(b, p, n) ==
  LET type == Short(b, p + 2)
      datalen == Short(b, p + 10)
      data == p + 12
      item == [domain |-> dns_parse_name(b, p),
               ip |-> [i \in 1..4 |-> Byte(b, data + i - 1)]]
  IN IF n = 0 THEN <<>>
     ELSE (IF type = DNS_HOST /\ datalen = 4 THEN <<item>> ELSE <<>>)
            \o Items(b, IF type \in {DNS_HOST, DNS_CNAME} THEN data + datalen ELSE data, n - 1)

dns_parse_response(b) ==
  LET skip[q \in Nat] == IF q = 0 THEN 12 ELSE PastName(b, skip[q - 1]) + 4
  IN Items(b, skip[Short(b, 4)], Short(b, 6))

-----------------------------------------------------------------------------
\* The server: the question again, and its answers.  An answer is about the name asked
\* for, or about the last CNAME before it; "pointer" is how servers compress that, "full"
\* is not.  A CNAME puts a label before the name asked for.
Alias == <<120>>
Pointer(offset) == <<192 + offset \div PtrBase, offset % PtrBase>>
QName(question) == SubSeq(question, 13, Len(question) - 4)
Response(question, list) ==
  LET start == [SubSeq(question, 1, 12) EXCEPT ![8] = Len(list)]
                 \o SubSeq(question, 13, Len(question))
      record(b, about, answer, k) ==
        (IF answer.form = "pointer" THEN Pointer(about)
         ELSE (IF about = 12 THEN <<>> ELSE <<1>> \o Alias) \o QName(question))
        \o <<0, answer.type, 0, 1, 0, 0, 1, 44>>
        \o (CASE answer.type = DNS_HOST -> <<0, 4, 10, 0, 0, k>>
              [] answer.type = DNS_CNAME -> <<0, 4, 1>> \o Alias \o Pointer(12)
              [] OTHER -> <<0, 2>> \o Pointer(12))
      add(state, answer) ==
        LET b == state.bytes \o record(state.bytes, state.about, answer, state.k)
        IN [bytes |-> b, k |-> state.k + 1,
            about |-> IF answer.type = DNS_CNAME THEN Len(b) - 4 ELSE state.about,
            far |-> state.far \/ (answer.form = "pointer" /\ state.about >= PtrBase)]
  IN FoldLeft(add, [bytes |-> start, k |-> 1, about |-> 12, far |-> FALSE], list)

-----------------------------------------------------------------------------
Init == /\ query = 0 /\ at = "commit" /\ host = <<>> /\ request = <<>>
        /\ answers = <<>> /\ found = <<>>

\* dns_client_commit: socket, connect and sendto.  The socket is not closed.
Commit(name) == /\ at = "commit" /\ query < MaxQueries
                /\ query' = query + 1 /\ at' = "recv" /\ host' = name
                /\ request' = dns_build_request(dns_create_question(name))
                /\ answers' = <<>> /\ found' = <<>>

\* Answers the client can read: a pointer for a name, types that it knows, and
\* pointers that fit into a byte.
Plain(list) == /\ \A i \in DOMAIN list : list[i].form = "pointer"
               /\ \A i \in DOMAIN list \ {Len(list)} : list[i].type # NS
               /\ ~Response(request, list).far
WellFormed == \A i \in DOMAIN request : request[i] # GARBAGE

\* recvfrom and dns_parse_response: what it makes of other answers is not followed.  The
\* server does not answer a malformed question.
Recv(list) == /\ at = "recv" /\ at' = "commit"
              /\ WellFormed
              /\ answers' = list
              /\ found' = IF Plain(list) THEN dns_parse_response(Response(request, list).bytes)
                          ELSE <<>>
              /\ UNCHANGED <<query, host, request>>
\* The server is not reachable: recvfrom fails, and the cleared buffer is read.
Refused == /\ at = "recv" /\ at' = "commit"
           /\ found' = dns_parse_response(<<>>)
           /\ UNCHANGED <<query, host, request, answers>>
Lost == /\ at = "recv" /\ at' = "lost"
        /\ UNCHANGED <<query, host, request, answers, found>>

Next == \/ \E name \in Hosts : Commit(name)
        \/ \E list \in Answers : Recv(list)
        \/ Refused \/ Lost

-----------------------------------------------------------------------------
\* Type invariant.
TypeOK == /\ query \in 0..MaxQueries /\ at \in {"commit", "recv", "lost"}
          /\ request \in Seq(-1..255) /\ answers \in Answers \union {<<>>}
          /\ found \in Seq([domain : Seq(0..255), ip : Seq(0..255)])

\* dns_create_question: the question is the name in the form of RFC 1035 and ends with
\* it, for a name without empty labels.
QuestionRight ==
  LET empty == \E i \in DOMAIN host : host[i] = DOT /\ (i = 1 \/ i = Len(host) \/ host[i - 1] = DOT)
      end == PastName(request, 12)
  IN request # <<>> =>
       /\ ~empty => /\ WellFormed /\ end + 4 = Len(request)
                    /\ dns_parse_name(request, 12) = host
       /\ empty => ~WellFormed

\* dns_parse_response: the addresses of the answer, each with the name it is for, the
\* one asked for or the alias that was named before it.
ResponseRead ==
  LET hosts == {i \in DOMAIN answers : answers[i].type = DNS_HOST}
      aliased(i) == \E j \in 1..i - 1 : answers[j].type = DNS_CNAME
      right(i) == [domain |-> (IF aliased(i) THEN Alias \o <<DOT>> ELSE <<>>) \o host,
                   ip |-> <<10, 0, 0, i>>]
  IN answers # <<>> /\ Plain(answers) => found = [n \in 1..Cardinality(hosts) |->
                 right(CHOOSE i \in hosts : Cardinality({j \in hosts : j <= i}) = n)]
=============================================================================
