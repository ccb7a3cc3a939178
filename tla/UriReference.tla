----------------------------- MODULE UriReference -----------------------------
(***************************************************************************)
(* Which texts the client takes for the type of a problem another          *)
(* framework reports (wire/problem.rs): is_valid_uri_reference, next to    *)
(* the grammar of RFC 3986 it stands for.  Texts are sequences of          *)
(* characters, and are typed one character at a time.                      *)
(***************************************************************************)
EXTENDS Naturals, Sequences, SequencesExt

CONSTANTS Characters,  \* the characters of the texts
          Beginnings,  \* texts to begin with
          MaxTyped     \* bound on the characters that follow

VARIABLES text, typed

vars == <<text, typed>>

Init == text \in Beginnings /\ typed = 0

Type(c) ==
  /\ typed < MaxTyped
  /\ text' = Append(text, c)
  /\ typed' = typed + 1

Next == \E c \in Characters : Type(c)

Spec == Init /\ [][Next]_vars

-----------------------------------------------------------------------------
(***************************************************************************)
(* Characters                                                              *)
(***************************************************************************)

Digits == {"0", "1"}
HexDigits == Digits \cup {"a"}
Letters == {"a", "v", "g"}
IsUnreserved == Letters \cup Digits \cup {"-", ".", "_", "~"}
IsSubDelim == {"!", "$", "&", "'", "(", ")", "*", "+", ",", ";", "="}
IsPchar == IsUnreserved \cup IsSubDelim \cup {":", "@"}
IsQueryChar == IsPchar \cup {"/", "?"}
IsUserinfoChar == IsUnreserved \cup IsSubDelim \cup {":"}
IsRegNameChar == IsUnreserved \cup IsSubDelim

-----------------------------------------------------------------------------
(***************************************************************************)
(* The code                                                                *)
(***************************************************************************)

Find(s, c) == SelectInSeq(s, LAMBDA d : d = c)          \* 0 when it is not there
FindLast(s, c) == SelectLastInSeq(s, LAMBDA d : d = c)
Upto(s, i) == SubSeq(s, 1, i - 1)
Beyond(s, i) == SubSeq(s, i + 1, Len(s))
Has(s, c) == Find(s, c) # 0
All(s, chars) == \A i \in DOMAIN s : s[i] \in chars
StartsWith(s, p) == Len(s) >= Len(p) /\ SubSeq(s, 1, Len(p)) = p

\* valid_uri_component: the loop over the bytes.
ValidUriComponent(s, allowed) ==
  LET valid[i \in 1 .. Len(s) + 1] ==
        \/ i > Len(s)
        \/ /\ i <= Len(s) /\ s[i] = "%"
           /\ i + 2 <= Len(s) /\ {s[i + 1], s[i + 2]} \subseteq HexDigits /\ valid[i + 3]
        \/ i <= Len(s) /\ s[i] # "%" /\ s[i] \in allowed /\ valid[i + 1]
  IN valid[1]

\* The segments of a path but the first.
FirstSegment(s) == IF Has(s, "/") THEN Upto(s, Find(s, "/")) ELSE s
LaterSegments(s) ==
  {Upto(Beyond(s, i), CHOOSE j \in 1 .. Len(s) - i + 1 :
                        /\ j = Len(s) - i + 1 \/ s[i + j] = "/"
                        /\ \A k \in 1 .. j - 1 : s[i + k] # "/") :
     i \in {i \in DOMAIN s : s[i] = "/"}}

IsValidAbemptyPath(s) ==
  LET path == IF StartsWith(s, <<"/">>) THEN Beyond(s, 1) ELSE <<>> IN
  /\ s = <<>> \/ StartsWith(s, <<"/">>)
  /\ \A segment \in {FirstSegment(path)} \cup LaterSegments(path) : ValidUriComponent(segment, IsPchar)

IsValidAbsolutePath(s) ==
  LET path == Beyond(s, 1) IN
  /\ StartsWith(s, <<"/">>)
  /\ \/ path = <<>>
     \/ /\ FirstSegment(path) # <<>>
        /\ ValidUriComponent(FirstSegment(path), IsPchar)
        /\ \A segment \in LaterSegments(path) : ValidUriComponent(segment, IsPchar)

IsValidRootlessPath(s, allowsColon) ==
  /\ FirstSegment(s) # <<>>
  /\ ValidUriComponent(FirstSegment(s), IF allowsColon THEN IsPchar ELSE IsPchar \ {":"})
  /\ \A segment \in LaterSegments(s) : ValidUriComponent(segment, IsPchar)

\* What std's Ipv6Addr accepts of texts this short: one "::" and groups around it.
IsIpv6(s) ==
  LET Groups(t) == \/ t = <<>>
                   \/ /\ All(t, HexDigits \cup {":"})
                      /\ t[1] # ":" /\ t[Len(t)] # ":"
                      /\ \A i \in 1 .. Len(t) - 1 : ~(t[i] = ":" /\ t[i + 1] = ":")
  IN \E i \in 1 .. Len(s) - 1 :
       s[i] = ":" /\ s[i + 1] = ":" /\ Groups(Upto(s, i)) /\ Groups(Beyond(s, i + 1))

IsValidIpvFuture(s) ==
  LET rest == Beyond(s, 1)
      dot == Find(rest, ".")
  IN /\ StartsWith(s, <<"v">>)
     /\ dot # 0
     /\ Upto(rest, dot) # <<>> /\ All(Upto(rest, dot), HexDigits)
     /\ Beyond(rest, dot) # <<>> /\ All(Beyond(rest, dot), IsUserinfoChar)

IsValidIpLiteral(s) == IsIpv6(s) \/ IsValidIpvFuture(s)

IsValidAuthority(s) ==
  LET at == FindLast(s, "@")
      userinfo == Upto(s, at)
      hostAndPort == Beyond(s, at)
      ipLiteral == Beyond(hostAndPort, 1)
      closing == Find(ipLiteral, "]")
      suffix == Beyond(ipLiteral, closing)
      colon == FindLast(hostAndPort, ":")
      host == IF colon = 0 THEN hostAndPort ELSE Upto(hostAndPort, colon)
      port == IF colon = 0 THEN <<>> ELSE Beyond(hostAndPort, colon)
  IN /\ at # 0 => ~Has(userinfo, "@") /\ ValidUriComponent(userinfo, IsUserinfoChar)
     /\ IF StartsWith(hostAndPort, <<"[">>)
          THEN /\ closing # 0
               /\ IsValidIpLiteral(Upto(ipLiteral, closing))
               /\ suffix = <<>> \/ (suffix[1] = ":" /\ All(Beyond(suffix, 1), Digits))
          ELSE /\ ~Has(hostAndPort, "[") /\ ~Has(hostAndPort, "]")
               /\ ~Has(host, ":")
               /\ ValidUriComponent(host, IsRegNameChar)
               /\ All(port, Digits)

IsValidAuthorityAndPath(s) ==
  LET slash == Find(s, "/") IN
  IF slash = 0 THEN IsValidAuthority(s) /\ IsValidAbemptyPath(<<>>)
  ELSE IsValidAuthority(Upto(s, slash)) /\ IsValidAbemptyPath(SubSeq(s, slash, Len(s)))

IsValidHierPart(s) ==
  CASE StartsWith(s, <<"/", "/">>) -> IsValidAuthorityAndPath(SubSeq(s, 3, Len(s)))
    [] ~StartsWith(s, <<"/", "/">>) /\ StartsWith(s, <<"/">>) -> IsValidAbsolutePath(s)
    [] OTHER -> s = <<>> \/ IsValidRootlessPath(s, TRUE)

\* The first segment as it is after a scheme.
IsValidRelativePartColon(s) == IsValidHierPart(s)

IsValidRelativePart(s) ==
  CASE StartsWith(s, <<"/", "/">>) -> IsValidAuthorityAndPath(SubSeq(s, 3, Len(s)))
    [] ~StartsWith(s, <<"/", "/">>) /\ StartsWith(s, <<"/">>) -> IsValidAbsolutePath(s)
    [] OTHER -> s = <<>> \/ IsValidRootlessPath(s, FALSE)

IsValidScheme(s) ==
  s # <<>> /\ s[1] \in Letters /\ All(s, Letters \cup Digits \cup {"+", "-", "."})

IsValidUriReference(s) ==
  LET hash == Find(s, "#")
      withoutFragment == IF hash = 0 THEN s ELSE Upto(s, hash)
      fragment == IF hash = 0 THEN <<>> ELSE Beyond(s, hash)
      mark == Find(withoutFragment, "?")
      main == IF mark = 0 THEN withoutFragment ELSE Upto(withoutFragment, mark)
      query == IF mark = 0 THEN <<>> ELSE Beyond(withoutFragment, mark)
      slash == IF Has(main, "/") THEN Find(main, "/") ELSE Len(main) + 1
      colon == Find(main, ":")
  IN /\ ~Has(fragment, "#")
     /\ ValidUriComponent(fragment, IsQueryChar)
     /\ ValidUriComponent(query, IsQueryChar)
     /\ IF colon # 0 /\ colon < slash /\ IsValidScheme(Upto(main, colon))
          THEN IsValidHierPart(Beyond(main, colon))
          ELSE IsValidRelativePart(main)

-----------------------------------------------------------------------------
(***************************************************************************)
(* The grammar (RFC 3986, appendix A): a text belongs to a rule when it    *)
(* can be cut into parts that belong to the rule's parts.                  *)
(***************************************************************************)

Part(s, i, j) == SubSeq(s, i, j - 1)
Cuts(s) == 1 .. Len(s) + 1

\* *( one of the characters / pct-encoded )
Many(s, chars) ==
  \A i \in DOMAIN s :
    \/ s[i] \in chars
    \/ \E p \in {i, i - 1, i - 2} :
         /\ p >= 1 /\ p + 2 <= Len(s) /\ s[p] = "%"
         /\ s[p + 1] \in HexDigits /\ s[p + 2] \in HexDigits

\* Characters of the last group may be slashes: *( "/" segment )
PathAbempty(s) == s = <<>> \/ (s[1] = "/" /\ Many(s, IsPchar \cup {"/"}))
PathAbsolute(s) == s # <<>> /\ PathAbempty(s) /\ ~(Len(s) > 1 /\ s[2] = "/")
PathRootless(s) == s # <<>> /\ s[1] # "/" /\ Many(s, IsPchar \cup {"/"})
PathNoscheme(s) == \E i \in Cuts(s) : /\ i > 1 /\ Many(Part(s, 1, i), IsPchar \ {":"})
                                      /\ PathAbempty(SubSeq(s, i, Len(s)))

Host(s) ==
  \/ Many(s, IsRegNameChar)
  \/ /\ Len(s) > 2 /\ s[1] = "[" /\ s[Len(s)] = "]"
     /\ LET inner == SubSeq(s, 2, Len(s) - 1) IN
        \/ IsIpv6(inner)
        \/ \E i \in Cuts(inner) :
             /\ i > 2 /\ i < Len(inner) /\ inner[1] = "v" /\ inner[i] = "."
             /\ All(Part(inner, 2, i), HexDigits)
             /\ All(Beyond(inner, i), IsUserinfoChar)

HostPort(s) == \/ Host(s)
               \/ \E i \in DOMAIN s : s[i] = ":" /\ Host(Upto(s, i)) /\ All(Beyond(s, i), Digits)

Authority(s) == \/ HostPort(s)
                \/ \E i \in DOMAIN s : /\ s[i] = "@" /\ Many(Upto(s, i), IsUserinfoChar)
                                       /\ HostPort(Beyond(s, i))

AuthorityPath(s) == /\ Len(s) >= 2 /\ s[1] = "/" /\ s[2] = "/"
                    /\ \E i \in Cuts(s) : /\ i > 2 /\ Authority(Part(s, 3, i))
                                          /\ PathAbempty(SubSeq(s, i, Len(s)))

HierPart(s) == AuthorityPath(s) \/ PathAbsolute(s) \/ PathRootless(s) \/ s = <<>>
RelativePart(s) == AuthorityPath(s) \/ PathAbsolute(s) \/ PathNoscheme(s) \/ s = <<>>

Scheme(s) == s # <<>> /\ s[1] \in Letters /\ All(s, Letters \cup Digits \cup {"+", "-", "."})

\* URI / relative-ref, before the query and the fragment.
Main(s) == \/ RelativePart(s)
           \/ \E i \in DOMAIN s : s[i] = ":" /\ Scheme(Upto(s, i)) /\ HierPart(Beyond(s, i))

WithQuery(s) == \/ Main(s)
                \/ \E i \in DOMAIN s : s[i] = "?" /\ Main(Upto(s, i)) /\ Many(Beyond(s, i), IsQueryChar)

UriReference(s) ==
  \/ WithQuery(s)
  \/ \E i \in DOMAIN s : s[i] = "#" /\ WithQuery(Upto(s, i)) /\ Many(Beyond(s, i), IsQueryChar)

\* The client takes exactly the URI references of RFC 3986 for problem types, so
\* that it neither calls a valid problem of another framework corrupt nor accepts a
\* type that is none.
AcceptsUriReferences == IsValidUriReference(text) <=> UriReference(text)
=============================================================================
