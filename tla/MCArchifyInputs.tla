-------------------------- MODULE MCArchifyInputs --------------------------
(***************************************************************************)
(* The small instances of the Archify parts: command lines, pages to       *)
(* compare, directories, documents, checkouts and drawings.                *)
(***************************************************************************)
EXTENDS Integers, Sequences, FiniteSets, TLC

Upto(n, S) == UNION {[1..k -> S] : k \in 0..n}

(* Preview: two spellings of one diagram, another one, and a broken file. *)
MCSources == {"a", "a2", "b", "bad", "gone"}
MCArt == [s \in MCSources |-> CASE s \in {"a", "a2"} -> "A" [] s = "b" -> "B" [] OTHER -> "none"]

(* Command lines: up to three words of any kind, then a well-formed start and more. *)
Word(v) == [option |-> "", value |-> v]
Flag(o) == [option |-> o, value |-> "none"]
Set(o, v) == [option |-> o, value |-> v]
Words == {Word("architecture"), Word("sequence"), Word("f.json"), Flag("--json"),
          Flag("--layout-json"), Flag("--quality"), Word("showcase"), Flag("--repo-root"),
          Flag("--x")}
MoreWords == Words \cup {Word("workflow"), Word("2"), Flag("--to-schema"), Flag("--receipt"),
                         Flag("--open"), Set("--quality", "standard"), Set("--quality", ""),
                         Set("--quality", "weird"), Set("--repo-root", "dir")}
Named == {"render", "validate", "inspect", "check", "deliver", "preview", "compare",
          "migrate", "visualcheck"}
MCLines ==
    [command : Named, args : Upto(3, Words)]
    \cup {[command |-> c, args |-> <<Word("architecture"), Word("f.json")>> \o a] :
            c \in {"validate", "deliver", "compare"}, a \in Upto(2, MoreWords)}
    \cup {[command |-> "migrate", args |-> <<Word("workflow"), Word("f.json")>> \o a] :
            a \in [1..3 -> {Flag("--to-schema"), Word("2"), Flag("--json"), Flag("--quality"),
                            Set("--quality", ""), Word("f.json"), Flag("--x")}]}

(* Delta: pairs that differ in one element, and pairs that differ in all four. *)
Gone == [absent |-> TRUE]
Component(f, s, p) == [face |-> f, sources |-> s, place |-> p]
Connection(e, l, v, r) == [ends |-> e, label |-> l, variant |-> v, route |-> r]
Plain == [a |-> Component(0, 0, 0), s |-> Component(0, 0, 0), e |-> Connection(0, 1, 0, 0),
          b |-> [wraps |-> 0, pad |-> 0]]
Forms == [a |-> {Gone} \cup [face : 0..1, sources : 0..1, place : 0..1],
          e |-> {Gone} \cup [ends : 0..1, label : 0..2, variant : 0..1, route : 0..1],
          b |-> {Gone} \cup [wraps : 0..1, pad : 0..1]]
MCPairs ==
    UNION {{[base |-> [Plain EXCEPT ![id] = v], head |-> [Plain EXCEPT ![id] = w]] :
              v \in Forms[id], w \in Forms[id]} : id \in {"a", "e", "b"}}
    \cup [base : {Plain},
          head : [a : {Gone, Component(1, 0, 1)}, s : {Plain.s, Component(1, 0, 1), Gone},
                  e : {Gone, Plain.e, Connection(1, 0, 0, 1)},
                  b : {Gone, [wraps |-> 0, pad |-> 1]}]]

(* Output paths: one directory w with an input, a page that may be a link to *)
(* anything, a subdirectory that may be a link, and a directory e outside.   *)
lower == ("w" :> "w") @@ ("e" :> "e") @@ ("d" :> "d") @@ ("D" :> "d")
         @@ ("in.json" :> "in.json") @@ ("IN.json" :> "in.json")
         @@ ("o.html" :> "o.html") @@ ("O.html" :> "o.html") @@ ("r.json" :> "r.json")
Link(p) == [kind |-> "link", to |-> p]
File(i) == [kind |-> "file", ino |-> i]
Dir(names) == [kind |-> "dir", names |-> names]
Missing == [kind |-> "none"]
Input == <<"w", "in.json">>
Pages == {Missing, File(2), File(1), Link(Input), Link(<<"w", "d", "o.html">>),
          Link(<<"w", "o.html">>), Link(<<"e", "o.html">>)}
Subs == {Missing, Dir(<<>>), Link(<<"w">>), Link(<<"e">>), File(2)}
Entry(name, node) == IF node = Missing THEN <<>> ELSE name :> node
World(page, other, sub, fold, blind) ==
    [root |-> Dir("e" :> Dir(<<>>)
                  @@ "w" :> Dir(("in.json" :> File(1)) @@ Entry("o.html", page)
                                @@ Entry("O.html", other) @@ Entry("d", sub))),
     fold |-> fold, blind |-> blind, content |-> <<"input", "old">>]
Worlds ==
    {World(p, o, d, FALSE, b) :
        p \in Pages, o \in {Missing, Link(Input)}, d \in Subs, b \in BOOLEAN}
    \cup {World(p, Missing, d, TRUE, b) : p \in Pages, d \in Subs, b \in BOOLEAN}
Targets == {<<"w", "o.html">>, <<"w", "O.html">>, <<"w", "d", "o.html">>,
            <<"w", "D", "O.html">>, <<"e", "o.html">>, Input}
Requests ==
    {q \in {[via |-> v, absolute |-> (v = "meta" /\ o[1] = "e"), cwd |-> <<"w">>, out |-> o,
             receipt |-> r, inputs |-> {i}, rename |-> m] :
              v \in {"cli", "meta", "default"}, o \in Targets,
              r \in {<<>>, <<"w", "r.json">>, <<"w", "d", "IN.json">>},
              i \in {Input, <<"w", "d", "in.json">>}, m \in BOOLEAN} :
        (q.via = "default" => q.out = <<"w", "o.html">>) /\ (q.receipt # <<>> => q.rename)}
Disturbances == {[at |-> <<"w", "d">>, node |-> Link(<<"w">>)],
                 [at |-> <<"w", "o.html">>, node |-> Link(Input)],
                 [at |-> <<"w", "D">>, node |-> Dir(<<>>)]}

(* Ownership: two components, two regions and a security group around them. *)
Part(type, tag) == [type |-> type, tag |-> tag]
Bound(kind, wraps) == [kind |-> kind, wraps |-> wraps]
Between(id, from, to, label) == [id |-> id, from |-> from, to |-> to, label |-> label]
Both == SUBSET {"a", "b"}
Crossings == {<<>>, <<Between("e", "a", "b", "")>>, <<Between("e", "a", "b", "http")>>,
              <<Between("", "a", "b", "x"), Between("e", "b", "a", "x")>>,
              <<Between("e", "a", "b", "x"), Between("e", "b", "a", "x")>>}
MCDocuments ==
    {[components |-> ("a" :> Part(t, "o")) @@ ("b" :> Part(u, g)), boundaries |-> b,
      connections |-> n, views |-> <<>>, profile |-> "deployment-ownership"] :
        t \in {"backend", "external"}, u \in {"database", "backend"}, g \in {"", "o"},
        b \in {<<Bound("region", r), Bound("region", q), Bound("security-group", s)>> :
                 r \in Both, q \in Both, s \in Both}
              \cup {<<Bound("region", r), Bound("security-group", s)>> : r \in Both, s \in Both}
              \cup {<<Bound("region", {"a", "b"})>>},
        n \in Crossings}
    \cup {[components |-> "a" :> Part("backend", ""), boundaries |-> <<>>, connections |-> n,
           views |-> v, profile |-> p] :
        n \in {m \in Crossings : Len(m) # 1}, p \in {"", "deployment-ownership"},
        v \in {<<>>} \cup {<<[id |-> "v", focus |-> f]>> : f \in Upto(2, {"a", "zz"})}
              \cup {<<[id |-> "v", focus |-> <<"a">>], [id |-> w, focus |-> <<"a">>]>> :
                      w \in {"v", "w"}}}

(* Evidence: spellings of one address, lines of small files, paths of a commit. *)
Address(form, user, host, port, lead, upper, dotgit) ==
    [form |-> form, user |-> IF form \in {"ssh", "scp"} THEN "git" ELSE user, host |-> host,
     port |-> IF form = "scp" THEN 0 ELSE port, lead |-> lead /\ form = "scp",
     name |-> "org/r", upper |-> upper, dotgit |-> dotgit]
Addresses == {Address(f, u, h, p, l, up, dg) :
    f \in {"https", "http", "ssh", "scp"}, u \in {"", "me"},
    h \in {"github", "gitee", "forge"}, p \in {0, 443, 8443}, l \in BOOLEAN,
    up \in BOOLEAN, dg \in BOOLEAN}
Home == Address("https", "", "github", 0, FALSE, FALSE, FALSE)
Source(path, line, last) == [path |-> path, line |-> line, endLine |-> last]
NoRepository == [none |-> TRUE]
Repository(url, revision, link) == [url |-> url, revision |-> revision, link |-> link]
Claim(repository, sources) == [repository |-> repository, sources |-> sources]
AddressClaims == {Claim(Repository(u, "sha", k), <<Source(<<"a">>, 1, 0)>>) :
    u \in {w \in Addresses : w.port # 443}, k \in {"web", "local"}}
ContentClaims ==
    {Claim(Repository(Home, "sha", "web"), <<Source(<<"a">>, l, e)>>) : l \in 0..5, e \in 0..5}
    \cup {Claim(r, s) :
        r \in {Repository(Home, v, "web") : v \in {"sha", "old", "short", "gone"}}
              \cup {NoRepository},
        s \in {<<>>} \cup {<<Source(<<"a">>, 1, 0), Source(p, l, 0)>> :
                p \in {<<"a">>, <<"b", "a">>, <<"">>, <<"", "a">>, <<"b", "..", "a">>,
                       <<".git", "a">>, <<"zz">>},
                l \in 0..2}}
Holding(text, origin) ==
    [given |-> TRUE, top |-> TRUE, origin |-> origin,
     commits |-> ("sha" :> ((<<"a">> :> text) @@ (<<"b", "a">> :> <<"x">>)))
                 @@ ("old" :> (<<"b", "a">> :> <<"x">>))]
Remotes == {Holding(<<"x">>, u) : u \in Addresses}
Contents == {Holding(t, Home) : t \in Upto(4, {"x", "CR", "LF"})}
            \cup {[Holding(<<"x">>, Home) EXCEPT !.given = FALSE],
                  [Holding(<<"x">>, Home) EXCEPT !.top = FALSE]}
MCClaims == AddressClaims \cup ContentClaims
MCCheckouts == Remotes \cup Contents

(* Drawings, in the quarter pixels of Geometry. *)
Px == 4
Box(x, y, w, h) == [x |-> x * Px, y |-> y * Px, width |-> w * Px, height |-> h * Px]
Usual(x, y) == Box(x, y, 120, 60)
At(x, y) == <<x * Px, y * Px>>
Arrow(from, to) == [from |-> from, to |-> to, fromSide |-> "auto", toSide |-> "auto",
                    route |-> "auto", via |-> <<>>, width |-> 0, segment |-> 2]
Drawing(boxes, connections) ==
    [boxes |-> boxes, boundaries |-> <<>>, connections |-> connections,
     profile |-> "showcase", nested |-> FALSE, merges |-> FALSE]
SideNames == {"auto", "left", "right", "top", "bottom"}
\* one arrow between two boxes, on every pair of sides
Single == {Drawing([a |-> Usual(0, 0), b |-> Usual(p[1], p[2])],
                   <<[Arrow("a", "b") EXCEPT !.fromSide = s, !.toSide = t]>>) :
    p \in {<<136, 0>>, <<200, 6>>, <<0, 100>>, <<20, 120>>, <<-200, -120>>},
    s \in SideNames, t \in SideNames}
\* arrows that share a side of a box
Fans == {Drawing([a |-> Usual(0, 0), b |-> Usual(p[1], p[2]), c |-> Usual(q[1], q[2])], arrows) :
    arrows \in {<<Arrow("a", "b"), Arrow("a", "c")>>,
                <<[Arrow("a", "b") EXCEPT !.width = 40 * Px], Arrow("c", "a")>>,
                <<Arrow("b", "a"), Arrow("a", "b"), Arrow("a", "c")>>},
    p \in {<<200, 0>>, <<200, 80>>, <<6, 100>>, <<400, 7>>, <<200, -90>>},
    q \in {<<200, 0>>, <<210, 90>>, <<160, 180>>, <<-180, 7>>}}
\* two unrelated arrows on authored ways
Meets == {[Drawing([a |-> Usual(0, 0), b |-> Usual(400, 0), c |-> Box(200, -250, 60, 60),
                    d |-> Box(270, IF up THEN -250 ELSE 200, 60, 60)],
                   <<[Arrow("a", "b") EXCEPT !.via = v, !.fromSide = "right",
                        !.toSide = IF v = <<>> THEN "left" ELSE "bottom"],
                     [Arrow("c", "d") EXCEPT !.via = w, !.width = 30 * Px,
                        !.fromSide = "bottom", !.toSide = IF up THEN "bottom" ELSE "top"]>>)
             EXCEPT !.merges = m, !.profile = q] :
    up \in BOOLEAN, m \in BOOLEAN, q \in {"showcase", "standard"},
    v \in {<<>>, <<At(320, 30), At(200, 30), At(200, 130), At(460, 130)>>},
    w \in {<<At(230, 30), At(300, 30)>>, <<At(230, 30), At(230, 100), At(300, 100)>>,
           <<At(230, 50), At(300, 50)>>, <<At(230, -40), At(300, -40)>>,
           <<At(230, 0), At(210, 30), At(204, 30), At(300, 100)>>}}
\* frames that nest or not around three boxes
Framed == {[Drawing([a |-> Usual(0, 0), b |-> Usual(x, 0), c |-> Usual(400, 200)],
                    <<[Arrow("a", "c") EXCEPT !.via = v]>>)
              EXCEPT !.boundaries = <<[kind |-> "region", wraps |-> r, pad |-> 30 * Px],
                                      [kind |-> "security-group", wraps |-> g, pad |-> p]>>,
                     !.nested = n, !.profile = q] :
    x \in {160, 220}, n \in BOOLEAN, q \in {"none", "standard"}, p \in {10 * Px, 40 * Px},
    r \in {{"a"}, {"a", "b"}}, g \in {{"a"}, {"b"}, {"b", "c"}},
    v \in {<<At(150, 30), At(150, 230)>>, <<>>}}
Drawings == Single \cup Fans \cup Meets \cup Framed
=============================================================================
