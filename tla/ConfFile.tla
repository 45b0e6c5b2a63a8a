------------------------------ MODULE ConfFile ------------------------------
(***************************************************************************)
(* The configuration files of WireGuard: internal/confgen.  A file is a    *)
(* sequence of lines; a line is a section header, a comment or a setting.  *)
(* PresharedKey and PostDown, handled like Endpoint and PostUp, and blank  *)
(* lines, which mean nothing, are left out.                                *)
(***************************************************************************)
EXTENDS Naturals, Sequences, SequencesExt

CONSTANT None   \* the empty string

Header(s)  == [t |-> s, k |-> None, v |-> None]
Comment(c) == [t |-> "comment", k |-> None, v |-> c]
KV(k, v)   == [t |-> "kv", k |-> k, v |-> v]
When(c, l) == IF c THEN <<l>> ELSE <<>>

\* The fields of a [Peer] section and of the [Interface] section.
NoPeer  == [name |-> None, publickey |-> None, allowedips |-> None,
            endpoint |-> None, persistentkeepalive |-> 0]
NoIface == [privatekey |-> None, address |-> None, listenport |-> 0, mtu |-> 0,
            postup |-> <<>>]

-----------------------------------------------------------------------------
(***************************************************************************)
(* GenerateServerConf.  DNS is left out on purpose.                        *)
(***************************************************************************)

\* The lines of a [Peer] section, with its name inside it or, as people write
\* it by hand, above it.
PeerLines(b, above) ==
    LET name == When(b.name # None, Comment(b.name))
    IN (IF above THEN Append(name, Header("peer")) ELSE <<Header("peer")>> \o name)
       \o <<KV("publickey", b.publickey), KV("allowedips", b.allowedips)>>
       \o When(b.endpoint # None, KV("endpoint", b.endpoint))
       \o When(b.persistentkeepalive > 0,
               KV("persistentkeepalive", b.persistentkeepalive))

IfaceLines(i) ==
    <<Header("iface"), KV("privatekey", i.privatekey), KV("address", i.address),
      KV("listenport", i.listenport)>>
    \o When(i.mtu > 0, KV("mtu", i.mtu))
    \o [n \in 1..Len(i.postup) |-> KV("postup", i.postup[n])]

\* above[n] says where the name of the n-th peer stands; the code puts all of
\* them inside.
ServerConf(i, blocks, above) ==
    IfaceLines(i) \o FlattenSeq([n \in 1..Len(blocks) |-> PeerLines(blocks[n], above[n])])

-----------------------------------------------------------------------------
(***************************************************************************)
(* ParseConfig.                                                            *)
(***************************************************************************)

Start == [cur |-> "none", last |-> None, iface |-> NoIface, peers |-> <<>>]

\* A [Peer] header takes the comment above it.
AtPeer(s) == [s EXCEPT !.cur = "peer", !.last = None,
                       !.peers = Append(@, [NoPeer EXCEPT !.name = s.last])]

\* Mutant of AtComment: a comment renames a peer that has a name.
MutAtComment(s, c) ==
    LET n == Len(s.peers)
        names == s.cur = "peer" /\ n > 0
    IN [s EXCEPT !.last = c, !.peers = IF names THEN [@ EXCEPT ![n].name = c] ELSE @]

\* A comment is kept for the next header, and names the present peer if that
\* has no name yet.
AtComment(s, c) ==
    LET n == Len(s.peers)
        names == s.cur = "peer" /\ n > 0 /\ s.peers[n].name = None
        peer == [s.peers[n] EXCEPT !.name = c]
    IN [s EXCEPT !.last = c, !.peers = IF names THEN ReplaceAt(@, n, peer) ELSE @]

\* A setting of the current section; unknown ones are ignored.  The lines are those
\* of a generated file, in which a port, an MTU and a keepalive are numbers: the
\* errors for those that are not do not occur.
AtSetting(s, k, v) ==
    LET n == Len(s.peers)
        peer == [s.peers[n] EXCEPT ![k] = v]
    IN CASE s.cur = "iface" /\ k = "postup" ->
                [s EXCEPT !.last = None, !.iface.postup = Append(@, v)]
         [] s.cur = "iface" /\ k \in DOMAIN NoIface \ {"postup"} ->
                [s EXCEPT !.last = None, !.iface[k] = v]
         [] s.cur = "peer" /\ k \in DOMAIN NoPeer \ {"name"} ->
                [s EXCEPT !.last = None, !.peers = ReplaceAt(@, n, peer)]
         [] OTHER -> [s EXCEPT !.last = None]

ParseLine(s, l) ==
    CASE l.t = "comment" -> AtComment(s, l.v)
      [] l.t = "iface"   -> [s EXCEPT !.cur = "iface", !.last = None]
      [] l.t = "peer"    -> AtPeer(s)
      [] l.t = "kv"      -> AtSetting(s, l.k, l.v)

\* None when there is no private key.
ParseConfig(lines) ==
    LET s == FoldLeft(ParseLine, Start, lines)
    IN IF s.iface.privatekey = None THEN None
       ELSE [iface |-> s.iface, peers |-> s.peers]
=============================================================================
