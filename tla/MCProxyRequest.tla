---------------------------- MODULE MCProxyRequest ----------------------------
(***************************************************************************)
(* ProxyRequest for TLC: two services, one falling back to the other, and   *)
(* a key that may call both.                                               *)
(***************************************************************************)
EXTENDS ProxyRequest

CONSTANTS r1, r2, chat, backup, k1, owner, seedAdmin, chatSlug, backupSlug

TwoRequests == {r1, r2}
OneRequest == {r1}
TwoServices == {chat, backup}
TwoSlugs == {chatSlug, backupSlug}
OneKey == {k1}
AllBodies == {"stream", "array", "plain"}
Objects == {"stream", "plain"}
TwoStatuses == {"200", "503"}
Below400 == {"200"}
AllowsAll == [k \in OneKey |-> {}]
AllowsChat == [k \in OneKey |-> {chatSlug}]
OwnedKeys == [k \in OneKey |-> owner]
OwnedServices == [s \in TwoServices |-> owner]

\* Streaming and caching of the two services; backup may itself have a fallback.
Table(cs, cc, bs, bc, bf) ==
    [s \in TwoServices |->
        IF s = chat
          THEN [slug |-> chatSlug, active |-> TRUE, streaming |-> cs, cache |-> cc, fallback |-> backup,
                on |-> {"503"}]
          ELSE [slug |-> backupSlug, active |-> TRUE, streaming |-> bs, cache |-> bc, fallback |-> bf,
                on |-> {"503"}]]
AllTables == {Table(cs, cc, bs, bc, None) : cs, cc, bs, bc \in BOOLEAN}

\* Starting points for runs in which administrators change the rows anyway.
SomeTables == {Table(TRUE, TRUE, TRUE, FALSE, None), Table(FALSE, TRUE, TRUE, TRUE, None)}
OneTable == {Table(TRUE, TRUE, TRUE, FALSE, None)}

\* Both ways at once: each service is the other's fallback.
RingTables == {Table(TRUE, FALSE, FALSE, TRUE, chat)}
===============================================================================
