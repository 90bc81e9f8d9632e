---------------------------- MODULE MCPrefetcher ----------------------------
(* Block trees for checking Prefetcher.                                    *)
EXTENDS Prefetcher

\* a -> b -> {c, d}: a two-level directory, every reference with nonce 0.
DeepBlocks   == {"a", "b", "c", "d"}
DeepChildren == ("a" :> <<<<"b", 0>>>>) @@ ("b" :> <<<<"c", 0>>, <<"d", 0>>>>)
                @@ ("c" :> <<>>) @@ ("d" :> <<>>)

\* a -> {b, c}: one directory of two files.
FlatBlocks   == {"a", "b", "c"}
FlatChildren == ("a" :> <<<<"b", 0>>, <<"c", 0>>>>) @@ ("b" :> <<>>) @@ ("c" :> <<>>)

\* a -> b, then a write makes a new parent a2 -> {b, c} (spec.md section 8,
\* scenario 2): b gains a second parent while it is in flight.  a2 refers
\* to b's content under RefNonce 1, so b is linked to a under nonce 0 and
\* to a2 under nonce 1.
ShareBlocks   == {"a", "a2", "b", "c"}
ShareChildren == ("a" :> <<<<"b", 0>>>>) @@ ("a2" :> <<<<"b", 1>>, <<"c", 0>>>>)
                 @@ ("b" :> <<>>) @@ ("c" :> <<>>)

RootA  == {<<"a", 0>>}
RootsA == {<<"a", 0>>, <<"a2", 0>>}
WithPrefetch == {BlockRequestWithPrefetch}
SyncActions  == {BlockRequestWithSyncAndPrefetch, BlockRequestWithDeepSync}
MixedActions == {BlockRequestWithPrefetch, BlockRequestWithDeepSync}
=============================================================================
