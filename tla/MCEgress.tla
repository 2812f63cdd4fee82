------------------------------ MODULE MCEgress ------------------------------
(* An instance of Egress for TLC: the process id of p1 is used again by p2, *)
(* and a process of another user holds a socket of p1 and the mesh's.  The *)
(* endpoints of s1 come back with s3, and so does the inode of s2; the     *)
(* three have one peer.  The peer of local is this network's and that of   *)
(* mesh the mesh, both as mapped IPv6.                                     *)
EXTENDS Egress

CONSTANTS s1, s2, s3, local, mesh, udp, p1, p2, steady, hidden

Net(bits, len) == [bits |-> bits, len |-> len]
Entry(net, provider) == [net |-> net, provider |-> provider, detail |-> "fallback"]
MCFallback == <<Entry(Net(1, 2), "Cloudflare"), Entry(Net(1, 1), "AWS")>>
MCAws == {<<Net(4, 3)>>}
MCGcp == {<<Net(5, 3)>>}

MCSockets == {s1, s2, s3, local, mesh, udp}
MCProcesses == {p1, p2, steady, hidden}
MCPidOf == p1 :> 2 @@ p2 :> 2 @@ hidden :> 1 @@ steady :> 3
MCEndsOf == s1 :> 1 @@ s2 :> 2 @@ s3 :> 1 @@ local :> 3 @@ mesh :> 4 @@ udp :> 5
MCInodeOf == s1 :> 1 @@ s2 :> 2 @@ s3 :> 2 @@ local :> 3 @@ mesh :> 4 @@ udp :> 5
MCHoldersOf == s1 :> {p1} @@ s2 :> {p1, hidden} @@ s3 :> {p2} @@ local :> {p1} @@ mesh :> {hidden} @@ udp :> {steady}
MCV6 == {local, mesh}
MCUdp == {udp}
MCHidden == {hidden}
MCSilent == {s3}
At(mapped, h) == [mapped |-> mapped, host |-> h]
MCPeerOf == s1 :> At(FALSE, 4) @@ s2 :> At(FALSE, 4) @@ s3 :> At(FALSE, 4)
              @@ local :> At(TRUE, 0) @@ mesh :> At(TRUE, 1) @@ udp :> At(FALSE, 6)
=============================================================================
