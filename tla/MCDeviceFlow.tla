---------------------------- MODULE MCDeviceFlow ----------------------------
\* Instances of DeviceFlow for TLC.
EXTENDS DeviceFlow, TLC
CONSTANTS v1, v2, c1, c2, u1, u2

\* c1 is the name of an application in both virtual servers, c2 only in v1, and only
\* those of v1 have the device flow enabled.
SharedName == {<<v1, c1>>, <<v1, c2>>, <<v2, c1>>}
EnabledInOne == {<<v1, c1>>, <<v1, c2>>}
OneEach == (u1 :> v1) @@ (u2 :> v2)
Interchangeable ==
    Permutations(Device) \union Permutations(UserCode) \union Permutations(Login)
    \union Permutations(Handler)
=============================================================================
