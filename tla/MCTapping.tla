----------------------------- MODULE MCTapping ------------------------------
EXTENDS Tapping, TLC

CONSTANTS k1, k2, k3

\* Two tap keys; a layer key that may be released while the tap key waits; two
\* keys that may be tapped while it does.
TwoTapKeys == (k1 :> "modtap") @@ (k2 :> "layertap") @@ (k3 :> "plain")
LayerKeys == (k1 :> "modtap") @@ (k2 :> "layer") @@ (k3 :> "plain")
PlainKeys == (k1 :> "modtap") @@ (k2 :> "plain") @@ (k3 :> "plain")

Default(kind) == [Kind |-> kind, Opaque |-> {}, PermissiveHold |-> FALSE,
                  HoldOnOtherKeyPress |-> FALSE, WAITING_BUFFER_SIZE |-> 8]

AllBuilds ==
    {Default(TwoTapKeys), Default(LayerKeys),
     [Default(PlainKeys) EXCEPT !.PermissiveHold = TRUE],
     [Default(TwoTapKeys) EXCEPT !.HoldOnOtherKeyPress = TRUE],
     [Default(PlainKeys) EXCEPT !.WAITING_BUFFER_SIZE = 3]}

\* Builds that break a rule of the documentation.
Nested == {[Default(TwoTapKeys) EXCEPT !.PermissiveHold = TRUE]}
OpaqueLayer == {[Default(LayerKeys) EXCEPT !.Opaque = {k2}]}
TwoTaps == {Default(TwoTapKeys)}
Retaining == {[Default(LayerKeys) EXCEPT !.PermissiveHold = TRUE]}
SmallBuffer == {[Default(LayerKeys) EXCEPT !.WAITING_BUFFER_SIZE = 2]}
=============================================================================
