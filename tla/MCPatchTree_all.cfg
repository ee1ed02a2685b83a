SPECIFICATION Spec
CONSTANTS
  Kits = {{"dspark"}, {"relay"}, {"fp8"}, {"hand"},
          {"anchor_fix", "inflight_gate", "cadence_fix", "kernel_fix"},
          {"dspark", "a0_only"}, {"dspark", "fp8"}, {"dspark", "relay"}}
  MaxDrifted <- OneApart
INVARIANTS Idempotent SuccessMeansApplied
