\* Every list but entitlements; pages of one row, up to four insertions.
SPECIFICATION Spec
CONSTANTS
    Lists = {"blocks", "txs", "accounts", "decode_failures", "coreslots", "slot_events", "windows", "key_rotations", "proposed_blocks", "epochs", "slot_rewards", "balances", "params", "treasury", "payouts", "settlements", "settlement_status"}
    Limit = 1
    MaxAt = 2
    MaxSub = 2
    MaxN = 2
    MaxId = 4
INVARIANTS NoRowTwice NothingSkipped
CHECK_DEADLOCK FALSE
