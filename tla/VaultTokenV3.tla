---------------------------- MODULE VaultTokenV3 ----------------------------
(***************************************************************************)
(* VaultTokenV3: the liquidity vault of one token, as operators on a vault *)
(* record.  "total" is totalVault, the amount owed to the holders of vault *)
(* tokens; "shares" is totalSupply(); "balance" is vaultBalance, how much  *)
(* of the token each chain is believed to hold for the bridge, an int256   *)
(* that may be negative.                                                   *)
(***************************************************************************)
EXTENDS Integers

CONSTANT Chains

Vault == [total : Nat, shares : Nat, balance : [Chains -> Int]]

\* Mutant of GetVaultTokenAmount: the division rounds up.
GetVaultTokenAmountUp(v, amount) ==
    IF v.shares = 0 THEN amount ELSE (amount * v.shares + v.total - 1) \div v.total

\* The vault tokens minted for an amount of the underlying token.
GetVaultTokenAmount(v, amount) ==
    IF v.shares = 0 THEN amount ELSE (amount * v.shares) \div v.total

\* The underlying tokens paid for an amount of vault tokens.
GetTokenAmount(v, amount) ==
    IF v.shares = 0 THEN amount ELSE (amount * v.total) \div v.shares

\* The division of GetVaultTokenAmount reverts when the vault is worth nothing.
CanDeposit(v) == v.shares = 0 \/ v.total > 0

\* Mutant of Deposit: the vault's total does not grow.
DepositSharesOnly(v, from, amount) ==
    [v EXCEPT !.shares = @ + GetVaultTokenAmount(v, amount), !.balance[from] = @ + amount]

Deposit(v, from, amount) ==
    [v EXCEPT !.shares = @ + GetVaultTokenAmount(v, amount),
              !.total = @ + amount,
              !.balance[from] = @ + amount]

\* Mutant of Withdraw: the amount is priced after the burn.
WithdrawBurntFirst(v, to, vaultAmount) ==
    LET burnt == [v EXCEPT !.shares = @ - vaultAmount]
    IN  [burnt EXCEPT !.total = @ - GetTokenAmount(burnt, vaultAmount),
                      !.balance[to] = @ - GetTokenAmount(burnt, vaultAmount)]

Withdraw(v, to, vaultAmount) ==
    [v EXCEPT !.shares = @ - vaultAmount,
              !.total = @ - GetTokenAmount(v, vaultAmount),
              !.balance[to] = @ - GetTokenAmount(v, vaultAmount)]

\* Mutant of UpdateVault: the two chains are swapped.
UpdateVaultSwapped(v, from, amount, to, outAmount, vaultFee) ==
    [v EXCEPT !.total = @ + vaultFee,
              !.balance = [[v.balance EXCEPT ![to] = @ + amount] EXCEPT ![from] = @ - outAmount]]

\* updateVault: the order's amount moves from one chain's balance to another
\* chain's, and the vault's part of the fee goes to the holders.
UpdateVault(v, from, amount, to, outAmount, vaultFee) ==
    [v EXCEPT !.total = @ + vaultFee,
              !.balance = [[v.balance EXCEPT ![from] = @ + amount] EXCEPT ![to] = @ - outAmount]]
=============================================================================
