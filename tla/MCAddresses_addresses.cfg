SPECIFICATION Spec
CONSTANTS
    None = None
    Outside = {o1, o2}
    Width = 4
INVARIANTS NatTypeOK NeverTooOpen UntroubledExact ContainsExact PoolExact AcceptedBindable MaskExact
