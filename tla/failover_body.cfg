SPECIFICATION Spec
CONSTANT Count = 2
INVARIANT ExhaustedMeansUnavailable
